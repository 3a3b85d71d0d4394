-------------------------- MODULE NFTLedgerProofs --------------------------
(***************************************************************************)
(* Theorems about NFTLedger, for any accounts, shards, tokens and epochs   *)
(* and any number of transfers in flight.                                  *)
(***************************************************************************)
EXTENDS NFTLedger, FoldLemmas

LEMMA TransferFields ==
  ASSUME NEW m \in Transfers
  PROVE  /\ m.from \in Accounts /\ m.to \in Accounts /\ m.nonce \in Nonces
         /\ m.val \in Amounts /\ m.val \in Nat \ {0}
         /\ m.id \in TransferIds /\ m.version \in Nat /\ m.ret \in BOOLEAN
  BY NFTAssumption DEF Transfers

\* The node's answer to m.
Answer(m) == [m EXCEPT !.from = m.to, !.to = m.from, !.ret = TRUE]

LEMMA AnswerIsTransfer ==
  ASSUME NEW m \in Transfers
  PROVE  /\ Answer(m) \in Transfers
         /\ Answer(m).id = m.id /\ Answer(m).val = m.val /\ Answer(m).nonce = m.nonce
         /\ Answer(m).ret = TRUE /\ Answer(m).from = m.to /\ Answer(m).to = m.from
  BY DEF Answer, Transfers

LEMMA NestedUpdate ==
  ASSUME NEW A, NEW B, NEW R, NEW f \in [A -> [B -> R]], NEW a \in A, NEW b, NEW r,
         b \in B => r \in R
  PROVE  [f EXCEPT ![a][b] = r] \in [A -> [B -> R]]
<1>1. CASE b \in B
  BY <1>1
<1>2. CASE b \notin B
  BY <1>2
<1> QED
  BY <1>1, <1>2

-----------------------------------------------------------------------------
(* Records of the system account                                           *)

LEMMA NoRecordType == NoRecord \in Records
  BY DEF NoRecord, Records

LEMMA StoreMetadataType ==
  ASSUME NEW r \in Records, NEW version \in Nat, NEW all \in BOOLEAN, NEW old \in BOOLEAN,
         NEW here \in SUBSET Shards
  PROVE  StoreMetadata(r, version, all, old, here) \in Records
  BY DEF StoreMetadata, Records

LEMMA MarkSentType ==
  ASSUME NEW r \in Records, NEW s \in Shards
  PROVE  MarkSent(r, s) \in Records
<1>1. r.sent \cup {s} \in SUBSET Shards
  BY DEF Records
<1>2. QED
  BY <1>1 DEF MarkSent, Records

LEMMA AddLiquidityType ==
  ASSUME NEW r \in Records, NEW v \in Int, v \in Nat \/ CanAddLiquidity(r, v)
  PROVE  AddLiquidity(r, v) \in Records
<1>1. r.tracked \in BOOLEAN /\ r.liquidity \in Nat /\ r.version \in Nat
  BY DEF Records
<1>2. CASE ~CountsLiquidity \/ ~r.tracked
  BY <1>2 DEF AddLiquidity
<1>3. CASE CountsLiquidity /\ r.tracked /\ Uncounted(r, v)
  BY <1>3 DEF AddLiquidity, Records
<1>4. CASE CountsLiquidity /\ r.tracked /\ ~Uncounted(r, v) /\ r.liquidity + v = 0
  BY <1>4, NoRecordType DEF AddLiquidity
<1>5. CASE CountsLiquidity /\ r.tracked /\ ~Uncounted(r, v) /\ r.liquidity + v # 0
  <2>1. r.liquidity + v \in Nat
    BY <1>1, <1>5 DEF CanAddLiquidity
  <2>2. AddLiquidity(r, v) = [r EXCEPT !.liquidity = r.liquidity + v]
    BY <1>5, Zenon DEF AddLiquidity
  <2> QED
    BY <2>1, <2>2 DEF Records
<1> QED
  BY <1>1, <1>2, <1>3, <1>4, <1>5

-----------------------------------------------------------------------------
(* What a step may do to the quantities, the messages and the supply       *)

\* Messages differ in their ids, and of a token that was not created there is
\* nothing: no quantity, no message and no metadata.
UniqueTransfers == \A m, k \in inFlight : m.id = k.id => m = k

Uncreated ==
  \A n \in Nonces : latest[n] = 0 =>
    /\ \A a \in Accounts : quantity[a][n] = 0 /\ own[a][n] = 0
    /\ \A m \in inFlight : m.nonce # n
    /\ \A s \in Shards : meta[s][n] = NoRecord

IInv == TypeOK /\ UniqueTransfers /\ Uncreated

LEMMA HeldIsCreated ==
  ASSUME IInv, NEW a \in Accounts, NEW n \in Nonces, quantity[a][n] # 0
  PROVE  latest[n] # 0
  BY DEF IInv, Uncreated

\* What an account reads and keeps of the metadata.
LEMMA VersionType ==
  ASSUME IInv, NEW a \in Accounts, NEW n \in Nonces
  PROVE  Version(a, n) \in Nat
<1>1. ShardOf[a] \in Shards
  BY NFTAssumption
<1>2. own[a][n] \in Nat /\ meta[ShardOf[a]][n].version \in Nat
  BY <1>1 DEF IInv, TypeOK, Records
<1>3. QED
  BY <1>2 DEF Version

LEMMA OwnCopyType ==
  ASSUME NEW version \in Nat, NEW q
  PROVE  OwnCopy(version, q) \in Nat
  BY DEF OwnCopy

LEMMA SavedType ==
  ASSUME IInv, NEW a \in Accounts, NEW n \in Nonces, NEW version \in Nat, NEW all \in BOOLEAN
  PROVE  Saved(a, n, version, all) \in Records
<1>1. ShardOf[a] \in Shards /\ {ShardOf[a]} \in SUBSET Shards
  BY NFTAssumption
<1>2. meta[ShardOf[a]][n] \in Records /\ (own[a][n] # 0) \in BOOLEAN
  BY <1>1 DEF IInv, TypeOK
<1>3. QED
  BY <1>1, <1>2, StoreMetadataType DEF Saved

\* What keeps a stopped account from taking part.
Free(a, n) == latest[n] = 0 \/ ~Stopped(a, n, FALSE)

Wiped(a, n) == n \in frozen[a] \ frozen'[a]

Gain(a, n, v) ==
  /\ Free(a, n)
  /\ latest'[n] > 0
  /\ quantity' = [quantity EXCEPT ![a][n] = quantity[a][n] + v]
  /\ supply' = [supply EXCEPT ![n] = supply[n] + v]
  /\ UNCHANGED inFlight

Loss(a, n, v) ==
  /\ Free(a, n) \/ (Wiped(a, n) /\ v = quantity[a][n])
  /\ quantity[a][n] >= v
  /\ quantity' = [quantity EXCEPT ![a][n] = quantity[a][n] - v]
  /\ supply' = [supply EXCEPT ![n] = supply[n] - v]
  /\ UNCHANGED inFlight

Shift(a, b, n, v) ==
  /\ a # b
  /\ Free(a, n) /\ Free(b, n)
  /\ quantity[a][n] >= v
  /\ quantity' = [quantity EXCEPT ![a][n] = quantity[a][n] - v, ![b][n] = quantity[b][n] + v]
  /\ UNCHANGED <<inFlight, supply>>

Leave(m) ==
  /\ ~m.ret
  /\ Free(m.from, m.nonce)
  /\ Unused(m.id)
  /\ quantity[m.from][m.nonce] >= m.val
  /\ quantity' = [quantity EXCEPT ![m.from][m.nonce] = quantity[m.from][m.nonce] - m.val]
  /\ inFlight' = inFlight \cup {m}
  /\ UNCHANGED supply

Arrive(m) ==
  /\ m.ret \/ Free(m.to, m.nonce)
  /\ quantity' = [quantity EXCEPT ![m.to][m.nonce] = quantity[m.to][m.nonce] + m.val]
  /\ inFlight' = inFlight \ {m}
  /\ UNCHANGED supply

Return(m) ==
  /\ ~m.ret
  /\ inFlight' = (inFlight \ {m}) \cup {Answer(m)}
  /\ UNCHANGED <<quantity, supply>>

Effect ==
  \/ \E a \in Accounts, n \in Nonces, v \in Amounts : Gain(a, n, v)
  \/ \E a \in Accounts, n \in Nonces, v \in Nat : Loss(a, n, v)
  \/ \E a, b \in Accounts, n \in Nonces, v \in Amounts : Shift(a, b, n, v)
  \/ \E m \in Transfers : Leave(m)
  \/ \E m \in inFlight : Arrive(m) \/ Return(m)
  \/ UNCHANGED <<quantity, inFlight, supply>>

LEMMA CreateEffect ==
  ASSUME IInv, NEW a \in Accounts, NEW n \in Nonces, NEW v \in Amounts, NFTCreate(a, n, v)
  PROVE  Gain(a, n, v)
<1>1. latest[n] = 0 /\ quantity[a][n] = 0 /\ v \in Nat /\ 0 + v = v
  BY NFTAssumption DEF NFTCreate, IInv, Uncreated
<1>2. quantity' = [quantity EXCEPT ![a][n] = quantity[a][n] + v]
  BY <1>1 DEF NFTCreate
<1>3. latest'[n] = 1 /\ 1 > 0
  BY DEF NFTCreate, IInv, TypeOK
<1>4. QED
  BY <1>1, <1>2, <1>3, Zenon DEF Gain, Free, NFTCreate

LEMMA AddQuantityEffect ==
  ASSUME IInv, NEW a \in Accounts, NEW n \in Nonces, NEW v \in Amounts, NFTAddQuantity(a, n, v)
  PROVE  Gain(a, n, v)
<1>1. quantity[a][n] # 0 /\ latest' = latest
  BY DEF NFTAddQuantity, HasToken, Stopped, IInv, TypeOK
<1>2. latest[n] > 0
  BY <1>1, HeldIsCreated DEF IInv, TypeOK
<1>3. QED
  BY <1>1, <1>2, Zenon DEF Gain, Free, NFTAddQuantity

LEMMA WipeEffect ==
  ASSUME IInv, NEW a \in Accounts, NEW n, Wipe(a, n)
  PROVE  n \in Nonces /\ quantity[a][n] \in Nat /\ Loss(a, n, quantity[a][n])
<1>1. n \in Nonces /\ quantity[a][n] \in Nat
  BY DEF IInv, TypeOK, Wipe
<1>2. quantity[a][n] - quantity[a][n] = 0 /\ quantity[a][n] >= quantity[a][n]
  BY <1>1
<1>3. quantity' = [quantity EXCEPT ![a][n] = quantity[a][n] - quantity[a][n]]
  BY <1>2, Zenon DEF Wipe
<1>4. Wiped(a, n)
  BY DEF Wipe, Wiped, IInv, TypeOK
<1>5. QED
  BY <1>1, <1>2, <1>3, <1>4 DEF Loss, Wipe

LEMMA SendEffect ==
  ASSUME IInv, NEW id \in TransferIds, NEW from \in Accounts, NEW to \in Accounts,
         NEW n \in Nonces, NEW v \in Amounts, SendToOtherShard(id, from, to, n, v)
  PROVE  \E m \in Transfers : Leave(m) /\ m.nonce = n
<1>1. PICK w \in Nat :
        inFlight' = inFlight \cup
          {[id |-> id, from |-> from, to |-> to, nonce |-> n, val |-> v,
            version |-> w, ret |-> FALSE]}
  <2>1. Version(from, n) \in Nat /\ 0 \in Nat
    BY VersionType
  <2>2. QED
    BY <2>1 DEF SendToOtherShard
<1> DEFINE m == [id |-> id, from |-> from, to |-> to, nonce |-> n, val |-> v,
                 version |-> w, ret |-> FALSE]
<1>2. m \in Transfers
  BY DEF Transfers
<1>3. Leave(m)
  BY <1>1 DEF Leave, Free, SendToOtherShard, Stopped
<1>4. QED
  BY <1>2, <1>3

LEMMA DeliverEffect ==
  ASSUME NEW m \in inFlight, Deliver(m)
  PROVE  Arrive(m)
<1>1. m.ret \/ Free(m.to, m.nonce)
  BY DEF Deliver, Accepted, Free, Stopped
<1>2. QED
  BY <1>1 DEF Deliver, Arrive

LEMMA StepEffect == IInv /\ [Next]_vars => Effect
<1> SUFFICES ASSUME IInv, [Next]_vars PROVE Effect
  OBVIOUS
<1>1. ASSUME NEW a \in Accounts, NEW n \in Nonces, NEW v \in Amounts,
             NFTCreate(a, n, v) \/ NFTAddQuantity(a, n, v)
      PROVE  Effect
  BY <1>1, CreateEffect, AddQuantityEffect DEF Effect
<1>2. ASSUME NEW a \in Accounts, NEW n \in Nonces, NEW v \in Amounts, NFTBurn(a, n, v)
      PROVE  Effect
  <2>1. v \in Nat /\ Loss(a, n, v)
    BY <1>2, NFTAssumption DEF Loss, NFTBurn, Free
  <2>2. QED
    BY <2>1 DEF Effect
<1>3. ASSUME NEW a \in Accounts, NEW b \in Accounts, NEW n \in Nonces, NEW v \in Amounts,
             TransferInShard(a, b, n, v)
      PROVE  Effect
  <2>1. Shift(a, b, n, v)
    BY <1>3 DEF Shift, TransferInShard, Free
  <2>2. QED
    BY <2>1 DEF Effect
<1>4. ASSUME NEW id \in TransferIds, NEW a \in Accounts, NEW b \in Accounts, NEW n \in Nonces,
             NEW v \in Amounts, SendToOtherShard(id, a, b, n, v)
      PROVE  Effect
  BY <1>4, SendEffect DEF Effect
<1>5. ASSUME NEW m \in inFlight, Deliver(m) \/ SendBack(m) PROVE Effect
  <2>1. Arrive(m) \/ Return(m)
    BY <1>5, DeliverEffect DEF SendBack, Refused, Return, Answer
  <2>2. QED
    BY <2>1 DEF Effect
<1>6. ASSUME NEW target \in Freezable, Wipe(target[1], target[2]) PROVE Effect
  <2>1. target[1] \in Accounts
    BY NFTAssumption
  <2>2. QED
    BY <1>6, <2>1, WipeEffect DEF Effect
<1>7. CASE UNCHANGED <<quantity, inFlight, supply>>
  BY <1>7 DEF Effect
<1>8. ASSUME NEW a \in Accounts, NEW n \in Nonces, NFTAddURI(a, n) \/ NFTUpdateAttributes(a, n)
      PROVE  UNCHANGED <<quantity, inFlight, supply>>
  BY <1>8 DEF NFTAddURI, NFTUpdateAttributes, NewVersion
<1>9. ASSUME NEW a, NEW k, NEW freeze \in BOOLEAN, ToggleFreeze(a, k, freeze) \/ WipeCollection(a)
      PROVE  UNCHANGED <<quantity, inFlight, supply>>
  BY <1>9 DEF ToggleFreeze, WipeCollection
<1>10. ASSUME NEW s \in Shards, TogglePause(s) PROVE UNCHANGED <<quantity, inFlight, supply>>
  BY <1>10 DEF TogglePause
<1>11. ASSUME NEW s \in Shards, NEW n \in Deletable,
              DeleteMetadata(s, n) \/ \E v \in 1..latest[n] : AddMetadata(s, n, v)
       PROVE  UNCHANGED <<quantity, inFlight, supply>>
  BY <1>11 DEF DeleteMetadata, AddMetadata
<1>12. ASSUME Activate PROVE UNCHANGED <<quantity, inFlight, supply>>
  BY <1>12 DEF Activate
<1>13. CASE UNCHANGED vars
  BY <1>13, <1>7 DEF vars
<1> HIDE DEF Effect
<1> QED
  BY <1>1, <1>2, <1>3, <1>4, <1>5, <1>6, <1>7, <1>8, <1>9, <1>10, <1>11, <1>12, <1>13 DEF Next

-----------------------------------------------------------------------------
(* The invariant                                                           *)

LEMMA InitIInv == Init => IInv
<1> SUFFICES ASSUME Init PROVE IInv
  OBVIOUS
<1>1. TypeOK
  BY NFTAssumption, NoRecordType DEF Init, TypeOK
<1>2. UniqueTransfers /\ Uncreated
  BY DEF Init, UniqueTransfers, Uncreated
<1> QED
  BY <1>1, <1>2 DEF IInv

LEMMA EffectTypes ==
  ASSUME IInv, Effect
  PROVE  /\ quantity' \in [Accounts -> [Nonces -> Nat]]
         /\ supply' \in [Nonces -> Int]
         /\ inFlight' \subseteq Transfers
         /\ UniqueTransfers'
<1>t. /\ quantity \in [Accounts -> [Nonces -> Nat]] /\ supply \in [Nonces -> Int]
      /\ inFlight \subseteq Transfers /\ UniqueTransfers
  BY DEF IInv, TypeOK
<1>1. ASSUME NEW a \in Accounts, NEW n \in Nonces, NEW v \in Amounts, Gain(a, n, v)
      PROVE  quantity' \in [Accounts -> [Nonces -> Nat]] /\ supply' \in [Nonces -> Int]
  <2>1. v \in Nat /\ quantity[a][n] + v \in Nat /\ supply[n] + v \in Int
    BY <1>t, NFTAssumption
  <2>2. QED
    BY <1>t, <1>1, <2>1, NestedUpdate DEF Gain
<1>2. ASSUME NEW a \in Accounts, NEW n \in Nonces, NEW v \in Nat, Loss(a, n, v)
      PROVE  quantity' \in [Accounts -> [Nonces -> Nat]] /\ supply' \in [Nonces -> Int]
  <2>1. quantity[a][n] - v \in Nat /\ supply[n] - v \in Int
    BY <1>t, <1>2 DEF Loss
  <2>2. QED
    BY <1>t, <1>2, <2>1, NestedUpdate DEF Loss
<1>3. ASSUME NEW a \in Accounts, NEW b \in Accounts, NEW n \in Nonces, NEW v \in Amounts,
             Shift(a, b, n, v)
      PROVE  quantity' \in [Accounts -> [Nonces -> Nat]]
  <2> DEFINE q == [quantity EXCEPT ![a][n] = quantity[a][n] - v]
  <2>1. v \in Nat /\ quantity[a][n] - v \in Nat /\ quantity[b][n] + v \in Nat
    BY <1>t, <1>3, NFTAssumption DEF Shift
  <2>2. q \in [Accounts -> [Nonces -> Nat]]
    BY <1>t, <2>1, NestedUpdate
  <2>3. quantity' = [q EXCEPT ![b][n] = quantity[b][n] + v]
    BY <1>3 DEF Shift
  <2> HIDE DEF q
  <2>4. QED
    BY <2>1, <2>2, <2>3, NestedUpdate
<1>4. ASSUME NEW m \in Transfers, Leave(m)
      PROVE  /\ quantity' \in [Accounts -> [Nonces -> Nat]] /\ inFlight' \subseteq Transfers
             /\ UniqueTransfers'
  <2>1. m.from \in Accounts /\ m.nonce \in Nonces /\ m.val \in Nat
    BY TransferFields
  <2>2. quantity[m.from][m.nonce] - m.val \in Nat
    BY <1>t, <1>4, <2>1 DEF Leave
  <2>3. quantity' \in [Accounts -> [Nonces -> Nat]]
    BY <1>t, <1>4, <2>1, <2>2, NestedUpdate DEF Leave
  <2>4. QED
    BY <1>t, <1>4, <2>3 DEF Leave, Unused, UniqueTransfers
<1>5. ASSUME NEW m \in inFlight, Arrive(m)
      PROVE  /\ quantity' \in [Accounts -> [Nonces -> Nat]] /\ inFlight' \subseteq Transfers
             /\ UniqueTransfers'
  <2>1. m.to \in Accounts /\ m.nonce \in Nonces /\ m.val \in Nat
    BY <1>t, TransferFields
  <2>2. quantity[m.to][m.nonce] + m.val \in Nat
    BY <1>t, <2>1
  <2>3. quantity' \in [Accounts -> [Nonces -> Nat]]
    BY <1>t, <1>5, <2>1, <2>2, NestedUpdate DEF Arrive
  <2>4. QED
    BY <1>t, <1>5, <2>3 DEF Arrive, UniqueTransfers
<1>6. ASSUME NEW m \in inFlight, Return(m)
      PROVE  inFlight' \subseteq Transfers /\ UniqueTransfers'
  <2>1. Answer(m) \in Transfers /\ Answer(m).id = m.id
    BY <1>t, AnswerIsTransfer
  <2>2. QED
    BY <1>t, <1>6, <2>1 DEF Return, UniqueTransfers
<1>7. ASSUME UNCHANGED inFlight PROVE inFlight' \subseteq Transfers /\ UniqueTransfers'
  BY <1>t, <1>7 DEF UniqueTransfers
<1>8. QED
  BY <1>t, <1>1, <1>2, <1>3, <1>4, <1>5, <1>6, <1>7
  DEF Effect, Gain, Loss, Shift, Leave, Arrive, Return

\* A token that a step does not create stays without quantity and messages.
LEMMA EffectUncreated ==
  ASSUME IInv, Effect, NEW n \in Nonces, latest[n] = 0, latest'[n] = 0
  PROVE  /\ \A a \in Accounts : quantity'[a][n] = 0
         /\ \A m \in inFlight' : m.nonce # n
<1>t. /\ quantity \in [Accounts -> [Nonces -> Nat]] /\ inFlight \subseteq Transfers
  BY DEF IInv, TypeOK
<1>u. (\A a \in Accounts : quantity[a][n] = 0) /\ (\A m \in inFlight : m.nonce # n)
  BY DEF IInv, Uncreated
<1>1. ASSUME NEW a \in Accounts, NEW k \in Nonces, NEW v \in Amounts, Gain(a, k, v)
      PROVE  k # n /\ \A b \in Accounts : quantity'[b][n] = quantity[b][n]
  BY <1>t, <1>1 DEF Gain
<1>2. ASSUME NEW a \in Accounts, NEW k \in Nonces, NEW v \in Nat, Loss(a, k, v)
      PROVE  \A b \in Accounts : quantity'[b][n] = 0
  BY <1>t, <1>u, <1>2 DEF Loss
<1>3. ASSUME NEW a \in Accounts, NEW b \in Accounts, NEW k \in Nonces, NEW v \in Amounts,
             Shift(a, b, k, v)
      PROVE  \A c \in Accounts : quantity'[c][n] = 0
  <2>1. v \in Nat \ {0}
    BY NFTAssumption
  <2>2. k # n
    BY <1>u, <1>3, <2>1 DEF Shift
  <2>3. QED
    BY <1>t, <1>u, <1>3, <2>2 DEF Shift
<1>4. ASSUME NEW m \in Transfers, Leave(m)
      PROVE  m.nonce # n /\ \A c \in Accounts : quantity'[c][n] = 0
  <2>1. m.val \in Nat \ {0} /\ m.from \in Accounts /\ m.nonce \in Nonces
    BY TransferFields
  <2>2. m.nonce # n
    BY <1>u, <1>4, <2>1 DEF Leave
  <2>3. QED
    BY <1>t, <1>u, <1>4, <2>1, <2>2 DEF Leave
<1>5. ASSUME NEW m \in inFlight, Arrive(m)
      PROVE  \A c \in Accounts : quantity'[c][n] = 0
  <2>1. m.nonce # n /\ m.to \in Accounts /\ m.nonce \in Nonces
    BY <1>t, <1>u, TransferFields
  <2>2. QED
    BY <1>t, <1>u, <1>5, <2>1 DEF Arrive
<1>6. ASSUME NEW m \in inFlight, Return(m)
      PROVE  \A k \in inFlight' : k.nonce # n
  <2>1. Answer(m).nonce = m.nonce
    BY <1>t, AnswerIsTransfer
  <2>2. QED
    BY <1>u, <1>6, <2>1 DEF Return
<1>7. QED
  BY <1>t, <1>u, <1>1, <1>2, <1>3, <1>4, <1>5, <1>6
  DEF Effect, Gain, Loss, Shift, Leave, Arrive, Return

\* The record of token x in shard s becomes r.
WriteRecord(s, x, r) ==
  /\ x \in Nonces => r \in Records
  /\ x \in Nonces => latest'[x] # 0 \/ r = NoRecord
  /\ meta' = [meta EXCEPT ![s][x] = r]

\* No token is forgotten, and of those not yet created there is nothing.
NoneForgotten == \A n \in Nonces : latest'[n] = 0 => latest[n] = 0

RecordsKept ==
  /\ meta' \in [Shards -> [Nonces -> Records]]
  /\ \A n \in Nonces : latest'[n] = 0 => \A s \in Shards : meta'[s][n] = NoRecord

OwnKept ==
  /\ own' \in [Accounts -> [Nonces -> Nat]]
  /\ \A n \in Nonces : latest'[n] = 0 => \A a \in Accounts : own'[a][n] = 0

LEMMA WriteKeepsRecords ==
  ASSUME IInv, NEW s \in Shards, NEW x, NEW r, WriteRecord(s, x, r), NoneForgotten
  PROVE  RecordsKept
<1>1. meta \in [Shards -> [Nonces -> Records]]
  BY DEF IInv, TypeOK
<1>2. meta' \in [Shards -> [Nonces -> Records]]
  BY <1>1, NestedUpdate DEF WriteRecord
<1>3. ASSUME NEW n \in Nonces, latest'[n] = 0, NEW q \in Shards PROVE meta'[q][n] = NoRecord
  <2>1. meta[q][n] = NoRecord
    BY <1>3 DEF IInv, Uncreated, NoneForgotten
  <2>2. CASE q = s /\ x = n
    BY <1>1, <1>3, <2>2 DEF WriteRecord
  <2>3. CASE ~(q = s /\ x = n)
    BY <1>1, <2>1, <2>3 DEF WriteRecord
  <2>4. QED
    BY <2>2, <2>3
<1>4. QED
  BY <1>2, <1>3 DEF RecordsKept

LEMMA SameRecords ==
  ASSUME IInv, UNCHANGED meta, NoneForgotten
  PROVE  RecordsKept
  BY DEF IInv, TypeOK, Uncreated, RecordsKept, NoneForgotten

LEMMA WriteKeepsOwn ==
  ASSUME IInv, NEW a \in Accounts, NEW n \in Nonces, NEW w \in Nat, NoneForgotten,
         own' = [own EXCEPT ![a][n] = w], latest'[n] # 0
  PROVE  OwnKept
<1>1. own \in [Accounts -> [Nonces -> Nat]]
  BY DEF IInv, TypeOK
<1>2. own' \in [Accounts -> [Nonces -> Nat]]
  BY <1>1, NestedUpdate
<1>3. ASSUME NEW k \in Nonces, latest'[k] = 0, NEW b \in Accounts PROVE own'[b][k] = 0
  <2>1. own[b][k] = 0 /\ k # n
    BY <1>3 DEF IInv, Uncreated, NoneForgotten
  <2>2. QED
    BY <1>1, <2>1
<1>4. QED
  BY <1>2, <1>3 DEF OwnKept

LEMMA TwoWritesKeepOwn ==
  ASSUME IInv, NEW a \in Accounts, NEW b \in Accounts, NEW n \in Nonces, NEW w \in Nat,
         NEW x \in Nat, NoneForgotten, own' = [own EXCEPT ![a][n] = w, ![b][n] = x],
         latest'[n] # 0
  PROVE  OwnKept
<1> DEFINE o == [own EXCEPT ![a][n] = w]
<1>1. own \in [Accounts -> [Nonces -> Nat]]
  BY DEF IInv, TypeOK
<1>2. o \in [Accounts -> [Nonces -> Nat]]
  BY <1>1, NestedUpdate
<1>3. own' = [o EXCEPT ![b][n] = x]
  OBVIOUS
<1>4. own' \in [Accounts -> [Nonces -> Nat]]
  <2>1. [o EXCEPT ![b][n] = x] \in [Accounts -> [Nonces -> Nat]]
    <3> HIDE DEF o
    <3> QED
      BY <1>2, NestedUpdate
  <2>2. QED
    BY <1>3, <2>1
<1>5. ASSUME NEW k \in Nonces, latest'[k] = 0, NEW c \in Accounts PROVE own'[c][k] = 0
  <2>1. own[c][k] = 0 /\ k # n
    BY <1>5 DEF IInv, Uncreated, NoneForgotten
  <2>2. o[c][k] = 0
    BY <1>1, <2>1
  <2> HIDE DEF o
  <2>3. QED
    BY <1>2, <1>3, <2>1, <2>2
<1>6. QED
  BY <1>4, <1>5 DEF OwnKept

LEMMA SameOwn ==
  ASSUME IInv, UNCHANGED own, NoneForgotten
  PROVE  OwnKept
  BY DEF IInv, TypeOK, Uncreated, OwnKept, NoneForgotten

LEMMA ShardsOfAccounts ==
  ASSUME NEW a \in Accounts
  PROVE  ShardOf[a] \in Shards
  BY NFTAssumption

\* What a step leaves of the parts that Effect does not mention.
RestKept ==
  /\ frozen' \in [Accounts -> SUBSET Keys]
  /\ paused' \subseteq Shards
  /\ latest' \in [Nonces -> Nat]
  /\ NoneForgotten
  /\ RecordsKept
  /\ OwnKept
  /\ epoch' \in DOMAIN Schedule

\* A call that saves what one account has of a token.
LEMMA SaveKeepsRest ==
  ASSUME IInv, NEW a \in Accounts, NEW n \in Nonces, NEW r \in Records, NEW w \in Nat,
         latest' \in [Nonces -> Nat], latest'[n] # 0, NoneForgotten,
         meta' = [meta EXCEPT ![ShardOf[a]][n] = r], own' = [own EXCEPT ![a][n] = w],
         frozen' \in [Accounts -> SUBSET Keys], UNCHANGED <<paused, epoch>>
  PROVE  RestKept
<1>1. WriteRecord(ShardOf[a], n, r)
  BY DEF WriteRecord
<1>2. RecordsKept
  BY <1>1, ShardsOfAccounts, WriteKeepsRecords
<1>3. OwnKept
  BY WriteKeepsOwn
<1>4. QED
  BY <1>2, <1>3 DEF RestKept, IInv, TypeOK

LEMMA SameTokens == ASSUME UNCHANGED latest PROVE NoneForgotten
  BY DEF NoneForgotten

LEMMA CreateKeepsRest ==
  ASSUME IInv, NEW a \in Accounts, NEW n \in Nonces, NEW v \in Amounts, NFTCreate(a, n, v)
  PROVE  RestKept
<1> DEFINE r == Saved(a, n, 1, TRUE)
<1>1. v \in Nat /\ v \in Int
  BY NFTAssumption
<1>2. r \in Records
  BY SavedType
<1>3. AddLiquidity(r, v) \in Records /\ OwnCopy(1, v) \in Nat
  BY <1>1, <1>2, AddLiquidityType, OwnCopyType
<1>4. latest' \in [Nonces -> Nat] /\ latest'[n] # 0 /\ NoneForgotten
  BY DEF NFTCreate, IInv, TypeOK, NoneForgotten
<1>5. /\ meta' = [meta EXCEPT ![ShardOf[a]][n] = AddLiquidity(r, v)]
      /\ own' = [own EXCEPT ![a][n] = OwnCopy(1, v)]
      /\ UNCHANGED <<paused, epoch>>
  BY Zenon DEF NFTCreate
<1>6. frozen' \in [Accounts -> SUBSET Keys]
  BY DEF NFTCreate, IInv, TypeOK
<1>7. QED
  BY <1>3, <1>4, <1>5, <1>6, SaveKeepsRest

LEMMA CountKeepsRest ==
  ASSUME IInv, NEW a \in Accounts, NEW n \in Nonces, NEW v \in Int, NEW q, latest[n] # 0,
         CanAddLiquidity(Saved(a, n, Version(a, n), FALSE), v),
         meta' = [meta EXCEPT ![ShardOf[a]][n] =
                    AddLiquidity(Saved(a, n, Version(a, n), FALSE), v)],
         own' = [own EXCEPT ![a][n] = OwnCopy(Version(a, n), q)],
         UNCHANGED <<frozen, paused, latest, epoch>>
  PROVE  RestKept
<1>1. Saved(a, n, Version(a, n), FALSE) \in Records
  BY VersionType, SavedType
<1>2. AddLiquidity(Saved(a, n, Version(a, n), FALSE), v) \in Records
  BY <1>1, AddLiquidityType
<1>3. OwnCopy(Version(a, n), q) \in Nat
  BY VersionType, OwnCopyType
<1>4. latest' \in [Nonces -> Nat] /\ latest'[n] # 0 /\ frozen' \in [Accounts -> SUBSET Keys]
  BY DEF IInv, TypeOK
<1>5. NoneForgotten /\ UNCHANGED <<paused, epoch>>
  BY SameTokens
<1>6. QED
  BY <1>2, <1>3, <1>4, <1>5, SaveKeepsRest

LEMMA SendKeepsRest ==
  ASSUME IInv, NEW id \in TransferIds, NEW from \in Accounts, NEW to \in Accounts,
         NEW n \in Nonces, NEW v \in Amounts, SendToOtherShard(id, from, to, n, v)
  PROVE  RestKept
<1> DEFINE r == Saved(from, n, Version(from, n), FALSE)
           w == OwnCopy(Version(from, n), quantity[from][n] - v)
<1>1. -v \in Int /\ quantity[from][n] # 0
  BY NFTAssumption DEF SendToOtherShard, IInv, TypeOK
<1>2. r \in Records
  BY VersionType, SavedType
<1>3. CanAddLiquidity(r, -v)
  BY DEF SendToOtherShard
<1>4. MarkSent(AddLiquidity(r, -v), ShardOf[to]) \in Records /\ w \in Nat
  BY <1>1, <1>2, <1>3, AddLiquidityType, MarkSentType, ShardsOfAccounts, VersionType, OwnCopyType
<1>5. /\ meta' = [meta EXCEPT ![ShardOf[from]][n] = MarkSent(AddLiquidity(r, -v), ShardOf[to])]
      /\ own' = [own EXCEPT ![from][n] = w]
      /\ UNCHANGED <<frozen, paused, latest, epoch>>
  BY Zenon DEF SendToOtherShard
<1>6. /\ latest' \in [Nonces -> Nat] /\ latest'[n] # 0 /\ NoneForgotten
      /\ frozen' \in [Accounts -> SUBSET Keys]
  BY <1>1, <1>5, HeldIsCreated, SameTokens DEF IInv, TypeOK
<1>7. QED
  BY <1>4, <1>5, <1>6, SaveKeepsRest

LEMMA TransferKeepsRest ==
  ASSUME IInv, NEW from \in Accounts, NEW to \in Accounts, NEW n \in Nonces, NEW v \in Amounts,
         TransferInShard(from, to, n, v)
  PROVE  RestKept
<1> DEFINE r == Saved(from, n, Version(from, n), FALSE)
           w == OwnCopy(Version(from, n), quantity[from][n] - v)
           x == OwnCopy(Version(from, n), v)
<1>1. quantity[from][n] # 0
  BY NFTAssumption DEF TransferInShard, IInv, TypeOK
<1>2. r \in Records /\ w \in Nat /\ x \in Nat
  BY VersionType, SavedType, OwnCopyType
<1>3. /\ meta' = [meta EXCEPT ![ShardOf[from]][n] = r]
      /\ own' = [own EXCEPT ![from][n] = w, ![to][n] = x]
      /\ UNCHANGED <<frozen, paused, latest, epoch>>
  BY Zenon DEF TransferInShard
<1>4. latest'[n] # 0 /\ NoneForgotten
  BY <1>1, <1>3, HeldIsCreated, SameTokens
<1>5. WriteRecord(ShardOf[from], n, r)
  BY <1>2, <1>3, <1>4 DEF WriteRecord
<1>6. RecordsKept
  BY <1>4, <1>5, ShardsOfAccounts, WriteKeepsRecords
<1>7. OwnKept
  BY <1>2, <1>3, <1>4, TwoWritesKeepOwn
<1>8. QED
  BY <1>3, <1>4, <1>6, <1>7 DEF RestKept, IInv, TypeOK

LEMMA NewVersionKeepsRest ==
  ASSUME IInv, NEW a \in Accounts, NEW n \in Nonces, NewVersion(a, n)
  PROVE  RestKept
<1> DEFINE v == latest[n] + 1
<1>1. v \in Nat /\ v # 0
  BY DEF IInv, TypeOK
<1>2. Saved(a, n, v, TRUE) \in Records /\ OwnCopy(v, quantity[a][n]) \in Nat
  BY <1>1, SavedType, OwnCopyType
<1>3. latest' = [latest EXCEPT ![n] = v]
  BY DEF NewVersion
<1>4. latest' \in [Nonces -> Nat] /\ latest'[n] # 0 /\ NoneForgotten
  BY <1>1, <1>3 DEF IInv, TypeOK, NoneForgotten
<1>5. /\ meta' = [meta EXCEPT ![ShardOf[a]][n] = Saved(a, n, v, TRUE)]
      /\ own' = [own EXCEPT ![a][n] = OwnCopy(v, quantity[a][n])]
      /\ UNCHANGED <<paused, epoch>>
  BY Zenon DEF NewVersion
<1>6. frozen' \in [Accounts -> SUBSET Keys]
  BY DEF NewVersion, IInv, TypeOK
<1>7. QED
  BY <1>2, <1>4, <1>5, <1>6, SaveKeepsRest

\* What the destination's shard has of a message's token once the node has seen it.
LEMMA ReceivedTypes ==
  ASSUME IInv, NEW m \in inFlight
  PROVE  /\ m.to \in Accounts /\ m.nonce \in Nonces /\ m.val \in Nat /\ m.version \in Nat
         /\ latest[m.nonce] # 0
         /\ MetadataSaved(m) \in Records /\ Received(m) \in Records
<1>1. /\ m.to \in Accounts /\ m.from \in Accounts /\ m.nonce \in Nonces /\ m.val \in Nat
      /\ m.version \in Nat
  BY TransferFields DEF IInv, TypeOK
<1>2. {ShardOf[m.from], ShardOf[m.to]} \in SUBSET Shards /\ ShardOf[m.to] \in Shards
  BY <1>1, ShardsOfAccounts
<1>3. meta[ShardOf[m.to]][m.nonce] \in Records
  BY <1>1, <1>2 DEF IInv, TypeOK
<1>4. MetadataSaved(m) \in Records
  BY <1>1, <1>2, <1>3, StoreMetadataType DEF MetadataSaved
<1>5. (own[m.to][m.nonce] # 0) \in BOOLEAN
  OBVIOUS
<1>6. Received(m) \in Records
  BY <1>1, <1>2, <1>4, <1>5, StoreMetadataType DEF Received
<1>7. latest[m.nonce] # 0
  BY <1>1 DEF IInv, Uncreated
<1>8. QED
  BY <1>1, <1>4, <1>6, <1>7

LEMMA DeliverKeepsRest ==
  ASSUME IInv, NEW m \in inFlight, Deliver(m)
  PROVE  RestKept
<1> DEFINE r == AddLiquidity(Received(m), m.val)
           w == OwnCopy(m.version, m.val)
<1>1. m.to \in Accounts /\ m.nonce \in Nonces /\ r \in Records /\ w \in Nat
  BY ReceivedTypes, AddLiquidityType, OwnCopyType
<1>2. /\ meta' = [meta EXCEPT ![ShardOf[m.to]][m.nonce] = r]
      /\ own' = [own EXCEPT ![m.to][m.nonce] = w]
      /\ UNCHANGED <<paused, latest, epoch>>
  BY Zenon DEF Deliver
<1>3. /\ latest' \in [Nonces -> Nat] /\ latest'[m.nonce] # 0 /\ NoneForgotten
      /\ frozen' \in [Accounts -> SUBSET Keys]
  BY <1>2, ReceivedTypes, SameTokens DEF Deliver, IInv, TypeOK
<1>4. QED
  BY <1>1, <1>2, <1>3, SaveKeepsRest

LEMMA SendBackKeepsRest ==
  ASSUME IInv, NEW m \in inFlight, SendBack(m)
  PROVE  RestKept
<1>1. /\ meta' = [meta EXCEPT ![ShardOf[m.to]][m.nonce] = MetadataSaved(m)]
      /\ UNCHANGED <<frozen, paused, own, latest, epoch>>
  BY Zenon DEF SendBack
<1>2. NoneForgotten /\ WriteRecord(ShardOf[m.to], m.nonce, MetadataSaved(m))
  BY <1>1, ReceivedTypes, SameTokens DEF WriteRecord
<1>3. RecordsKept /\ OwnKept
  BY <1>1, <1>2, ReceivedTypes, ShardsOfAccounts, WriteKeepsRecords, SameOwn
<1>4. QED
  BY <1>1, <1>2, <1>3 DEF RestKept, IInv, TypeOK

LEMMA WipeKeepsRest ==
  ASSUME IInv, NEW a \in Accounts, NEW n, Wipe(a, n)
  PROVE  RestKept
<1> DEFINE s == ShardOf[a]
           v == -quantity[a][n]
<1>1. n \in Nonces /\ s \in Shards /\ v \in Int
  BY ShardsOfAccounts DEF Wipe, IInv, TypeOK
<1>2. /\ frozen' \in [Accounts -> SUBSET Keys] /\ UNCHANGED <<paused, latest, epoch>>
      /\ own' = [own EXCEPT ![a][n] = 0]
  BY DEF Wipe, IInv, TypeOK
<1>3. NoneForgotten
  BY <1>2, SameTokens
<1>4. OwnKept
  <2>1. own' \in [Accounts -> [Nonces -> Nat]]
    BY <1>1, <1>2, NestedUpdate DEF IInv, TypeOK
  <2>2. \A b \in Accounts, k \in Nonces : own[b][k] = 0 => own'[b][k] = 0
    BY <1>1, <1>2 DEF IInv, TypeOK
  <2>3. QED
    BY <1>3, <2>1, <2>2 DEF OwnKept, IInv, Uncreated, NoneForgotten
<1>5. CASE UNCHANGED meta
  BY <1>2, <1>3, <1>4, <1>5, SameRecords DEF RestKept, IInv, TypeOK
<1>6. ASSUME NEW x, CanAddLiquidity(meta[s][x], v), CountsLiquidity,
             meta' = [meta EXCEPT ![s][x] = AddLiquidity(meta[s][x], v)]
      PROVE  RestKept
  <2>1. ASSUME x \in Nonces
        PROVE  AddLiquidity(meta[s][x], v) \in Records /\ latest[x] # 0
    <3>1. meta[s][x] \in Records /\ meta[s][x] # NoRecord
      BY <1>1, <1>6, <2>1 DEF IInv, TypeOK, CanAddLiquidity
    <3>2. latest[x] # 0
      BY <1>1, <2>1, <3>1 DEF IInv, Uncreated
    <3>3. QED
      BY <1>1, <1>6, <3>1, <3>2, AddLiquidityType
  <2>2. WriteRecord(s, x, AddLiquidity(meta[s][x], v))
    BY <1>2, <1>6, <2>1 DEF WriteRecord
  <2>3. RecordsKept
    BY <1>1, <1>3, <2>2, WriteKeepsRecords
  <2>4. QED
    BY <1>2, <1>3, <1>4, <2>3 DEF RestKept, IInv, TypeOK
<1>7. ASSUME NEW x, ~CountsLiquidity, meta' = [meta EXCEPT ![s][x] = AddLiquidity(meta[s][x], v)]
      PROVE  UNCHANGED meta
  <2>1. AddLiquidity(meta[s][x], v) = meta[s][x]
    BY <1>7 DEF AddLiquidity
  <2>2. QED
    BY <1>1, <1>7, <2>1 DEF IInv, TypeOK
<1>8. QED
  BY <1>5, <1>6, <1>7 DEF Wipe, WipeLiquidity

LEMMA StepKeepsRest == IInv /\ [Next]_vars => RestKept
<1> SUFFICES ASSUME IInv, [Next]_vars PROVE RestKept
  OBVIOUS
<1>1. ASSUME NEW a \in Accounts, NEW n \in Nonces, NEW v \in Amounts,
             NFTCreate(a, n, v) \/ NFTAddQuantity(a, n, v) \/ NFTBurn(a, n, v)
      PROVE  RestKept
  <2>1. v \in Int /\ -v \in Int /\ v \in Nat \ {0}
    BY NFTAssumption
  <2>2. CASE NFTAddQuantity(a, n, v)
    <3>1. quantity[a][n] # 0
      BY <2>2 DEF NFTAddQuantity, HasToken, Stopped, IInv, TypeOK
    <3>2. QED
      BY <2>1, <2>2, <3>1, HeldIsCreated, CountKeepsRest, Zenon DEF NFTAddQuantity
  <2>3. CASE NFTBurn(a, n, v)
    <3>1. quantity[a][n] # 0
      BY <2>1, <2>3 DEF NFTBurn, IInv, TypeOK
    <3>2. QED
      BY <2>1, <2>3, <3>1, HeldIsCreated, CountKeepsRest, Zenon DEF NFTBurn
  <2>4. QED
    BY <1>1, <2>2, <2>3, CreateKeepsRest
<1>2. ASSUME NEW a \in Accounts, NEW n \in Nonces, NFTAddURI(a, n) \/ NFTUpdateAttributes(a, n)
      PROVE  RestKept
  BY <1>2, NewVersionKeepsRest DEF NFTAddURI, NFTUpdateAttributes
<1>3. ASSUME NEW id \in TransferIds, NEW a \in Accounts, NEW b \in Accounts, NEW n \in Nonces,
             NEW v \in Amounts, SendToOtherShard(id, a, b, n, v)
      PROVE  RestKept
  BY <1>3, SendKeepsRest
<1>4. ASSUME NEW m \in inFlight, Deliver(m) \/ SendBack(m) PROVE RestKept
  BY <1>4, DeliverKeepsRest, SendBackKeepsRest
<1>5. ASSUME NEW target \in Freezable, Wipe(target[1], target[2]) PROVE RestKept
  BY <1>5, WipeKeepsRest, NFTAssumption
<1>6. ASSUME frozen' \in [Accounts -> SUBSET Keys], paused' \subseteq Shards,
             epoch' \in DOMAIN Schedule, UNCHANGED <<own, meta, latest>>
      PROVE  RestKept
  BY <1>6, SameRecords, SameOwn, SameTokens DEF RestKept, IInv, TypeOK
<1>7. ASSUME UNCHANGED <<frozen, paused, own, meta, latest, epoch>> PROVE RestKept
  BY <1>6, <1>7 DEF IInv, TypeOK
<1>8. ASSUME NEW a \in Accounts, NEW b \in Accounts, NEW n \in Nonces, NEW v \in Amounts,
             TransferInShard(a, b, n, v)
      PROVE  RestKept
  BY <1>8, TransferKeepsRest
<1>9. ASSUME Activate PROVE RestKept
  BY <1>6, <1>9 DEF Activate, IInv, TypeOK
<1>10. ASSUME NEW target \in Freezable, NEW freeze \in BOOLEAN,
              ToggleFreeze(target[1], target[2], freeze)
       PROVE  RestKept
  <2>1. target[1] \in Accounts /\ target[2] \in Keys
    BY NFTAssumption
  <2>2. frozen' \in [Accounts -> SUBSET Keys]
    BY <1>10, <2>1 DEF ToggleFreeze, IInv, TypeOK
  <2>3. QED
    BY <1>6, <1>10, <2>2 DEF ToggleFreeze, IInv, TypeOK
<1>11. ASSUME NEW a, WipeCollection(a) PROVE RestKept
  BY <1>6, <1>11 DEF WipeCollection, IInv, TypeOK
<1>12. ASSUME NEW s \in Shards, TogglePause(s) PROVE RestKept
  BY <1>6, <1>12 DEF TogglePause, IInv, TypeOK
<1>13. ASSUME NEW s \in Shards, NEW n \in Deletable,
              DeleteMetadata(s, n) \/ \E v \in 1..latest[n] : AddMetadata(s, n, v)
       PROVE  RestKept
  <2>1. /\ n \in Nonces /\ latest \in [Nonces -> Nat]
        /\ UNCHANGED <<frozen, paused, own, latest, epoch>>
    BY <1>13, NFTAssumption DEF DeleteMetadata, AddMetadata, IInv, TypeOK
  <2>2. PICK r : WriteRecord(s, n, r)
    <3>1. CASE DeleteMetadata(s, n)
      BY <3>1, NoRecordType DEF DeleteMetadata, WriteRecord
    <3>2. ASSUME NEW v \in 1..latest[n], AddMetadata(s, n, v)
          PROVE  WriteRecord(s, n, [NoRecord EXCEPT !.version = v])
      <4>1. v \in Nat /\ latest[n] # 0
        BY <2>1
      <4>2. [NoRecord EXCEPT !.version = v] \in Records
        BY <4>1, NoRecordType DEF Records
      <4>3. QED
        BY <2>1, <3>2, <4>1, <4>2 DEF AddMetadata, WriteRecord
    <3>3. QED
      BY <1>13, <3>1, <3>2
  <2>3. RecordsKept /\ OwnKept /\ NoneForgotten
    BY <2>1, <2>2, WriteKeepsRecords, SameOwn, SameTokens
  <2>4. QED
    BY <2>1, <2>3 DEF RestKept, IInv, TypeOK
<1>14. CASE UNCHANGED vars
  BY <1>7, <1>14 DEF vars
<1>15. QED
  BY <1>1, <1>2, <1>3, <1>4, <1>5, <1>8, <1>9, <1>10, <1>11, <1>12, <1>13, <1>14 DEF Next

LEMMA StepIInv == IInv /\ [Next]_vars => IInv'
<1> SUFFICES ASSUME IInv, [Next]_vars PROVE IInv'
  OBVIOUS
<1>1. Effect /\ RestKept
  BY StepEffect, StepKeepsRest
<1>2. TypeOK' /\ UniqueTransfers'
  BY <1>1, EffectTypes DEF RestKept, RecordsKept, OwnKept, TypeOK
<1>3. Uncreated'
  BY <1>1, EffectUncreated DEF RestKept, RecordsKept, OwnKept, NoneForgotten, Uncreated
<1>4. QED
  BY <1>2, <1>3 DEF IInv

\* No quantity and no liquidity ever falls below zero, no transfer is in flight
\* twice, and of a token that was not created there is nothing anywhere.
THEOREM TypeCorrect == Spec => [](TypeOK /\ UniqueTransfers /\ Uncreated)
<1>1. IInv <=> TypeOK /\ UniqueTransfers /\ Uncreated
  BY DEF IInv
<1>2. QED
  BY <1>1, InitIInv, StepIInv, PTL DEF Spec

-----------------------------------------------------------------------------
(* Stopped accounts                                                        *)

LEMMA StepStopped ==
  ASSUME IInv, Effect, NEW a \in Accounts, NEW n \in Nonces,
         latest[n] > 0, Stopped(a, n, FALSE), quantity'[a][n] # quantity[a][n]
  PROVE  \/ n \in frozen[a] \ frozen'[a] /\ quantity'[a][n] = 0
         \/ \E m \in inFlight \ inFlight' :
              m.ret /\ m.to = a /\ m.nonce = n /\ quantity'[a][n] = quantity[a][n] + m.val
<1>t. quantity \in [Accounts -> [Nonces -> Nat]] /\ inFlight \subseteq Transfers
  BY DEF IInv, TypeOK
<1>f. ~Free(a, n)
  <2>1. latest[n] # 0
    BY DEF IInv, TypeOK
  <2>2. QED
    BY <2>1 DEF Free
<1>1. ASSUME NEW b \in Accounts, NEW k \in Nonces, NEW v \in Amounts, Gain(b, k, v)
      PROVE  FALSE
  <2>1. a = b /\ n = k
    BY <1>t, <1>1 DEF Gain
  <2>2. QED
    BY <1>f, <1>1, <2>1 DEF Gain
<1>2. ASSUME NEW b \in Accounts, NEW k \in Nonces, NEW v \in Nat, Loss(b, k, v)
      PROVE  n \in frozen[a] \ frozen'[a] /\ quantity'[a][n] = 0
  <2>1. a = b /\ n = k
    BY <1>t, <1>2 DEF Loss
  <2>2. Wiped(a, n) /\ v = quantity[a][n]
    BY <1>f, <1>2, <2>1 DEF Loss
  <2>3. quantity'[a][n] = quantity[a][n] - quantity[a][n]
    BY <1>t, <1>2, <2>1, <2>2 DEF Loss
  <2>4. QED
    BY <1>t, <2>2, <2>3 DEF Wiped
<1>3. ASSUME NEW b \in Accounts, NEW c \in Accounts, NEW k \in Nonces, NEW v \in Amounts,
             Shift(b, c, k, v)
      PROVE  FALSE
  <2>1. n = k /\ (a = b \/ a = c)
    BY <1>t, <1>3 DEF Shift
  <2>2. QED
    BY <1>f, <1>3, <2>1 DEF Shift
<1>4. ASSUME NEW m \in Transfers, Leave(m) PROVE FALSE
  <2>1. a = m.from /\ n = m.nonce
    BY <1>t, <1>4, TransferFields DEF Leave
  <2>2. QED
    BY <1>f, <1>4, <2>1 DEF Leave
<1>5. ASSUME NEW m \in inFlight, Arrive(m)
      PROVE  /\ m \in inFlight \ inFlight' /\ m.ret /\ m.to = a /\ m.nonce = n
             /\ quantity'[a][n] = quantity[a][n] + m.val
  <2>1. a = m.to /\ n = m.nonce
    BY <1>t, <1>5, TransferFields DEF Arrive
  <2>2. m.ret
    BY <1>f, <1>5, <2>1 DEF Arrive
  <2>3. QED
    BY <1>t, <1>5, <2>1, <2>2 DEF Arrive
<1>6. QED
  BY <1>1, <1>2, <1>3, <1>4, <1>5 DEF Effect, Return

\* Whoever is frozen, for a token or for the collection, or lives in a shard where the
\* collection is paused, keeps the tokens, up to a wipe and its own returned transfers.
THEOREM StoppedTokens == Spec => StoppedTokensStay
<1> DEFINE Stays ==
      \A a \in Accounts, n \in Nonces :
        /\ latest[n] > 0
        /\ \/ n \in frozen[a]
           \/ ShardOf[a] \in paused
           \/ "CheckFrozenCollection" \in Flags /\ 0 \in frozen[a]
        /\ quantity'[a][n] # quantity[a][n]
        => \/ n \in frozen[a] \ frozen'[a] /\ quantity'[a][n] = 0
           \/ \E m \in inFlight \ inFlight' :
                m.ret /\ m.to = a /\ m.nonce = n /\ quantity'[a][n] = quantity[a][n] + m.val
<1>1. IInv /\ [Next]_vars => [Stays]_vars
  BY StepEffect, StepStopped DEF Stopped, CollectionStopped
<1>2. QED
  BY <1>1, InitIInv, StepIInv, PTL DEF Spec, StoppedTokensStay

-----------------------------------------------------------------------------
(* NFTLedger implements TokenEscrow, for every token                       *)

\* The refinement mapping of Escrow(n), of the quantities q and the messages S.
Holding(q, n) == [a \in Accounts |-> q[a][n]]
Pending(S, n) == {OriginOf(m) : m \in {x \in S : x.nonce = n}}

LEMMA OriginFields ==
  ASSUME NEW m \in Transfers
  PROVE  /\ OriginOf(m).id = m.id /\ OriginOf(m).val = m.val
         /\ OriginOf(m).from = IF m.ret THEN m.to ELSE m.from
         /\ OriginOf(m).to = IF m.ret THEN m.from ELSE m.to
  BY DEF OriginOf

LEMMA OriginIsTransfer ==
  ASSUME NEW m \in Transfers, NEW n
  PROVE  OriginOf(m) \in Escrow(n)!Transfers
  BY TransferFields DEF OriginOf, Escrow!Transfers

LEMMA OriginOfAnswer ==
  ASSUME NEW m \in Transfers, ~m.ret
  PROVE  OriginOf(Answer(m)) = OriginOf(m)
  BY AnswerIsTransfer DEF OriginOf

LEMMA LeavingReserves ==
  ASSUME IInv, NEW m \in Transfers, ~m.ret, Unused(m.id), inFlight' = inFlight \cup {m}
  PROVE  /\ Escrow(m.nonce)!Fresh(OriginOf(m))
         /\ Pending(inFlight', m.nonce) = Pending(inFlight, m.nonce) \cup {OriginOf(m)}
         /\ \A n \in Nonces \ {m.nonce} : Pending(inFlight', n) = Pending(inFlight, n)
<1>1. \A k \in inFlight : OriginOf(k).id = k.id
  BY OriginFields DEF IInv, TypeOK
<1>2. Escrow(m.nonce)!Fresh(OriginOf(m))
  BY <1>1, OriginFields DEF Escrow!Fresh, Unused
<1>3. QED
  BY <1>2 DEF Pending

LEMMA ArrivalSettles ==
  ASSUME IInv, NEW m \in inFlight, inFlight' = inFlight \ {m}
  PROVE  /\ Pending(inFlight', m.nonce) = Pending(inFlight, m.nonce) \ {OriginOf(m)}
         /\ \A n \in Nonces \ {m.nonce} : Pending(inFlight', n) = Pending(inFlight, n)
<1>1. \A k \in inFlight : OriginOf(k) = OriginOf(m) => k = m
  BY OriginFields DEF IInv, TypeOK, UniqueTransfers
<1>2. QED
  BY <1>1 DEF Pending

LEMMA AnswerStutters ==
  ASSUME IInv, NEW m \in inFlight, ~m.ret, inFlight' = (inFlight \ {m}) \cup {Answer(m)}
  PROVE  \A n \in Nonces : Pending(inFlight', n) = Pending(inFlight, n)
<1>1. OriginOf(Answer(m)) = OriginOf(m) /\ Answer(m).nonce = m.nonce
  BY OriginOfAnswer, AnswerIsTransfer DEF IInv, TypeOK
<1>2. QED
  BY <1>1 DEF Pending

LEMMA StepEscrow ==
  ASSUME IInv, Effect, NEW n \in Nonces
  PROVE  [Escrow(n)!Next]_(Escrow(n)!vars)
<1>t. /\ quantity \in [Accounts -> [Nonces -> Nat]] /\ inFlight \subseteq Transfers
      /\ supply \in [Nonces -> Int]
  BY DEF IInv, TypeOK
<1>p. /\ [a \in Accounts |-> quantity[a][n]] = Holding(quantity, n)
      /\ [a \in Accounts |-> quantity'[a][n]] = Holding(quantity', n)
      /\ {OriginOf(m) : m \in {x \in inFlight : x.nonce = n}} = Pending(inFlight, n)
      /\ {OriginOf(m) : m \in {x \in inFlight' : x.nonce = n}} = Pending(inFlight', n)
  BY DEF Holding, Pending
<1>s. ASSUME Holding(quantity', n) = Holding(quantity, n), supply'[n] = supply[n],
             Pending(inFlight', n) = Pending(inFlight, n)
      PROVE  UNCHANGED Escrow(n)!vars
  BY <1>p, <1>s DEF Escrow!vars
<1>1. ASSUME NEW a \in Accounts, NEW k \in Nonces, NEW v \in Amounts, Gain(a, k, v)
      PROVE  [Escrow(n)!Next]_(Escrow(n)!vars)
  <2>1. CASE k = n
    <3>1. Escrow(n)!Create(a, v)
      BY <1>t, <1>1, <1>p, <2>1 DEF Gain, Holding, Escrow!Create
    <3>2. QED
      BY <3>1 DEF Escrow!Next
  <2>2. CASE k # n
    <3>1. Holding(quantity', n) = Holding(quantity, n) /\ supply'[n] = supply[n]
      BY <1>t, <1>1, <2>2 DEF Gain, Holding
    <3>2. QED
      BY <1>1, <1>s, <3>1 DEF Gain
  <2>3. QED
    BY <2>1, <2>2
<1>2. ASSUME NEW a \in Accounts, NEW k \in Nonces, NEW v \in Nat, Loss(a, k, v)
      PROVE  [Escrow(n)!Next]_(Escrow(n)!vars)
  <2>1. CASE k = n
    <3>1. Escrow(n)!Destroy(a, v)
      BY <1>t, <1>2, <1>p, <2>1 DEF Loss, Holding, Escrow!Destroy
    <3>2. v \in 0..Holding(quantity, n)[a]
      BY <1>t, <1>2, <2>1 DEF Loss, Holding
    <3>3. QED
      BY <1>p, <3>1, <3>2 DEF Escrow!Next
  <2>2. CASE k # n
    <3>1. Holding(quantity', n) = Holding(quantity, n) /\ supply'[n] = supply[n]
      BY <1>t, <1>2, <2>2 DEF Loss, Holding
    <3>2. QED
      BY <1>2, <1>s, <3>1 DEF Loss
  <2>3. QED
    BY <2>1, <2>2
<1>3. ASSUME NEW a \in Accounts, NEW b \in Accounts, NEW k \in Nonces, NEW v \in Amounts,
             Shift(a, b, k, v)
      PROVE  [Escrow(n)!Next]_(Escrow(n)!vars)
  <2>1. CASE k = n
    <3>1. Escrow(n)!Move(a, b, v)
      BY <1>t, <1>3, <1>p, <2>1 DEF Shift, Holding, Escrow!Move
    <3>2. QED
      BY <3>1 DEF Escrow!Next
  <2>2. CASE k # n
    <3>1. Holding(quantity', n) = Holding(quantity, n)
      BY <1>t, <1>3, <2>2 DEF Shift, Holding
    <3>2. QED
      BY <1>3, <1>s, <3>1 DEF Shift
  <2>3. QED
    BY <2>1, <2>2
<1>4. ASSUME NEW m \in Transfers, Leave(m)
      PROVE  [Escrow(n)!Next]_(Escrow(n)!vars)
  <2>1. m.from \in Accounts /\ m.nonce \in Nonces
    BY TransferFields
  <2>2. ~m.ret /\ Unused(m.id) /\ inFlight' = inFlight \cup {m} /\ supply' = supply
    BY <1>4 DEF Leave
  <2>3. /\ Escrow(m.nonce)!Fresh(OriginOf(m))
        /\ Pending(inFlight', m.nonce) = Pending(inFlight, m.nonce) \cup {OriginOf(m)}
        /\ \A k \in Nonces \ {m.nonce} : Pending(inFlight', k) = Pending(inFlight, k)
    BY <2>2, LeavingReserves
  <2>4. CASE m.nonce = n
    <3>1. OriginOf(m).from = m.from /\ OriginOf(m).val = m.val
      BY <2>2, OriginFields
    <3>2. Escrow(n)!Reserve(OriginOf(m))
      BY <1>t, <1>4, <1>p, <2>1, <2>2, <2>3, <2>4, <3>1 DEF Leave, Holding, Escrow!Reserve
    <3>3. OriginOf(m) \in Escrow(n)!Transfers
      BY OriginIsTransfer
    <3>4. QED
      BY <3>2, <3>3 DEF Escrow!Next
  <2>5. CASE m.nonce # n
    <3>1. Holding(quantity', n) = Holding(quantity, n)
      BY <1>t, <1>4, <2>1, <2>5 DEF Leave, Holding
    <3>2. QED
      BY <1>s, <2>2, <2>3, <2>5, <3>1
  <2>6. QED
    BY <2>4, <2>5
<1>5. ASSUME NEW m \in inFlight, Arrive(m)
      PROVE  [Escrow(n)!Next]_(Escrow(n)!vars)
  <2>1. m \in Transfers /\ m.to \in Accounts /\ m.nonce \in Nonces
    BY <1>t, TransferFields
  <2>2. inFlight' = inFlight \ {m} /\ supply' = supply
    BY <1>5 DEF Arrive
  <2>3. /\ Pending(inFlight', m.nonce) = Pending(inFlight, m.nonce) \ {OriginOf(m)}
        /\ \A k \in Nonces \ {m.nonce} : Pending(inFlight', k) = Pending(inFlight, k)
    BY <2>2, ArrivalSettles
  <2>4. CASE m.nonce = n
    <3>1. OriginOf(m) \in Pending(inFlight, n) /\ OriginOf(m).val = m.val
      BY <2>1, <2>4, OriginFields DEF Pending
    <3>2. Holding(quantity', n) = [Holding(quantity, n) EXCEPT ![m.to] = @ + m.val]
      BY <1>t, <1>5, <2>1, <2>4 DEF Arrive, Holding
    <3>3. CASE m.ret
      <4>1. OriginOf(m).from = m.to
        BY <2>1, <3>3, OriginFields
      <4>2. Escrow(n)!Cancel(OriginOf(m))
        BY <1>p, <2>2, <2>3, <2>4, <3>1, <3>2, <4>1 DEF Escrow!Cancel
      <4>3. QED
        BY <1>p, <3>1, <4>2 DEF Escrow!Next
    <3>4. CASE ~m.ret
      <4>1. OriginOf(m).to = m.to
        BY <2>1, <3>4, OriginFields
      <4>2. Escrow(n)!Commit(OriginOf(m))
        BY <1>p, <2>2, <2>3, <2>4, <3>1, <3>2, <4>1 DEF Escrow!Commit
      <4>3. QED
        BY <1>p, <3>1, <4>2 DEF Escrow!Next
    <3>5. QED
      BY <3>3, <3>4
  <2>5. CASE m.nonce # n
    <3>1. Holding(quantity', n) = Holding(quantity, n)
      BY <1>t, <1>5, <2>1, <2>5 DEF Arrive, Holding
    <3>2. QED
      BY <1>s, <2>2, <2>3, <2>5, <3>1
  <2>6. QED
    BY <2>4, <2>5
<1>6. ASSUME NEW m \in inFlight, Return(m)
      PROVE  UNCHANGED Escrow(n)!vars
  <2>1. Pending(inFlight', n) = Pending(inFlight, n)
    BY <1>6, AnswerStutters DEF Return
  <2>2. QED
    BY <1>6, <1>s, <2>1 DEF Return
<1>7. CASE UNCHANGED <<quantity, inFlight, supply>>
  BY <1>7, <1>s
<1>8. QED
  BY <1>1, <1>2, <1>3, <1>4, <1>5, <1>6, <1>7 DEF Effect

\* Every token of the collection behaves as one of TokenEscrow: a transfer between shards
\* is settled at most once, to its destination or back to its sender, for the amount
\* that was taken from the sender.
THEOREM EveryTokenImplementsEscrow == Spec => ImplementsEscrow
<1>1. Init => \A n \in Nonces : Escrow(n)!Init
  <2> SUFFICES ASSUME Init, NEW n \in Nonces PROVE Escrow(n)!Init
    OBVIOUS
  <2>1. QED
    BY DEF Init, Escrow!Init
<1>2. IInv /\ [Next]_vars => \A n \in Nonces : [Escrow(n)!Next]_(Escrow(n)!vars)
  BY StepEffect, StepEscrow
<1>3. IInv /\ [Next]_vars => [\A n \in Nonces : [Escrow(n)!Next]_(Escrow(n)!vars)]_vars
  BY <1>2
<1>4. QED
  BY <1>1, <1>3, InitIInv, StepIInv, PTL DEF Spec, ImplementsEscrow

-----------------------------------------------------------------------------
(* The liquidity of the records                                            *)

\* What the three theorems below are about: metadata are with the shards and their
\* records count liquidity in every epoch, a wipe decreases it, and no byte of a nonce
\* is the '-' at which the argument of a wipe is split.
CountingEpochs ==
  \A e \in DOMAIN Schedule :
    {"SaveToSystemAccount", "SendAlways", "WipeSingleNFTLiquidityDecrease"} \subseteq Schedule[e]
PlainNonces == \A n \in Nonces, k \in 0..MaxByte : (n \div 256^k) % 256 # 45

\* A record with the quantity h held in its shard.
Covered(r, h) == r.tracked => r.liquidity \in 1..h
Exact(r, h) == (r.tracked => r.liquidity = h) /\ (h > 0 => r # NoRecord)

\* Nothing is kept by an account, and every record tells its shard's liquidity.
LInv ==
  /\ \A a \in Accounts, n \in Nonces : own[a][n] = 0
  /\ \A s \in Shards, n \in Nonces :
       /\ Covered(meta[s][n], HeldIn(s, n))
       /\ n \notin Deletable => Exact(meta[s][n], HeldIn(s, n))

\* R is the record r made ready for a change of its liquidity by v: as it was but for
\* the metadata, or new, or one that no longer counts.
Ready(R, r, v) ==
  /\ R \in Records
  /\ \/ /\ R.tracked = r.tracked /\ R.liquidity = r.liquidity
        /\ R = NoRecord <=> r = NoRecord
     \/ r = NoRecord /\ R.tracked /\ R.liquidity = 0 /\ v >= 1
     \/ ~R.tracked /\ R # NoRecord

LEMMA Epochs ==
  ASSUME IInv, CountingEpochs
  PROVE  InSystemAccount /\ CountsLiquidity /\ ~SentOnce /\ "WipeSingleNFTLiquidityDecrease" \in Flags
  BY DEF IInv, TypeOK, CountingEpochs, InSystemAccount, CountsLiquidity, SentOnce, Flags

LEMMA NonceWiped ==
  ASSUME PlainNonces, NEW n \in Nonces
  PROVE  WipedNonce(n) = n /\ n # 0
<1>1. {k \in 0..MaxByte : (n \div 256^k) % 256 = 45} = {}
  BY DEF PlainNonces
<1>2. n # 0
  BY NFTAssumption
<1>3. QED
  BY <1>1, <1>2, Zenon DEF WipedNonce

LEMMA AddTells ==
  ASSUME CountsLiquidity, NEW r \in Records, NEW R, NEW v \in Int, NEW h \in Nat, h + v \in Nat,
         Covered(r, h), Ready(R, r, v), CanAddLiquidity(R, v)
  PROVE  /\ AddLiquidity(R, v) \in Records
         /\ Covered(AddLiquidity(R, v), h + v)
         /\ Exact(r, h) => Exact(AddLiquidity(R, v), h + v)
<1>t. /\ r.tracked \in BOOLEAN /\ r.liquidity \in Nat /\ R \in Records
      /\ R.tracked \in BOOLEAN /\ R.liquidity \in Nat
  BY DEF Records, Ready
<1>1. AddLiquidity(R, v) \in Records
  BY <1>t, AddLiquidityType
<1>2. R # NoRecord
  BY DEF CanAddLiquidity
<1>n. NoRecord.tracked = FALSE /\ NoRecord.liquidity = 0
  BY DEF NoRecord
<1>3. CASE ~R.tracked
  <2>1. AddLiquidity(R, v) = R
    BY <1>3 DEF AddLiquidity
  <2>2. QED
    BY <1>1, <1>2, <1>3, <2>1 DEF Covered, Exact
<1>4. CASE R.tracked
  <2>1. R.liquidity + v >= 0 \/ Uncounted(R, v)
    BY <1>4 DEF CanAddLiquidity
  <2>r. \/ r.tracked /\ R.liquidity = r.liquidity
        \/ r = NoRecord /\ R.liquidity = 0 /\ v >= 1
    BY <1>4 DEF Ready
  <2>h. R.liquidity <= h /\ (R.liquidity >= 1 \/ v >= 1) /\ (Exact(r, h) => R.liquidity = h)
    <3>1. CASE r.tracked /\ R.liquidity = r.liquidity
      <4>1. r.liquidity \in 1..h /\ (Exact(r, h) => r.liquidity = h)
        BY <3>1 DEF Covered, Exact
      <4>2. QED
        BY <3>1, <4>1
    <3>2. CASE r = NoRecord /\ R.liquidity = 0 /\ v >= 1
      BY <3>2 DEF Exact
    <3>3. QED
      BY <2>r, <3>1, <3>2
  <2> DEFINE l == R.liquidity
  <2>l. l \in Nat /\ l <= h /\ (l >= 1 \/ v >= 1)
    BY <1>t, <2>h
  <2>2. ~Uncounted(R, v)
    <3>1. ~(l = 0 /\ v < 0)
      <4> HIDE DEF l
      <4> QED
        BY <2>l
    <3>2. QED
      BY <3>1 DEF Uncounted
  <2>3. l + v \in Nat /\ l + v <= h + v
    <3>1. l + v >= 0
      BY <2>1, <2>2
    <3> HIDE DEF l
    <3> QED
      BY <2>l, <3>1
  <2>4. Exact(r, h) => R.liquidity + v = h + v
    BY <2>h
  <2>5. CASE R.liquidity + v = 0
    <3>1. AddLiquidity(R, v) = NoRecord
      BY <1>4, <2>2, <2>5 DEF AddLiquidity
    <3>2. QED
      BY <1>1, <1>n, <2>4, <2>5, <3>1 DEF Covered, Exact
  <2>6. CASE R.liquidity + v # 0
    <3>1. AddLiquidity(R, v) = [R EXCEPT !.liquidity = R.liquidity + v]
      BY <1>4, <2>2, <2>6, Zenon DEF AddLiquidity
    <3>2. AddLiquidity(R, v).liquidity = R.liquidity + v /\ AddLiquidity(R, v).tracked
      BY <1>t, <1>4, <3>1 DEF Records
    <3>3. AddLiquidity(R, v) # NoRecord
      BY <1>n, <3>2
    <3> HIDE DEF AddLiquidity
    <3>4. QED
      BY <1>1, <2>3, <2>4, <2>6, <3>2, <3>3 DEF Covered, Exact
  <2>7. QED
    BY <2>5, <2>6
<1>5. QED
  BY <1>t, <1>3, <1>4

\* What account a has of token n changes by v, and nothing else that is held.
LEMMA HeldChanges ==
  ASSUME TypeOK, quantity' \in [Accounts -> [Nonces -> Nat]], NEW a \in Accounts, NEW n \in Nonces,
         \A b \in Accounts, k \in Nonces :
           ~(b = a /\ k = n) => quantity'[b][k] = quantity[b][k]
  PROVE  /\ HeldIn(ShardOf[a], n)' = HeldIn(ShardOf[a], n) - quantity[a][n] + quantity'[a][n]
         /\ \A s \in Shards, k \in Nonces :
              ~(s = ShardOf[a] /\ k = n) => HeldIn(s, k)' = HeldIn(s, k)
<1>t. quantity \in [Accounts -> [Nonces -> Nat]]
  BY DEF TypeOK
<1>f. \A s : IsFiniteSet(LocalHolders(s)) /\ LocalHolders(s) \subseteq Accounts
  BY NFTAssumption, FS_Subset DEF LocalHolders
<1>1. ASSUME NEW s \in Shards, NEW k \in Nonces, ~(s = ShardOf[a] /\ k = n)
      PROVE  HeldIn(s, k)' = HeldIn(s, k)
  <2> DEFINE f == [b \in Accounts |-> quantity[b][k]]
             g == [b \in Accounts |-> quantity'[b][k]]
  <2>1. \A b \in LocalHolders(s) : f[b] = g[b]
    BY <1>1 DEF LocalHolders
  <2>2. SumFunctionOnSet(f, LocalHolders(s)) = SumFunctionOnSet(g, LocalHolders(s))
    <3> HIDE DEF f, g
    <3>1. QED
      BY <1>f, <2>1, SumAgrees
  <2>3. QED
    BY <2>2 DEF HeldIn, LocalHolders
<1>2. HeldIn(ShardOf[a], n)' = HeldIn(ShardOf[a], n) - quantity[a][n] + quantity'[a][n]
  <2> DEFINE f == [b \in Accounts |-> quantity[b][n]]
             g == [b \in Accounts |-> quantity'[b][n]]
             S == LocalHolders(ShardOf[a])
  <2>1. a \in S /\ IsFiniteSet(S) /\ S \subseteq Accounts
    BY <1>f DEF LocalHolders
  <2>2. /\ \A b \in S : f[b] \in Int
        /\ \A b \in S : g[b] \in Int
        /\ \A b \in S \ {a} : g[b] = f[b]
        /\ f[a] = quantity[a][n] /\ g[a] = quantity'[a][n]
    BY <1>t, <2>1
  <2>3. SumFunctionOnSet(g, S) = SumFunctionOnSet(f, S) - f[a] + g[a]
    <3> HIDE DEF f, g, S
    <3>1. QED
      BY <2>1, <2>2, SumChange
  <2>4. QED
    BY <2>2, <2>3 DEF HeldIn, LocalHolders
<1>3. QED
  BY <1>1, <1>2

LEMMA HeldType ==
  ASSUME TypeOK, NEW s \in Shards, NEW n \in Nonces
  PROVE  HeldIn(s, n) \in Nat /\ \A a \in LocalHolders(s) : quantity[a][n] <= HeldIn(s, n)
<1> DEFINE f == [b \in Accounts |-> quantity[b][n]]
<1>1. IsFiniteSet(LocalHolders(s)) /\ LocalHolders(s) \subseteq Accounts
  BY NFTAssumption, FS_Subset DEF LocalHolders
<1>2. \A b \in LocalHolders(s) : f[b] \in Nat /\ f[b] = quantity[b][n]
  BY <1>1 DEF TypeOK
<1>3. /\ SumFunctionOnSet(f, LocalHolders(s)) \in Nat
      /\ \A a \in LocalHolders(s) : SumFunctionOnSet(f, LocalHolders(s)) >= f[a]
  <2> HIDE DEF f
  <2>1. QED
    BY <1>1, <1>2, SumNat, SumAtLeast
<1>4. QED
  BY <1>2, <1>3 DEF HeldIn

\* A step that changes one quantity, with the record that it prepares.
Counted(a, n, R, v) ==
  /\ Ready(R, meta[ShardOf[a]][n], v) /\ CanAddLiquidity(R, v)
  /\ meta' = [meta EXCEPT ![ShardOf[a]][n] = AddLiquidity(R, v)]
  /\ quantity' = [quantity EXCEPT ![a][n] = quantity[a][n] + v]

LEMMA CountedKeeps ==
  ASSUME IInv, LInv, TypeOK', CountingEpochs, NEW a \in Accounts, NEW n \in Nonces,
         NEW v \in Int, NEW R, Counted(a, n, R, v),
         \A b \in Accounts, k \in Nonces : own'[b][k] = 0
  PROVE  LInv'
<1>t. /\ quantity \in [Accounts -> [Nonces -> Nat]] /\ quantity' \in [Accounts -> [Nonces -> Nat]]
      /\ meta \in [Shards -> [Nonces -> Records]] /\ TypeOK /\ ShardOf[a] \in Shards
  BY NFTAssumption DEF IInv, TypeOK
<1>1. /\ quantity'[a][n] = quantity[a][n] + v
      /\ \A b \in Accounts, k \in Nonces :
           ~(b = a /\ k = n) => quantity'[b][k] = quantity[b][k]
  BY <1>t DEF Counted
<1>2. /\ HeldIn(ShardOf[a], n)' = HeldIn(ShardOf[a], n) - quantity[a][n] + quantity'[a][n]
      /\ \A s \in Shards, k \in Nonces :
           ~(s = ShardOf[a] /\ k = n) => HeldIn(s, k)' = HeldIn(s, k)
  BY <1>t, <1>1, HeldChanges
<1>3. HeldIn(ShardOf[a], n) \in Nat /\ quantity[a][n] <= HeldIn(ShardOf[a], n)
  BY <1>t, HeldType DEF LocalHolders
<1>4. /\ HeldIn(ShardOf[a], n)' = HeldIn(ShardOf[a], n) + v
      /\ HeldIn(ShardOf[a], n) + v \in Nat
  BY <1>t, <1>1, <1>2, <1>3
<1>5. /\ meta'[ShardOf[a]][n] = AddLiquidity(R, v)
      /\ \A s \in Shards, k \in Nonces :
           ~(s = ShardOf[a] /\ k = n) => meta'[s][k] = meta[s][k]
  BY <1>t DEF Counted
<1>6. /\ Covered(meta'[ShardOf[a]][n], HeldIn(ShardOf[a], n)')
      /\ n \notin Deletable => Exact(meta'[ShardOf[a]][n], HeldIn(ShardOf[a], n)')
  <2>1. CountsLiquidity
    BY Epochs
  <2>2. /\ meta[ShardOf[a]][n] \in Records
        /\ Covered(meta[ShardOf[a]][n], HeldIn(ShardOf[a], n))
        /\ n \notin Deletable => Exact(meta[ShardOf[a]][n], HeldIn(ShardOf[a], n))
        /\ Ready(R, meta[ShardOf[a]][n], v) /\ CanAddLiquidity(R, v)
    BY <1>t DEF LInv, Counted
  <2>3. QED
    BY <1>3, <1>4, <1>5, <2>1, <2>2, AddTells
<1>7. ASSUME NEW s \in Shards, NEW k \in Nonces
      PROVE  /\ Covered(meta'[s][k], HeldIn(s, k)')
             /\ k \notin Deletable => Exact(meta'[s][k], HeldIn(s, k)')
  <2>1. CASE s = ShardOf[a] /\ k = n
    BY <1>6, <2>1
  <2>2. CASE ~(s = ShardOf[a] /\ k = n)
    BY <1>2, <1>5, <2>2 DEF LInv
  <2>3. QED
    BY <2>1, <2>2
<1>8. QED
  BY <1>7 DEF LInv

LEMMA ReadyForms ==
  ASSUME NEW r \in Records, NEW R \in Records, NEW v,
         \/ R = r
         \/ R.tracked = r.tracked /\ R.liquidity = r.liquidity /\ R # NoRecord /\ r # NoRecord
         \/ r = NoRecord /\ R.tracked /\ R.liquidity = 0 /\ v >= 1
         \/ R.tracked = FALSE /\ R # NoRecord
  PROVE  Ready(R, r, v)
  BY DEF Ready

LEMMA StoreReady ==
  ASSUME InSystemAccount, CountsLiquidity, ~SentOnce, NEW r \in Records, NEW version \in Nat,
         NEW all \in BOOLEAN, NEW here \in SUBSET Shards, NEW v \in Int,
         r # NoRecord \/ version = 0 \/ v >= 1
  PROVE  Ready(StoreMetadata(r, version, all, FALSE, here), r, v)
<1> DEFINE R == StoreMetadata(r, version, all, FALSE, here)
<1>n. NoRecord.version = 0
  BY DEF NoRecord
<1>1. R \in Records
  BY StoreMetadataType
<1>2. CASE version = 0
  <2>1. R = r
    BY <1>2 DEF StoreMetadata
  <2>2. QED
    BY <1>1, <2>1, ReadyForms
<1>3. CASE version # 0 /\ r = NoRecord
  <2>1. R.tracked /\ R.liquidity = 0
    BY <1>3 DEF StoreMetadata
  <2>2. QED
    BY <1>1, <1>3, <2>1, ReadyForms
<1>4. CASE version # 0 /\ r # NoRecord /\ all
  <2>1. R.tracked = FALSE /\ R.version = version
    BY <1>4 DEF StoreMetadata
  <2>2. QED
    BY <1>1, <1>4, <1>n, <2>1, ReadyForms
<1>5. CASE version # 0 /\ r # NoRecord /\ ~all
  <2>1. R = r \/ R = [r EXCEPT !.version = version]
    BY <1>5, Zenon DEF StoreMetadata
  <2>2. CASE R = r
    BY <1>1, <2>2, ReadyForms
  <2>3. CASE R = [r EXCEPT !.version = version]
    <3>1. R.tracked = r.tracked /\ R.liquidity = r.liquidity /\ R.version = version
      BY <2>3 DEF Records
    <3>2. QED
      BY <1>1, <1>5, <1>n, <3>1, ReadyForms
  <2>4. QED
    BY <2>1, <2>2, <2>3
<1>6. QED
  BY <1>2, <1>3, <1>4, <1>5

\* What an account saves is ready for a change of the liquidity.
LEMMA SavedReady ==
  ASSUME IInv, LInv, CountingEpochs, NEW a \in Accounts, NEW n \in Nonces, NEW version \in Nat,
         NEW all \in BOOLEAN, NEW v \in Int,
         meta[ShardOf[a]][n] # NoRecord \/ version = 0 \/ v >= 1
  PROVE  Ready(Saved(a, n, version, all), meta[ShardOf[a]][n], v)
<1>1. meta[ShardOf[a]][n] \in Records /\ {ShardOf[a]} \in SUBSET Shards
  BY ShardsOfAccounts DEF IInv, TypeOK
<1>2. own[a][n] = 0 /\ (own[a][n] # 0) = FALSE
  BY DEF LInv
<1>3. QED
  BY <1>1, <1>2, Epochs, StoreReady DEF Saved

\* An account reads the metadata of its shard, and keeps none.
LEMMA ReadsShard ==
  ASSUME IInv, LInv, CountingEpochs, NEW a \in Accounts, NEW n \in Nonces
  PROVE  /\ Version(a, n) \in Nat
         /\ meta[ShardOf[a]][n] # NoRecord \/ Version(a, n) = 0
         /\ \A w, q : OwnCopy(w, q) = 0
  BY VersionType, Epochs DEF Version, LInv, OwnCopy

LEMMA SameCopies ==
  ASSUME IInv, LInv, NEW a \in Accounts, NEW n \in Nonces, own' = [own EXCEPT ![a][n] = 0]
  PROVE  \A b \in Accounts, k \in Nonces : own'[b][k] = 0
  BY DEF IInv, TypeOK, LInv

LEMMA CreateCounts ==
  ASSUME IInv, LInv, TypeOK', CountingEpochs, NEW a \in Accounts, NEW n \in Nonces,
         NEW v \in Amounts, NFTCreate(a, n, v)
  PROVE  LInv'
<1> DEFINE R == Saved(a, n, 1, TRUE)
<1>1. v \in Int /\ v >= 1 /\ quantity[a][n] + v = v
  BY NFTAssumption DEF NFTCreate, IInv, Uncreated
<1>2. Ready(R, meta[ShardOf[a]][n], v)
  BY <1>1, SavedReady
<1>3. Counted(a, n, R, v)
  BY <1>1, <1>2, Zenon DEF NFTCreate, Counted
<1>4. \A b \in Accounts, k \in Nonces : own'[b][k] = 0
  BY ReadsShard, SameCopies DEF NFTCreate
<1>5. QED
  BY <1>1, <1>3, <1>4, CountedKeeps

LEMMA AddQuantityCounts ==
  ASSUME IInv, LInv, TypeOK', CountingEpochs, NEW a \in Accounts, NEW n \in Nonces,
         NEW v \in Amounts, NFTAddQuantity(a, n, v)
  PROVE  LInv'
<1> DEFINE R == Saved(a, n, Version(a, n), FALSE)
<1>1. v \in Int /\ v >= 1
  BY NFTAssumption
<1>2. Ready(R, meta[ShardOf[a]][n], v)
  BY <1>1, SavedReady, ReadsShard
<1>3. Counted(a, n, R, v)
  BY <1>2, Zenon DEF NFTAddQuantity, Counted
<1>4. \A b \in Accounts, k \in Nonces : own'[b][k] = 0
  BY ReadsShard, SameCopies DEF NFTAddQuantity
<1>5. QED
  BY <1>1, <1>3, <1>4, CountedKeeps

LEMMA BurnCounts ==
  ASSUME IInv, LInv, TypeOK', CountingEpochs, NEW a \in Accounts, NEW n \in Nonces,
         NEW v \in Amounts, NFTBurn(a, n, v)
  PROVE  LInv'
<1> DEFINE R == Saved(a, n, Version(a, n), FALSE)
<1>1. -v \in Int /\ quantity[a][n] - v = quantity[a][n] + (-v)
  BY NFTAssumption DEF IInv, TypeOK
<1>2. Ready(R, meta[ShardOf[a]][n], -v)
  BY <1>1, SavedReady, ReadsShard
<1>3. Counted(a, n, R, -v)
  BY <1>1, <1>2, Zenon DEF NFTBurn, Counted
<1>4. \A b \in Accounts, k \in Nonces : own'[b][k] = 0
  BY ReadsShard, SameCopies DEF NFTBurn
<1>5. QED
  BY <1>1, <1>3, <1>4, CountedKeeps

LEMMA SendCounts ==
  ASSUME IInv, LInv, TypeOK', CountingEpochs, NEW id \in TransferIds, NEW a \in Accounts,
         NEW b \in Accounts, NEW n \in Nonces, NEW v \in Amounts, SendToOtherShard(id, a, b, n, v)
  PROVE  LInv'
<1> DEFINE R == Saved(a, n, Version(a, n), FALSE)
<1>1. -v \in Int /\ quantity[a][n] - v = quantity[a][n] + (-v)
  BY NFTAssumption DEF IInv, TypeOK
<1>2. Ready(R, meta[ShardOf[a]][n], -v)
  BY <1>1, SavedReady, ReadsShard
<1>3. MarkSent(AddLiquidity(R, -v), ShardOf[b]) = AddLiquidity(R, -v)
  BY Epochs DEF MarkSent
<1>4. Counted(a, n, R, -v)
  BY <1>1, <1>2, <1>3, Zenon DEF SendToOtherShard, Counted
<1>5. \A c \in Accounts, k \in Nonces : own'[c][k] = 0
  BY ReadsShard, SameCopies DEF SendToOtherShard
<1>6. QED
  BY <1>1, <1>4, <1>5, CountedKeeps

LEMMA DeliverCounts ==
  ASSUME IInv, LInv, TypeOK', CountingEpochs, NEW m \in inFlight, Deliver(m)
  PROVE  LInv'
<1> DEFINE a == m.to  n == m.nonce  v == m.val  r == meta[ShardOf[m.to]][m.nonce]
<1>1. a \in Accounts /\ n \in Nonces /\ v \in Int /\ v >= 1 /\ m.version \in Nat /\ m.from \in Accounts
  BY TransferFields DEF IInv, TypeOK
<1>2. Ready(Received(m), r, v)
  <2>1. r \in Records /\ {ShardOf[m.from], ShardOf[a]} \in SUBSET Shards
    BY <1>1, ShardsOfAccounts DEF IInv, TypeOK
  <2>2. (own[a][n] # 0) = FALSE
    BY <1>1 DEF LInv
  <2>3. Received(m) = StoreMetadata(r, m.version, FALSE, FALSE, {ShardOf[m.from], ShardOf[a]})
    BY <2>2, Epochs DEF Received, MetadataSaved
  <2>4. QED
    BY <1>1, <2>1, <2>3, Epochs, StoreReady
<1>3. Counted(a, n, Received(m), v)
  BY <1>2, Zenon DEF Deliver, Accepted, Counted
<1>4. \A c \in Accounts, k \in Nonces : own'[c][k] = 0
  BY <1>1, ReadsShard, SameCopies DEF Deliver
<1>5. QED
  BY <1>1, <1>3, <1>4, CountedKeeps

LEMMA WipeCounts ==
  ASSUME IInv, LInv, TypeOK', CountingEpochs, PlainNonces, NEW a \in Accounts, NEW n, Wipe(a, n)
  PROVE  LInv'
<1> DEFINE q == quantity[a][n]  r == meta[ShardOf[a]][n]
<1>1. n \in Nonces /\ q \in Nat /\ -q \in Int /\ q + (-q) = 0 /\ r \in Records
  BY ShardsOfAccounts DEF Wipe, IInv, TypeOK
<1>2. /\ CanAddLiquidity(r, -q)
      /\ meta' = [meta EXCEPT ![ShardOf[a]][n] = AddLiquidity(r, -q)]
  BY <1>1, Epochs, NonceWiped, Zenon DEF Wipe, WipeLiquidity
<1>3. Ready(r, r, -q)
  BY <1>1 DEF Ready
<1>4. Counted(a, n, r, -q)
  BY <1>1, <1>2, <1>3, Zenon DEF Wipe, Counted
<1>5. \A b \in Accounts, k \in Nonces : own'[b][k] = 0
  BY <1>1, SameCopies DEF Wipe
<1>6. QED
  BY <1>1, <1>4, <1>5, CountedKeeps

LEMMA NewVersionCounts ==
  ASSUME IInv, LInv, TypeOK', CountingEpochs, NEW a \in Accounts, NEW n \in Nonces, NewVersion(a, n)
  PROVE  LInv'
<1> DEFINE v == latest[n] + 1  R == Saved(a, n, v, TRUE)  r == meta[ShardOf[a]][n]
<1>1. /\ v \in Nat /\ v # 0 /\ 0 \in Int
      /\ quantity[a][n] + 0 = quantity[a][n] /\ r \in Records
  BY ShardsOfAccounts DEF IInv, TypeOK
<1>2. r # NoRecord
  BY ReadsShard DEF NewVersion
<1>3. Ready(R, r, 0)
  BY <1>1, <1>2, SavedReady
<1>4. ~R.tracked /\ R # NoRecord
  <2>1. R.tracked = FALSE /\ R.version = v
    BY <1>1, <1>2, Epochs DEF Saved, StoreMetadata
  <2>2. NoRecord.version = 0
    BY DEF NoRecord
  <2>3. QED
    BY <1>1, <2>1, <2>2
<1>5. AddLiquidity(R, 0) = R /\ CanAddLiquidity(R, 0)
  BY <1>4 DEF AddLiquidity, CanAddLiquidity
<1>6. quantity' = [quantity EXCEPT ![a][n] = quantity[a][n] + 0]
  BY <1>1 DEF NewVersion, IInv, TypeOK
<1>7. Counted(a, n, R, 0)
  BY <1>3, <1>5, <1>6, Zenon DEF NewVersion, Counted
<1>8. \A b \in Accounts, k \in Nonces : own'[b][k] = 0
  BY ReadsShard, SameCopies DEF NewVersion
<1>9. QED
  BY <1>1, <1>7, <1>8, CountedKeeps

\* Within a shard tokens move from a to b.
LEMMA HeldMoves ==
  ASSUME TypeOK, quantity' \in [Accounts -> [Nonces -> Nat]], NEW a \in Accounts,
         NEW b \in Accounts, NEW n \in Nonces, NEW v \in Int, a # b, ShardOf[a] = ShardOf[b],
         quantity' = [quantity EXCEPT ![a][n] = quantity[a][n] - v,
                                      ![b][n] = quantity[b][n] + v]
  PROVE  \A s \in Shards, k \in Nonces : HeldIn(s, k)' = HeldIn(s, k)
<1> SUFFICES ASSUME NEW s \in Shards, NEW k \in Nonces PROVE HeldIn(s, k)' = HeldIn(s, k)
  OBVIOUS
<1> DEFINE f == [c \in Accounts |-> quantity[c][k]]
           g == [c \in Accounts |-> quantity'[c][k]]
           h == [f EXCEPT ![a] = g[a]]
           S == LocalHolders(s)
<1>t. quantity \in [Accounts -> [Nonces -> Nat]]
  BY DEF TypeOK
<1>f. IsFiniteSet(S) /\ S \subseteq Accounts /\ (a \in S <=> b \in S)
  BY NFTAssumption, FS_Subset DEF LocalHolders
<1>0. \A c \in Accounts : f[c] \in Int /\ g[c] \in Int
  BY <1>t
<1>1. /\ \A c \in S : f[c] \in Int
      /\ \A c \in S : g[c] \in Int
      /\ \A c \in S : h[c] \in Int
      /\ \A c \in S \ {a} : h[c] = f[c]
      /\ h[a] = g[a]
  <2>1. f = [c \in Accounts |-> f[c]]
    OBVIOUS
  <2> HIDE DEF f, g, S
  <2>2. QED
    BY <1>f, <1>0, <2>1
<1>2. \A c \in S : (c # a /\ c # b) \/ k # n => g[c] = f[c]
  BY <1>t, <1>f
<1>3. k = n => g[a] = f[a] - v /\ g[b] = f[b] + v
  BY <1>t
<1>4. SumFunctionOnSet(f, S) \in Int
  <2> HIDE DEF f, g, S
  <2>1. QED
    BY <1>f, <1>1, SumType
<1>5. SumFunctionOnSet(g, S) = SumFunctionOnSet(f, S)
  <2> HIDE DEF f, g, h, S
  <2>1. CASE k # n \/ a \notin S
    BY <1>f, <1>2, <2>1, SumAgrees
  <2>2. CASE k = n /\ a \in S
    <3>1. SumFunctionOnSet(h, S) = SumFunctionOnSet(f, S) - f[a] + h[a]
      BY <1>f, <1>1, <2>2, SumChange
    <3>2. \A c \in S \ {b} : g[c] = h[c]
      BY <1>1, <1>2
    <3>3. SumFunctionOnSet(g, S) = SumFunctionOnSet(h, S) - h[b] + g[b]
      BY <1>f, <1>1, <2>2, <3>2, SumChange
    <3>4. h[b] = f[b] /\ f[a] \in Int /\ f[b] \in Int
      BY <1>f, <1>1, <2>2
    <3>5. QED
      BY <1>1, <1>3, <1>4, <2>2, <3>1, <3>3, <3>4
  <2>3. QED
    BY <2>1, <2>2
<1>6. QED
  BY <1>5 DEF HeldIn, LocalHolders

\* One record is written whose shard holds as much as before.
LEMMA WriteCounts ==
  ASSUME IInv, LInv, NEW s \in Shards, NEW n \in Nonces, NEW R \in Records,
         meta' = [meta EXCEPT ![s][n] = R],
         \A q \in Shards, k \in Nonces : HeldIn(q, k)' = HeldIn(q, k),
         \A b \in Accounts, k \in Nonces : own'[b][k] = 0,
         (n \in Deletable /\ R.tracked = FALSE) \/ Ready(R, meta[s][n], 0)
  PROVE  LInv'
<1>1. meta \in [Shards -> [Nonces -> Records]] /\ \A q \in Shards, k \in Nonces : HeldIn(q, k) \in Nat
  BY HeldType DEF IInv, TypeOK
<1>2. /\ Covered(R, HeldIn(s, n))
      /\ n \notin Deletable => Exact(R, HeldIn(s, n))
  <2>1. CASE ~R.tracked
    BY <2>1 DEF LInv, Covered, Exact, Ready
  <2>2. CASE R.tracked
    <3>0. Ready(R, meta[s][n], 0) /\ ~(0 >= 1)
      BY <2>2
    <3>1. R.tracked = meta[s][n].tracked /\ R.liquidity = meta[s][n].liquidity
      BY <2>2, <3>0, Zenon DEF Ready
    <3>2. R = NoRecord <=> meta[s][n] = NoRecord
      BY <2>2, <3>0, Zenon DEF Ready
    <3>3. QED
      BY <2>2, <3>1, <3>2 DEF LInv, Covered, Exact
  <2>3. QED
    BY <2>1, <2>2
<1>3. ASSUME NEW q \in Shards, NEW k \in Nonces
      PROVE  /\ Covered(meta'[q][k], HeldIn(q, k)')
             /\ k \notin Deletable => Exact(meta'[q][k], HeldIn(q, k)')
  <2>1. CASE q = s /\ k = n
    BY <1>1, <1>2, <2>1
  <2>2. CASE ~(q = s /\ k = n)
    <3>1. meta'[q][k] = meta[q][k]
      BY <1>1, <2>2
    <3>2. QED
      BY <3>1 DEF LInv
  <2>3. QED
    BY <2>1, <2>2
<1>4. QED
  BY <1>3 DEF LInv

LEMMA TransferCounts ==
  ASSUME IInv, LInv, TypeOK', CountingEpochs, NEW a \in Accounts, NEW b \in Accounts,
         NEW n \in Nonces, NEW v \in Amounts, TransferInShard(a, b, n, v)
  PROVE  LInv'
<1> DEFINE R == Saved(a, n, Version(a, n), FALSE)
<1>1. v \in Int /\ 0 \in Int /\ quantity' \in [Accounts -> [Nonces -> Nat]] /\ TypeOK
  BY NFTAssumption DEF TypeOK, IInv
<1>2. quantity' = [quantity EXCEPT ![a][n] = quantity[a][n] - v, ![b][n] = quantity[b][n] + v]
  <2>1. quantity' = [quantity EXCEPT ![a][n] = @ - v, ![b][n] = @ + v] /\ a # b
    BY Zenon DEF TransferInShard
  <2>2. QED
    BY <1>1, <2>1
<1>3. \A s \in Shards, k \in Nonces : HeldIn(s, k)' = HeldIn(s, k)
  <2>1. a # b /\ ShardOf[a] = ShardOf[b]
    BY DEF TransferInShard
  <2>2. QED
    BY <1>1, <1>2, <2>1, HeldMoves
<1>4. Ready(R, meta[ShardOf[a]][n], 0)
  BY <1>1, SavedReady, ReadsShard
<1>5. R \in Records /\ meta' = [meta EXCEPT ![ShardOf[a]][n] = R]
  BY <1>4, Zenon DEF TransferInShard, Ready
<1>6. \A c \in Accounts, k \in Nonces : own'[c][k] = 0
  <2>1. own' = [own EXCEPT ![a][n] = 0, ![b][n] = 0]
    BY ReadsShard, Zenon DEF TransferInShard
  <2>2. QED
    BY <2>1 DEF IInv, TypeOK, LInv
<1>7. QED
  BY <1>3, <1>4, <1>5, <1>6, ShardsOfAccounts, WriteCounts

\* A step that leaves the quantities alone holds as much in every shard.
LEMMA HeldStays ==
  ASSUME UNCHANGED quantity
  PROVE  \A s \in Shards, k \in Nonces : HeldIn(s, k)' = HeldIn(s, k)
  BY DEF HeldIn, LocalHolders

LEMMA SameCounts ==
  ASSUME LInv, UNCHANGED <<quantity, own, meta>>
  PROVE  LInv'
  BY HeldStays DEF LInv

LEMMA DeleteCounts ==
  ASSUME IInv, LInv, NEW s \in Shards, NEW n \in Deletable,
         DeleteMetadata(s, n) \/ \E v \in 1..latest[n] : AddMetadata(s, n, v)
  PROVE  LInv'
<1>1. /\ n \in Nonces /\ latest[n] \in Nat /\ UNCHANGED <<quantity, own>>
  BY NFTAssumption DEF DeleteMetadata, AddMetadata, IInv, TypeOK
<1>2. \A b \in Accounts, k \in Nonces : own'[b][k] = 0
  BY <1>1 DEF LInv
<1>3. \A q \in Shards, k \in Nonces : HeldIn(q, k)' = HeldIn(q, k)
  BY <1>1, HeldStays
<1>4. CASE DeleteMetadata(s, n)
  <2>1. NoRecord.tracked = FALSE /\ meta' = [meta EXCEPT ![s][n] = NoRecord]
    BY <1>4 DEF NoRecord, DeleteMetadata
  <2>2. QED
    BY <1>1, <1>2, <1>3, <2>1, NoRecordType, WriteCounts
<1>5. ASSUME NEW v \in 1..latest[n], AddMetadata(s, n, v) PROVE LInv'
  <2> DEFINE R == [NoRecord EXCEPT !.version = v]
  <2>1. R \in Records /\ R.tracked = FALSE
    <3>1. NoRecord.tracked = FALSE /\ v \in Nat
      BY <1>1 DEF NoRecord
    <3>2. QED
      BY <3>1, NoRecordType DEF Records
  <2>2. meta' = [meta EXCEPT ![s][n] = R]
    BY <1>5 DEF AddMetadata
  <2> HIDE DEF R
  <2>3. QED
    BY <1>1, <1>2, <1>3, <2>1, <2>2, WriteCounts
<1>6. QED
  BY <1>4, <1>5

LEMMA SendBackCounts ==
  ASSUME IInv, LInv, CountingEpochs, NEW m \in inFlight, SendBack(m)
  PROVE  LInv'
<1>1. MetadataSaved(m) = meta[ShardOf[m.to]][m.nonce]
  BY Epochs DEF MetadataSaved
<1>2. UNCHANGED <<quantity, own, meta>>
  BY <1>1 DEF SendBack, IInv, TypeOK
<1>3. QED
  BY <1>2, SameCounts

LEMMA InitLInv == Init => LInv
<1> SUFFICES ASSUME Init PROVE LInv
  OBVIOUS
<1>1. NoRecord.tracked = FALSE
  BY DEF NoRecord
<1>2. ASSUME NEW s \in Shards, NEW n \in Nonces PROVE HeldIn(s, n) = 0
  <2> DEFINE f == [a \in Accounts |-> quantity[a][n]]
  <2>1. IsFiniteSet(LocalHolders(s)) /\ LocalHolders(s) \subseteq Accounts
    BY NFTAssumption, FS_Subset DEF LocalHolders
  <2>2. \A a \in LocalHolders(s) : f[a] = 0
    BY <2>1 DEF Init
  <2>3. SumFunctionOnSet(f, LocalHolders(s)) = 0
    <3> HIDE DEF f
    <3>1. QED
      BY <2>1, <2>2, SumZero
  <2>4. QED
    BY <2>3 DEF HeldIn
<1>3. \A s \in Shards, n \in Nonces : Covered(meta[s][n], HeldIn(s, n)) /\ Exact(meta[s][n], HeldIn(s, n))
  BY <1>1, <1>2 DEF Init, Covered, Exact
<1>4. QED
  BY <1>3 DEF Init, LInv

LEMMA StepLInv ==
  ASSUME CountingEpochs, PlainNonces
  PROVE  IInv /\ LInv /\ [Next]_vars => LInv'
<1> SUFFICES ASSUME IInv, LInv, [Next]_vars PROVE LInv'
  OBVIOUS
<1>0. TypeOK'
  BY StepIInv DEF IInv
<1>1. ASSUME NEW a \in Accounts, NEW n \in Nonces, NEW v \in Amounts,
             NFTCreate(a, n, v) \/ NFTAddQuantity(a, n, v) \/ NFTBurn(a, n, v)
      PROVE  LInv'
  BY <1>0, <1>1, CreateCounts, AddQuantityCounts, BurnCounts
<1>2. ASSUME NEW a \in Accounts, NEW n \in Nonces, NFTAddURI(a, n) \/ NFTUpdateAttributes(a, n)
      PROVE  LInv'
  BY <1>0, <1>2, NewVersionCounts DEF NFTAddURI, NFTUpdateAttributes
<1>3. ASSUME NEW a \in Accounts, NEW b \in Accounts, NEW n \in Nonces, NEW v \in Amounts,
             TransferInShard(a, b, n, v) \/ \E id \in TransferIds : SendToOtherShard(id, a, b, n, v)
      PROVE  LInv'
  BY <1>0, <1>3, TransferCounts, SendCounts
<1>4. ASSUME NEW m \in inFlight, Deliver(m) \/ SendBack(m) PROVE LInv'
  BY <1>0, <1>4, DeliverCounts, SendBackCounts
<1>5. ASSUME NEW target \in Freezable, Wipe(target[1], target[2]) PROVE LInv'
  BY <1>0, <1>5, WipeCounts, NFTAssumption
<1>6. ASSUME NEW s \in Shards, NEW n \in Deletable,
             DeleteMetadata(s, n) \/ \E v \in 1..latest[n] : AddMetadata(s, n, v)
      PROVE  LInv'
  BY <1>6, DeleteCounts
<1>7. ASSUME NEW a, NEW k, NEW freeze \in BOOLEAN, ToggleFreeze(a, k, freeze) \/ WipeCollection(a)
      PROVE  LInv'
  BY <1>7, SameCounts DEF ToggleFreeze, WipeCollection
<1>8. ASSUME NEW s \in Shards, TogglePause(s) PROVE LInv'
  BY <1>8, SameCounts DEF TogglePause
<1>9. ASSUME Activate PROVE LInv'
  BY <1>9, SameCounts DEF Activate
<1>10. CASE UNCHANGED vars
  BY <1>10, SameCounts DEF vars
<1>11. QED
  BY <1>1, <1>2, <1>3, <1>4, <1>5, <1>6, <1>7, <1>8, <1>9, <1>10 DEF Next

LEMMA LInvCounts ==
  ASSUME IInv, LInv
  PROVE  LiquidityCounted /\ LiquidityCovered /\ HoldersHaveMetadata
<1>1. LiquidityCounted /\ LiquidityCovered
  BY DEF LInv, Covered, Exact, LiquidityCounted, LiquidityCovered
<1>2. ASSUME NEW a \in Accounts, NEW n \in Nonces \ Deletable, quantity[a][n] > 0
      PROVE  meta[ShardOf[a]][n] # NoRecord
  <2>1. ShardOf[a] \in Shards /\ a \in LocalHolders(ShardOf[a]) /\ quantity[a][n] \in Nat
    BY NFTAssumption DEF LocalHolders, IInv, TypeOK
  <2>2. HeldIn(ShardOf[a], n) > 0
    BY <1>2, <2>1, HeldType DEF IInv
  <2>3. QED
    BY <2>1, <2>2 DEF LInv, Exact
<1>3. QED
  BY <1>1, <1>2 DEF HoldersHaveMetadata

LEMMA LiquidityInvariant ==
  ASSUME CountingEpochs, PlainNonces
  PROVE  Spec => [](LiquidityCounted /\ LiquidityCovered /\ HoldersHaveMetadata)
<1>1. IInv /\ LInv /\ [Next]_vars => LInv'
  BY StepLInv
<1>2. IInv /\ LInv => LiquidityCounted /\ LiquidityCovered /\ HoldersHaveMetadata
  BY LInvCounts
<1>3. QED
  BY <1>1, <1>2, InitIInv, StepIInv, InitLInv, PTL DEF Spec

\* In epochs that count liquidity, the record of a shard counts exactly what is held in
\* it, of every token whose metadata are not deleted under a holder (AddToLiquiditySystemAcc).
THEOREM LiquidityTold ==
  ASSUME CountingEpochs, PlainNonces
  PROVE  Spec => []LiquidityCounted
  BY LiquidityInvariant, PTL

\* Even with metadata deleted under a holder, a record counts at least one token and
\* never more than is held in its shard, so nothing is subtracted that is not there.
THEOREM LiquidityNotOvercounted ==
  ASSUME CountingEpochs, PlainNonces
  PROVE  Spec => []LiquidityCovered
  BY LiquidityInvariant, PTL

\* Whoever has a token whose metadata are not deleted finds them in its shard: a record
\* goes only with the last token it describes.
THEOREM MetadataFound ==
  ASSUME CountingEpochs, PlainNonces
  PROVE  Spec => []HoldersHaveMetadata
  BY LiquidityInvariant, PTL

-----------------------------------------------------------------------------
(* Metadata that are sent to a shard only once                             *)

\* A flag that is enabled stays enabled, and tokens are created in one of the epochs.
LastingFlags ==
  /\ DOMAIN Schedule \subseteq Nat
  /\ Launch \in [Nonces -> DOMAIN Schedule]
  /\ \A d, e \in DOMAIN Schedule : d <= e => Schedule[d] \subseteq Schedule[e]

\* Tokens of the epochs in which metadata are with the shards.
Modern(n) == "SaveToSystemAccount" \in Schedule[Launch[n]]

\* Shard t has the metadata of token n, or they are on their way to it.
Reached(t, n) ==
  \/ meta[t][n] # NoRecord
  \/ \E m \in inFlight : m.nonce = n /\ m.version # 0 /\ ShardOf[m.to] = t

\* The metadata that a message brings are also in the shard that it comes from.
SentOnceInv(n) ==
  /\ \A s \in Shards : meta[s][n] # NoRecord => meta[s][n].version # 0
  /\ \A s, t \in Shards : t \in meta[s][n].sent => Reached(t, n)
  /\ \A m \in inFlight :
       m.nonce = n /\ m.version # 0 => meta[ShardOf[m.from]][n] # NoRecord

SInv ==
  \A n \in Nonces : Modern(n) =>
    /\ latest[n] # 0 => InSystemAccount
    /\ "SendAlways" \notin Flags => SentOnceInv(n)

\* Only a new epoch changes the flags, and only NFTCreate makes a token exist.
EpochKept ==
  /\ UNCHANGED epoch \/ Activate
  /\ \A n \in Nonces : latest[n] = 0 /\ latest'[n] # 0 => epoch >= Launch[n]

LEMMA EpochStep ==
  ASSUME IInv, [Next]_vars
  PROVE  EpochKept
<1>t. latest \in [Nonces -> Nat]
  BY DEF IInv, TypeOK
<1>1. CASE UNCHANGED <<epoch, latest>>
  BY <1>1 DEF EpochKept
<1>2. ASSUME NEW a \in Accounts, NEW n \in Nonces, NEW v \in Amounts,
             NFTCreate(a, n, v) \/ NFTAddQuantity(a, n, v) \/ NFTBurn(a, n, v)
      PROVE  EpochKept
  BY <1>t, <1>2 DEF EpochKept, NFTCreate, NFTAddQuantity, NFTBurn
<1>3. ASSUME NEW a \in Accounts, NEW n \in Nonces, NFTAddURI(a, n) \/ NFTUpdateAttributes(a, n)
      PROVE  EpochKept
  <2>1. NewVersion(a, n)
    BY <1>3 DEF NFTAddURI, NFTUpdateAttributes
  <2>2. latest[n] # 0
    <3>1. latest[n] = 0 => Version(a, n) = 0
      BY ShardsOfAccounts DEF IInv, Uncreated, Version
    <3>2. QED
      BY <2>1, <3>1 DEF NewVersion
  <2>3. QED
    BY <1>t, <2>1, <2>2 DEF EpochKept, NewVersion
<1>4. ASSUME NEW a \in Accounts, NEW b \in Accounts, NEW n \in Nonces, NEW v \in Amounts,
             TransferInShard(a, b, n, v) \/ \E id \in TransferIds : SendToOtherShard(id, a, b, n, v)
      PROVE  EpochKept
  BY <1>1, <1>4 DEF EpochKept, TransferInShard, SendToOtherShard
<1>5. ASSUME NEW m \in inFlight, Deliver(m) \/ SendBack(m) PROVE EpochKept
  BY <1>1, <1>5 DEF EpochKept, Deliver, SendBack
<1>6. ASSUME NEW target \in Freezable, Wipe(target[1], target[2]) PROVE EpochKept
  BY <1>1, <1>6 DEF EpochKept, Wipe
<1>f. ASSUME NEW a, NEW k, NEW freeze \in BOOLEAN, ToggleFreeze(a, k, freeze) \/ WipeCollection(a)
      PROVE  EpochKept
  BY <1>1, <1>f DEF EpochKept, WipeCollection, ToggleFreeze
<1>7. ASSUME NEW s \in Shards, TogglePause(s) PROVE EpochKept
  BY <1>1, <1>7 DEF EpochKept, TogglePause
<1>8. ASSUME NEW s \in Shards, NEW n \in Deletable,
             DeleteMetadata(s, n) \/ \E v \in 1..latest[n] : AddMetadata(s, n, v)
      PROVE  EpochKept
  BY <1>1, <1>8 DEF EpochKept, DeleteMetadata, AddMetadata
<1>9. ASSUME Activate PROVE EpochKept
  BY <1>9 DEF EpochKept, Activate
<1>10. CASE UNCHANGED vars
  BY <1>1, <1>10 DEF EpochKept, vars
<1>11. QED
  BY <1>2, <1>3, <1>4, <1>5, <1>6, <1>f, <1>7, <1>8, <1>9, <1>10 DEF Next

LEMMA FlagsLast ==
  ASSUME LastingFlags, IInv, [Next]_vars
  PROVE  Flags \subseteq Flags'
<1>1. epoch \in DOMAIN Schedule /\ epoch' \in DOMAIN Schedule
  BY StepIInv DEF IInv, TypeOK
<1>2. epoch <= epoch'
  BY <1>1, EpochStep DEF EpochKept, Activate, LastingFlags
<1>3. QED
  BY <1>1, <1>2 DEF LastingFlags, Flags

\* A modern token exists only since metadata are with the shards.
LEMMA ModernExists ==
  ASSUME LastingFlags, IInv, SInv, [Next]_vars, NEW n \in Nonces, Modern(n), latest'[n] # 0
  PROVE  InSystemAccount'
<1>1. CASE latest[n] # 0
  BY <1>1, FlagsLast DEF SInv, InSystemAccount
<1>2. CASE latest[n] = 0
  <2>1. epoch >= Launch[n] /\ epoch \in DOMAIN Schedule /\ Launch[n] \in DOMAIN Schedule
    BY <1>2, EpochStep DEF EpochKept, IInv, TypeOK, LastingFlags
  <2>2. Schedule[Launch[n]] \subseteq Flags
    BY <2>1 DEF LastingFlags, Flags
  <2>3. QED
    BY <2>2, FlagsLast DEF Modern, InSystemAccount
<1>3. QED
  BY <1>1, <1>2

\* The record of token x in shard s is written, and messages of token n come and go
\* with metadata in the shards at both of their ends.
SentWrite(s, x, R, n) ==
  /\ meta' = [meta EXCEPT ![s][x] = R]
  /\ x = n =>
       /\ meta[s][n] # NoRecord => R # NoRecord
       /\ R # NoRecord => R.version # 0
       /\ R # meta[s][n] => \A t \in R.sent \cap Shards : Reached(t, n) \/ Reached(t, n)'
  /\ \A m \in inFlight \ inFlight' :
       m.nonce = n /\ m.version # 0 => meta'[ShardOf[m.to]][n] # NoRecord
  /\ \A m \in inFlight' \ inFlight :
       m.nonce = n /\ m.version # 0 => meta'[ShardOf[m.from]][n] # NoRecord

LEMMA SentWriteKeeps ==
  ASSUME IInv, inFlight' \subseteq Transfers, NEW s \in Shards, NEW x \in Nonces, NEW R,
         NEW n \in Nonces, SentWrite(s, x, R, n), SentOnceInv(n)
  PROVE  SentOnceInv(n)'
<1>t. meta \in [Shards -> [Nonces -> Records]]
  BY DEF IInv, TypeOK
<1>1. \A q \in Shards : meta'[q][n] = IF q = s /\ n = x THEN R ELSE meta[q][n]
  BY <1>t DEF SentWrite
<1>2. \A q \in Shards : meta[q][n] # NoRecord => meta'[q][n] # NoRecord
  BY <1>1 DEF SentWrite
<1>3. \A t \in Shards : Reached(t, n) => Reached(t, n)'
  <2> SUFFICES ASSUME NEW t \in Shards, Reached(t, n) PROVE Reached(t, n)'
    OBVIOUS
  <2>1. CASE meta[t][n] # NoRecord
    BY <1>2, <2>1 DEF Reached
  <2>2. ASSUME NEW m \in inFlight, m.nonce = n, m.version # 0, ShardOf[m.to] = t
        PROVE  Reached(t, n)'
    BY <2>2 DEF SentWrite, Reached
  <2>3. QED
    BY <2>1, <2>2 DEF Reached
<1>4. \A q \in Shards : meta'[q][n] # NoRecord => meta'[q][n].version # 0
  BY <1>1 DEF SentWrite, SentOnceInv
<1>5. ASSUME NEW q \in Shards, NEW t \in Shards, t \in meta'[q][n].sent PROVE Reached(t, n)'
  <2>1. CASE meta'[q][n] = meta[q][n]
    BY <1>3, <1>5, <2>1 DEF SentOnceInv
  <2>2. CASE meta'[q][n] # meta[q][n]
    <3>1. q = s /\ n = x /\ meta'[q][n] = R /\ R # meta[s][n]
      BY <1>1, <2>2
    <3>2. QED
      BY <1>3, <1>5, <3>1 DEF SentWrite
  <2>3. QED
    BY <2>1, <2>2
<1>6. ASSUME NEW m \in inFlight', m.nonce = n, m.version # 0
      PROVE  meta'[ShardOf[m.from]][n] # NoRecord
  <2>1. m.from \in Accounts /\ ShardOf[m.from] \in Shards
    BY TransferFields, ShardsOfAccounts
  <2>2. CASE m \in inFlight
    BY <1>2, <1>6, <2>1, <2>2 DEF SentOnceInv
  <2>3. CASE m \notin inFlight
    BY <1>6, <2>3 DEF SentWrite
  <2>4. QED
    BY <2>2, <2>3
<1>7. QED
  BY <1>4, <1>5, <1>6 DEF SentOnceInv

\* What saving metadata that are in the shards here makes of record r.
StoredOnce(R, r, version, all, here) ==
  /\ version = 0 \/ (r # NoRecord /\ all = FALSE) => R = r
  /\ version # 0 => R # NoRecord
  /\ r # NoRecord => R # NoRecord
  /\ R # NoRecord => R.version # 0
  /\ R # r => R.sent = here

LEMMA StoreOnce ==
  ASSUME SentOnce, NEW r \in Records, NEW version \in Nat, NEW all \in BOOLEAN,
         NEW old \in BOOLEAN, NEW here \in SUBSET Shards, r # NoRecord => r.version # 0
  PROVE  StoredOnce(StoreMetadata(r, version, all, old, here), r, version, all, here)
<1> DEFINE R == StoreMetadata(r, version, all, old, here)
<1>n. NoRecord.version = 0 /\ ~CountsLiquidity /\ InSystemAccount
  BY DEF NoRecord, CountsLiquidity, SentOnce
<1>1. CASE version = 0
  <2>1. R = r
    BY <1>1 DEF StoreMetadata
  <2>2. QED
    BY <1>1, <2>1 DEF StoredOnce
<1>2. CASE version # 0 /\ (r = NoRecord \/ all)
  <2>1. R.version = version /\ R.sent = here
    BY <1>n, <1>2 DEF StoreMetadata
  <2>2. R # NoRecord
    BY <1>n, <1>2, <2>1
  <2>3. QED
    BY <1>2, <2>1, <2>2 DEF StoredOnce
<1>3. CASE version # 0 /\ ~(r = NoRecord \/ all)
  <2>1. R = r
    BY <1>n, <1>3 DEF StoreMetadata
  <2>2. QED
    BY <1>3, <2>1 DEF StoredOnce
<1>4. QED
  BY <1>1, <1>2, <1>3

\* A token that is saved with metadata that it has.
LEMMA SavedOnce ==
  ASSUME IInv, SentOnce, inFlight' \subseteq Transfers, UNCHANGED inFlight, NEW a \in Accounts,
         NEW x \in Nonces, NEW version \in Nat, NEW all \in BOOLEAN,
         meta' = [meta EXCEPT ![ShardOf[a]][x] = Saved(a, x, version, all)],
         NEW n \in Nonces, SentOnceInv(n)
  PROVE  SentOnceInv(n)'
<1> DEFINE s == ShardOf[a]  R == Saved(a, x, version, all)
<1>1. s \in Shards /\ meta[s][x] \in Records /\ meta \in [Shards -> [Nonces -> Records]]
  BY ShardsOfAccounts DEF IInv, TypeOK
<1>2. ASSUME x = n
      PROVE  /\ meta[s][n] # NoRecord => R # NoRecord
             /\ R # NoRecord => R.version # 0
             /\ R # meta[s][n] => R.sent = {s}
  <2>1. {s} \in SUBSET Shards /\ (own[a][x] # 0) \in BOOLEAN
    BY <1>1
  <2>2. meta[s][n] # NoRecord => meta[s][n].version # 0
    BY <1>1 DEF SentOnceInv
  <2>3. StoredOnce(R, meta[s][n], version, all, {s})
    BY <1>1, <1>2, <2>1, <2>2, StoreOnce DEF Saved
  <2> HIDE DEF R
  <2>4. QED
    BY <2>3 DEF StoredOnce
<1>3. x = n /\ R # NoRecord => Reached(s, n)'
  BY <1>1 DEF Reached
<1>4. x = n /\ R # meta[s][n] => R # NoRecord
  BY <1>2
<1>5. SentWrite(s, x, R, n)
  <2> HIDE DEF R
  <2>1. QED
    BY <1>2, <1>3, <1>4 DEF SentWrite, R
<1>6. QED
  BY <1>1, <1>5, SentWriteKeeps

LEMMA SendOnce ==
  ASSUME IInv, SentOnce, inFlight' \subseteq Transfers, NEW id \in TransferIds,
         NEW a \in Accounts, NEW b \in Accounts, NEW x \in Nonces, NEW v \in Amounts,
         SendToOtherShard(id, a, b, x, v), NEW n \in Nonces, SentOnceInv(n)
  PROVE  SentOnceInv(n)'
<1> DEFINE s == ShardOf[a]  d == ShardOf[b]  r == meta[ShardOf[a]][x]
           S == Saved(a, x, Version(a, x), FALSE)
           R == MarkSent(S, d)
           bare == AlreadySent(S, d) /\ v # 1
           m == [id |-> id, from |-> a, to |-> b, nonce |-> x, val |-> v,
                 version |-> IF bare THEN 0 ELSE Version(a, x), ret |-> FALSE]
<1>1. /\ s \in Shards /\ d \in Shards /\ r \in Records /\ S \in Records
      /\ meta \in [Shards -> [Nonces -> Records]]
  BY ShardsOfAccounts, VersionType, SavedType DEF IInv, TypeOK
<1>2. AddLiquidity(S, -v) = S
  BY DEF AddLiquidity, CountsLiquidity, SentOnce
<1>3. meta' = [meta EXCEPT ![s][x] = R] /\ inFlight' = inFlight \cup {m}
  BY <1>2, Zenon DEF SendToOtherShard
<1>4. ASSUME x = n
      PROVE  /\ r # NoRecord => S # NoRecord
             /\ S # NoRecord => S.version # 0 /\ (S = r \/ S.sent = {s})
             /\ S = NoRecord => Version(a, x) = 0
             /\ S # NoRecord => Version(a, x) # 0
  <2>1. {s} \in SUBSET Shards /\ (own[a][x] # 0) \in BOOLEAN /\ Version(a, x) \in Nat
    BY <1>1, VersionType
  <2>2. r # NoRecord => r.version # 0
    BY <1>1, <1>4 DEF SentOnceInv
  <2>3. StoredOnce(S, r, Version(a, x), FALSE, {s})
    BY <1>1, <2>1, <2>2, StoreOnce DEF Saved
  <2>4. r # NoRecord => Version(a, x) # 0
    BY <2>2 DEF Version, SentOnce
  <2>5. QED
    BY <2>3, <2>4 DEF StoredOnce
<1>5. S = NoRecord => R = S
  BY DEF MarkSent
<1>6. S # NoRecord => /\ R = [S EXCEPT !.sent = S.sent \cup {d}]
                      /\ R.version = S.version /\ R.sent = S.sent \cup {d}
  BY <1>1 DEF MarkSent, Records
<1>7. m \notin inFlight
  BY DEF SendToOtherShard, Unused
<1>8. ASSUME x = n PROVE S # NoRecord => R # NoRecord /\ R.version # 0
  <2>1. NoRecord.version = 0
    BY DEF NoRecord
  <2> HIDE DEF S, R
  <2>2. QED
    BY <1>4, <1>6, <1>8, <2>1
<1>9. x = n /\ S # NoRecord => Reached(s, n)'
  BY <1>1, <1>3, <1>8 DEF Reached
<1>10. ASSUME x = n, S # NoRecord PROVE Reached(d, n) \/ Reached(d, n)'
  <2>1. CASE bare
    <3>1. d \in S.sent
      BY <2>1 DEF AlreadySent
    <3>2. S = r => Reached(d, n)
      BY <1>1, <1>10, <3>1 DEF SentOnceInv
    <3>3. S # r => d = s
      BY <1>4, <1>10, <3>1
    <3>4. d # s
      BY DEF SendToOtherShard
    <3>5. QED
      BY <3>2, <3>3, <3>4
  <2>2. CASE ~bare
    <3>1. m.version # 0 /\ m.nonce = n /\ ShardOf[m.to] = d /\ m \in inFlight'
      BY <1>3, <1>4, <1>10, <2>2
    <3> HIDE DEF m
    <3>2. QED
      BY <3>1 DEF Reached
  <2>3. QED
    BY <2>1, <2>2
<1>11. ASSUME x = n, R # r, NEW t \in R.sent \cap Shards PROVE Reached(t, n) \/ Reached(t, n)'
  <2>1. S # NoRecord
    <3>1. S = NoRecord => r = NoRecord
      BY <1>4, <1>11
    <3> HIDE DEF S, R
    <3>2. QED
      BY <1>5, <1>11, <3>1
  <2>2. t \in S.sent \/ t = d
    BY <1>6, <1>11, <2>1
  <2>3. t \in S.sent /\ S = r => Reached(t, n)
    BY <1>1, <1>11 DEF SentOnceInv
  <2>4. t \in S.sent /\ S # r => t = s
    BY <1>4, <1>11, <2>1
  <2>5. QED
    BY <1>9, <1>10, <1>11, <2>1, <2>2, <2>3, <2>4
<1>12. m.nonce = n /\ m.version # 0 => meta'[ShardOf[m.from]][n] # NoRecord
  <2>1. m.nonce = x /\ m.from = a /\ (m.version # 0 => Version(a, x) # 0)
    OBVIOUS
  <2>2. x = n /\ Version(a, x) # 0 => R # NoRecord
    BY <1>4, <1>8
  <2>3. x = n => meta'[s][n] = R
    BY <1>1, <1>3
  <2> HIDE DEF R, m
  <2>4. QED
    BY <2>1, <2>2, <2>3
<1>13. x = n => (r # NoRecord => R # NoRecord) /\ (R # NoRecord => R.version # 0)
  <2> HIDE DEF S, R
  <2>1. QED
    BY <1>4, <1>5, <1>8
<1> HIDE DEF R, m
<1>14. SentWrite(s, x, R, n)
  BY <1>3, <1>11, <1>12, <1>13 DEF SentWrite
<1>15. QED
  BY <1>1, <1>14, SentWriteKeeps

\* The metadata that the node saves for a message that reaches its shard.
LEMMA ArrivalOnce ==
  ASSUME IInv, SentOnce, NEW m \in inFlight, SentOnceInv(m.nonce)
  PROVE  LET r == meta[ShardOf[m.to]][m.nonce]
             here == {ShardOf[m.from], ShardOf[m.to]}
         IN  /\ StoredOnce(MetadataSaved(m), r, m.version, TRUE, here)
             /\ Received(m) = MetadataSaved(m)
<1> DEFINE n == m.nonce  s == ShardOf[m.to]  r == meta[s][n]
           here == {ShardOf[m.from], s}  R == MetadataSaved(m)
<1>1. /\ n \in Nonces /\ s \in Shards /\ ShardOf[m.from] \in Shards /\ m.version \in Nat
      /\ m.to \in Accounts /\ here \in SUBSET Shards
  BY TransferFields, ShardsOfAccounts DEF IInv, TypeOK
<1>2. r \in Records /\ R \in Records
  BY <1>1, ReceivedTypes DEF IInv, TypeOK
<1>3. r # NoRecord => r.version # 0
  BY <1>1 DEF SentOnceInv
<1>4. StoredOnce(R, r, m.version, TRUE, here)
  <2>1. R = StoreMetadata(r, m.version, TRUE, FALSE, here)
    BY DEF MetadataSaved
  <2>2. StoredOnce(StoreMetadata(r, m.version, TRUE, FALSE, here), r, m.version, TRUE, here)
    BY <1>1, <1>2, <1>3, StoreOnce
  <2>3. QED
    BY <2>1, <2>2
<1>5. StoredOnce(Received(m), R, m.version, FALSE, here)
  <2>1. R # NoRecord => R.version # 0
    BY <1>4 DEF StoredOnce
  <2>2. (own[m.to][n] # 0) \in BOOLEAN
    OBVIOUS
  <2>3. QED
    BY <1>1, <1>2, <2>1, <2>2, StoreOnce DEF Received
<1>6. Received(m) = R
  BY <1>4, <1>5 DEF StoredOnce
<1>7. QED
  BY <1>4, <1>6

\* A message of token x is taken, and its metadata stay in its shard.
LEMMA TakenOnce ==
  ASSUME IInv, SentOnce, inFlight' \subseteq Transfers, NEW m \in inFlight,
         \A k \in inFlight \ inFlight' : k = m,
         \A k \in inFlight' \ inFlight :
           k.nonce = m.nonce /\ k.version = m.version /\ k.from = m.to,
         meta' = [meta EXCEPT ![ShardOf[m.to]][m.nonce] = MetadataSaved(m)],
         NEW n \in Nonces, SentOnceInv(n)
  PROVE  SentOnceInv(n)'
<1> DEFINE x == m.nonce  s == ShardOf[m.to]  f == ShardOf[m.from]  R == MetadataSaved(m)
<1>1. /\ x \in Nonces /\ s \in Shards /\ f \in Shards
      /\ meta \in [Shards -> [Nonces -> Records]]
  BY TransferFields, ShardsOfAccounts DEF IInv, TypeOK
<1>2. x = n => StoredOnce(R, meta[s][n], m.version, TRUE, {f, s})
  BY ArrivalOnce
<1>3. x = n => meta'[s][n] = R
  BY <1>1
<1> HIDE DEF R
<1>4. x = n /\ m.version # 0 => meta[f][n] # NoRecord /\ meta'[s][n] # NoRecord
  BY <1>2, <1>3 DEF StoredOnce, SentOnceInv
<1>5. x = n /\ R # meta[s][n] => m.version # 0 /\ R.sent = {f, s}
  BY <1>2 DEF StoredOnce
<1>6. x = n /\ m.version # 0 => Reached(f, n) /\ Reached(s, n)'
  BY <1>4 DEF Reached
<1>7. x = n /\ R # meta[s][n] => \A t \in R.sent \cap Shards : Reached(t, n) \/ Reached(t, n)'
  BY <1>5, <1>6
<1>8. x = n => (meta[s][n] # NoRecord => R # NoRecord) /\ (R # NoRecord => R.version # 0)
  BY <1>2 DEF StoredOnce
<1>9. \A k \in inFlight \ inFlight' :
        k.nonce = n /\ k.version # 0 => meta'[ShardOf[k.to]][n] # NoRecord
  BY <1>4
<1>10. \A k \in inFlight' \ inFlight :
        k.nonce = n /\ k.version # 0 => meta'[ShardOf[k.from]][n] # NoRecord
  BY <1>4
<1>11. SentWrite(s, x, R, n)
  BY <1>7, <1>8, <1>9, <1>10 DEF SentWrite, R
<1>12. QED
  BY <1>1, <1>11, SentWriteKeeps

LEMMA DeliverOnce ==
  ASSUME IInv, SentOnce, inFlight' \subseteq Transfers, NEW m \in inFlight, Deliver(m),
         SentOnceInv(m.nonce), NEW n \in Nonces, SentOnceInv(n)
  PROVE  SentOnceInv(n)'
<1>1. AddLiquidity(Received(m), m.val) = MetadataSaved(m)
  BY ArrivalOnce DEF AddLiquidity, CountsLiquidity, SentOnce
<1>2. meta' = [meta EXCEPT ![ShardOf[m.to]][m.nonce] = MetadataSaved(m)]
  BY <1>1, Zenon DEF Deliver
<1>3. inFlight' = inFlight \ {m}
  BY DEF Deliver
<1>4. QED
  BY <1>2, <1>3, TakenOnce

LEMMA SendBackOnce ==
  ASSUME IInv, SentOnce, inFlight' \subseteq Transfers, NEW m \in inFlight, SendBack(m),
         NEW n \in Nonces, SentOnceInv(n)
  PROVE  SentOnceInv(n)'
<1>1. m \in Transfers /\ inFlight' = (inFlight \ {m}) \cup {Answer(m)}
  BY DEF SendBack, Answer, IInv, TypeOK
<1>2. Answer(m).nonce = m.nonce /\ Answer(m).version = m.version /\ Answer(m).from = m.to
  BY <1>1 DEF Answer, Transfers
<1>3. meta' = [meta EXCEPT ![ShardOf[m.to]][m.nonce] = MetadataSaved(m)]
  BY Zenon DEF SendBack
<1>4. QED
  BY <1>1, <1>2, <1>3, TakenOnce

\* What does not touch records and messages keeps everything.
LEMMA SameOnce ==
  ASSUME UNCHANGED <<meta, inFlight>>, NEW n \in Nonces, SentOnceInv(n)
  PROVE  SentOnceInv(n)'
  BY DEF SentOnceInv, Reached

LEMMA WipeOnce ==
  ASSUME IInv, SentOnce, NEW a \in Accounts, NEW k, Wipe(a, k), NEW n \in Nonces, SentOnceInv(n)
  PROVE  SentOnceInv(n)'
<1>1. UNCHANGED inFlight /\ ~CountsLiquidity
  BY DEF Wipe, CountsLiquidity, SentOnce
<1>2. ASSUME NEW x, NEW v, meta' = [meta EXCEPT ![ShardOf[a]][x] = AddLiquidity(meta[ShardOf[a]][x], v)]
      PROVE  UNCHANGED meta
  <2>1. AddLiquidity(meta[ShardOf[a]][x], v) = meta[ShardOf[a]][x]
    BY <1>1 DEF AddLiquidity
  <2>2. QED
    BY <1>2, <2>1, ShardsOfAccounts DEF IInv, TypeOK
<1>3. UNCHANGED meta
  BY <1>2 DEF Wipe, WipeLiquidity
<1>4. QED
  BY <1>1, <1>3, SameOnce

LEMMA OwnStepOnce ==
  ASSUME IInv, SentOnce, inFlight' \subseteq Transfers, NEW a \in Accounts, NEW x \in Nonces,
         NEW n \in Nonces, SentOnceInv(n), NEW v \in Amounts,
         \/ NFTCreate(a, x, v) \/ NFTAddQuantity(a, x, v) \/ NFTBurn(a, x, v)
         \/ \E b \in Accounts : TransferInShard(a, b, x, v)
  PROVE  SentOnceInv(n)'
<1>1. UNCHANGED inFlight /\ ~CountsLiquidity
  BY DEF NFTCreate, NFTAddQuantity, NFTBurn, TransferInShard, CountsLiquidity, SentOnce
<1>2. \A r, w : AddLiquidity(r, w) = r
  BY <1>1 DEF AddLiquidity
<1>3. CASE NFTCreate(a, x, v)
  <2>1. meta' = [meta EXCEPT ![ShardOf[a]][x] = Saved(a, x, 1, TRUE)]
    BY <1>2, <1>3, Zenon DEF NFTCreate
  <2>2. QED
    BY <1>1, <2>1, SavedOnce
<1>4. CASE ~NFTCreate(a, x, v)
  <2>1. meta' = [meta EXCEPT ![ShardOf[a]][x] = Saved(a, x, Version(a, x), FALSE)]
    BY <1>2, <1>4, Zenon DEF NFTAddQuantity, NFTBurn, TransferInShard
  <2>2. QED
    BY <1>1, <2>1, VersionType, SavedOnce
<1>5. QED
  BY <1>3, <1>4

LEMMA NewVersionOnce ==
  ASSUME IInv, SentOnce, inFlight' \subseteq Transfers, NEW a \in Accounts, NEW x \in Nonces,
         NEW n \in Nonces, SentOnceInv(n), NewVersion(a, x)
  PROVE  SentOnceInv(n)'
<1>1. latest[x] + 1 \in Nat
  BY DEF IInv, TypeOK
<1>2. UNCHANGED inFlight /\ meta' = [meta EXCEPT ![ShardOf[a]][x] = Saved(a, x, latest[x] + 1, TRUE)]
  BY Zenon DEF NewVersion
<1>3. QED
  BY <1>1, <1>2, SavedOnce

LEMMA StepOnce ==
  ASSUME IInv, SentOnce, [Next]_vars, NEW n \in Nonces, SentOnceInv(n)
  PROVE  SentOnceInv(n)'
<1>0. inFlight' \subseteq Transfers
  BY StepIInv DEF IInv, TypeOK
<1>1. ASSUME NEW a \in Accounts, NEW x \in Nonces, NEW v \in Amounts,
             NFTCreate(a, x, v) \/ NFTAddQuantity(a, x, v) \/ NFTBurn(a, x, v)
      PROVE  SentOnceInv(n)'
  BY <1>0, <1>1, OwnStepOnce
<1>2. ASSUME NEW a \in Accounts, NEW x \in Nonces, NFTAddURI(a, x) \/ NFTUpdateAttributes(a, x)
      PROVE  SentOnceInv(n)'
  BY <1>0, <1>2, NewVersionOnce DEF NFTAddURI, NFTUpdateAttributes
<1>3. ASSUME NEW a \in Accounts, NEW b \in Accounts, NEW x \in Nonces, NEW v \in Amounts,
             TransferInShard(a, b, x, v) \/ \E id \in TransferIds : SendToOtherShard(id, a, b, x, v)
      PROVE  SentOnceInv(n)'
  BY <1>0, <1>3, OwnStepOnce, SendOnce
<1>4. ASSUME NEW m \in inFlight, Deliver(m) \/ SendBack(m)
      PROVE  SentOnceInv(n)'
  <2>1. CASE SendBack(m)
    BY <1>0, <2>1, SendBackOnce
  <2>2. CASE Deliver(m) /\ m.nonce = n
    BY <1>0, <2>2, DeliverOnce
  <2>3. CASE Deliver(m) /\ m.nonce # n
    <3>1. m.nonce \in Nonces /\ ShardOf[m.to] \in Shards
      BY TransferFields, ShardsOfAccounts DEF IInv, TypeOK
    <3>2. /\ inFlight' = inFlight \ {m}
          /\ meta' = [meta EXCEPT ![ShardOf[m.to]][m.nonce] = AddLiquidity(Received(m), m.val)]
      BY <2>3, Zenon DEF Deliver
    <3>3. SentWrite(ShardOf[m.to], m.nonce, AddLiquidity(Received(m), m.val), n)
      BY <2>3, <3>2 DEF SentWrite
    <3>4. QED
      BY <1>0, <3>1, <3>3, SentWriteKeeps
  <2>4. QED
    BY <1>4, <2>1, <2>2, <2>3
<1>5. ASSUME NEW target \in Freezable, Wipe(target[1], target[2]) PROVE SentOnceInv(n)'
  BY <1>5, WipeOnce, NFTAssumption
<1>6. ASSUME NEW a, NEW k, NEW freeze \in BOOLEAN, ToggleFreeze(a, k, freeze) \/ WipeCollection(a)
      PROVE  SentOnceInv(n)'
  BY <1>6, SameOnce DEF ToggleFreeze, WipeCollection
<1>7. ASSUME NEW s \in Shards, TogglePause(s) PROVE SentOnceInv(n)'
  BY <1>7, SameOnce DEF TogglePause
<1>8. ASSUME NEW s \in Shards, NEW k \in Deletable,
             DeleteMetadata(s, k) \/ \E v \in 1..latest[k] : AddMetadata(s, k, v)
      PROVE  SentOnceInv(n)'
  BY <1>8 DEF DeleteMetadata, AddMetadata, SentOnce
<1>9. ASSUME Activate PROVE SentOnceInv(n)'
  BY <1>9, SameOnce DEF Activate
<1>10. CASE UNCHANGED vars
  BY <1>10, SameOnce DEF vars
<1>11. QED
  BY <1>1, <1>2, <1>3, <1>4, <1>5, <1>6, <1>7, <1>8, <1>9, <1>10 DEF Next

LEMMA StepSInv ==
  ASSUME LastingFlags
  PROVE  IInv /\ SInv /\ [Next]_vars => SInv'
<1> SUFFICES ASSUME IInv, SInv, [Next]_vars, NEW n \in Nonces, Modern(n)
             PROVE  /\ latest'[n] # 0 => InSystemAccount'
                    /\ "SendAlways" \notin Flags' => SentOnceInv(n)'
  BY DEF SInv, Modern
<1>1. latest'[n] # 0 => InSystemAccount'
  BY ModernExists
<1>2. ASSUME "SendAlways" \notin Flags' PROVE SentOnceInv(n)'
  <2>0. "SendAlways" \notin Flags
    BY <1>2, FlagsLast
  <2>1. CASE latest'[n] = 0
    <3>1. IInv'
      BY StepIInv
    <3>2. QED
      BY <2>1, <3>1 DEF IInv, Uncreated, SentOnceInv, NoRecord
  <2>2. CASE InSystemAccount
    BY <2>0, <2>2, StepOnce DEF SInv, SentOnce
  <2>3. CASE latest'[n] # 0 /\ ~InSystemAccount
    <3>1. Activate
      BY <1>1, <2>3, EpochStep DEF EpochKept, InSystemAccount, Flags
    <3>2. SentOnceInv(n)
      BY <2>0 DEF SInv
    <3>3. QED
      BY <3>1, <3>2, SameOnce DEF Activate
  <2>4. QED
    BY <2>1, <2>2, <2>3
<1>3. QED
  BY <1>1, <1>2

LEMMA InitSInv == Init => SInv
<1> SUFFICES ASSUME Init PROVE SInv
  OBVIOUS
<1>1. \A n \in Nonces : latest[n] = 0 /\ SentOnceInv(n)
  BY DEF Init, SentOnceInv, NoRecord
<1>2. QED
  BY <1>1 DEF SInv

\* While metadata are sent to a shard only once, a shard that a record says has the
\* metadata of a token has them, or they are on their way to it; whatever changes the
\* metadata, fails, comes back or is overtaken meanwhile.
THEOREM SentMetadata ==
  ASSUME LastingFlags
  PROVE  Spec => []SentShardsGetMetadata
<1>1. IInv /\ SInv /\ [Next]_vars => SInv'
  BY StepSInv
<1>2. SInv => SentShardsGetMetadata
  BY DEF SInv, Modern, SentOnceInv, Reached, SentOnce, SentShardsGetMetadata
<1>3. QED
  BY <1>1, <1>2, InitIInv, StepIInv, InitSInv, PTL DEF Spec

-----------------------------------------------------------------------------
(* Tokens that exist once                                                  *)

\* The transfers of the epochs that count liquidity were mended: they rewrite metadata
\* that do not count, and leave the liquidity of old tokens alone.
MendedEpochs ==
  \A e \in DOMAIN Schedule :
    "SendAlways" \in Schedule[e]
      => {"AlwaysSaveTokenMetaData", "FixOldTokenLiquidity"} \subseteq Schedule[e]

Unique(n) == MaxSupply[n] = 1 /\ n \notin Deletable

\* Token n is with one account, which reads its latest metadata, or in one message, which
\* brings them, or nowhere; and only a record of the shard of its holder counts it.
HolderReads(a, n) ==
  /\ quantity[a][n] = 1 /\ supply[n] >= 1
  /\ \A b \in Accounts \ {a} : quantity[b][n] = 0
  /\ \A m \in inFlight : m.nonce # n
  /\ Version(a, n) = latest[n]

MessageBrings(m, n) ==
  /\ m.val = 1 /\ supply[n] >= 1 /\ m.version = latest[n]
  /\ \A k \in inFlight : k.nonce = n => k = m

RecordCounts(s, n) ==
  /\ meta[s][n] # NoRecord => InSystemAccount
  /\ meta[s][n].tracked =>
       /\ CountsLiquidity /\ meta[s][n].liquidity = 1
       /\ \A a \in Accounts : quantity[a][n] # 0 => ShardOf[a] = s
       /\ \A m \in inFlight : m.nonce # n

UInv(n) ==
  /\ latest[n] = 0 => supply[n] = 0
  /\ \A a \in Accounts : quantity[a][n] # 0 => HolderReads(a, n)
  /\ \A m \in inFlight : m.nonce = n => MessageBrings(m, n)
  /\ \A s \in Shards : RecordCounts(s, n)

\* After a step: account a has the token, ...
Settled(a, n) ==
  /\ UNCHANGED epoch
  /\ supply'[n] >= 1 /\ latest'[n] # 0
  /\ \A b \in Accounts : quantity'[b][n] = IF b = a THEN 1 ELSE 0
  /\ \A m \in inFlight' : m.nonce # n
  /\ \A s \in Shards \ {ShardOf[a]} :
       meta'[s][n] = meta[s][n] /\ meta[s][n].tracked = FALSE
  /\ ~InSystemAccount => meta'[ShardOf[a]][n] = NoRecord /\ own'[a][n] = latest'[n]
  /\ InSystemAccount => /\ meta'[ShardOf[a]][n] # NoRecord
                        /\ meta'[ShardOf[a]][n].version = latest'[n]
  /\ meta'[ShardOf[a]][n].tracked => CountsLiquidity /\ meta'[ShardOf[a]][n].liquidity = 1

\* ... or the message m, ...
Sent(m, n) ==
  /\ UNCHANGED epoch
  /\ supply'[n] >= 1 /\ latest'[n] # 0
  /\ m.val = 1 /\ m.version = latest'[n]
  /\ \A b \in Accounts : quantity'[b][n] = 0
  /\ \A k \in inFlight' : k.nonce = n => k = m
  /\ \A s \in Shards : /\ meta'[s][n] # NoRecord => InSystemAccount
                       /\ meta'[s][n].tracked = FALSE

\* ... or nobody any more, ...
Gone(n) ==
  /\ UNCHANGED epoch
  /\ latest'[n] # 0
  /\ \A b \in Accounts : quantity'[b][n] = 0
  /\ \A k \in inFlight' : k.nonce # n
  /\ \A s \in Shards : /\ meta'[s][n] # NoRecord => InSystemAccount
                       /\ meta'[s][n].tracked => CountsLiquidity /\ meta'[s][n].liquidity = 1

\* ... or nothing was done to it.
Untouched(n) ==
  /\ latest'[n] = latest[n] /\ supply'[n] = supply[n]
  /\ \A a \in Accounts : /\ quantity'[a][n] = quantity[a][n]
                         /\ quantity[a][n] # 0 => own'[a][n] = own[a][n]
  /\ \A s \in Shards : meta'[s][n] = meta[s][n]
  /\ \A m : m.nonce = n => (m \in inFlight' <=> m \in inFlight)

\* The flags of the same epoch.
LEMMA SameFlags ==
  ASSUME UNCHANGED epoch
  PROVE  /\ InSystemAccount' = InSystemAccount /\ CountsLiquidity' = CountsLiquidity
         /\ SentOnce' = SentOnce
  BY DEF InSystemAccount, CountsLiquidity, SentOnce, Flags

LEMMA SettledKeeps ==
  ASSUME NEW a \in Accounts, NEW n \in Nonces, UInv(n), Settled(a, n)
  PROVE  UInv(n)'
<1>0. ShardOf[a] \in Shards /\ NoRecord.tracked = FALSE
  BY ShardsOfAccounts DEF NoRecord
<1>1. InSystemAccount' <=> InSystemAccount
  BY SameFlags DEF Settled
<1>2. CountsLiquidity' <=> CountsLiquidity
  BY SameFlags DEF Settled
<1>3. HolderReads(a, n)'
  <2>1. Version(a, n)' = latest'[n]
    BY <1>1 DEF Settled, Version
  <2>2. QED
    BY <2>1 DEF Settled, HolderReads
<1>4. \A b \in Accounts : quantity'[b][n] # 0 => b = a
  BY DEF Settled
<1>5. ASSUME NEW s \in Shards PROVE RecordCounts(s, n)'
  <2>1. CASE s = ShardOf[a]
    BY <1>1, <1>2, <1>4, <2>1 DEF Settled, RecordCounts
  <2>2. CASE s # ShardOf[a]
    BY <1>1, <2>2 DEF Settled, RecordCounts, UInv
  <2>3. QED
    BY <2>1, <2>2
<1>6. QED
  BY <1>3, <1>4, <1>5 DEF Settled, UInv

LEMMA SentKeeps ==
  ASSUME NEW m, NEW n \in Nonces, Sent(m, n)
  PROVE  UInv(n)'
<1>1. InSystemAccount' <=> InSystemAccount
  BY SameFlags DEF Sent
<1>2. \A s \in Shards : RecordCounts(s, n)'
  BY <1>1 DEF Sent, RecordCounts
<1>3. \A k \in inFlight' : k.nonce = n => MessageBrings(k, n)'
  BY DEF Sent, MessageBrings
<1>4. QED
  BY <1>2, <1>3 DEF Sent, UInv

LEMMA GoneKeeps ==
  ASSUME NEW n \in Nonces, Gone(n)
  PROVE  UInv(n)'
<1>1. InSystemAccount' <=> InSystemAccount
  BY SameFlags DEF Gone
<1>2. CountsLiquidity' <=> CountsLiquidity
  BY SameFlags DEF Gone
<1>3. \A s \in Shards : RecordCounts(s, n)'
  BY <1>1, <1>2 DEF Gone, RecordCounts
<1>4. QED
  BY <1>3 DEF Gone, UInv

\* Nothing is done to the token, and no flag is disabled.
LEMMA UntouchedKeeps ==
  ASSUME NEW n \in Nonces, UInv(n), Untouched(n), Flags \subseteq Flags'
  PROVE  UInv(n)'
<1>1. (InSystemAccount => InSystemAccount') /\ (CountsLiquidity => CountsLiquidity')
  BY DEF InSystemAccount, CountsLiquidity
<1>2. ASSUME NEW a \in Accounts, quantity'[a][n] # 0 PROVE HolderReads(a, n)'
  <2>1. HolderReads(a, n) /\ ShardOf[a] \in Shards
    BY <1>2, ShardsOfAccounts DEF UInv, Untouched
  <2>2. RecordCounts(ShardOf[a], n)
    BY <2>1 DEF UInv
  <2>3. own'[a][n] = own[a][n] /\ meta'[ShardOf[a]][n] = meta[ShardOf[a]][n]
    BY <1>2, <2>1 DEF Untouched
  <2>4. Version(a, n)' = Version(a, n)
    BY <1>1, <2>2, <2>3 DEF Version, RecordCounts
  <2>5. QED
    BY <2>1, <2>4 DEF HolderReads, Untouched
<1>3. ASSUME NEW m \in inFlight', m.nonce = n PROVE MessageBrings(m, n)'
  BY <1>3 DEF UInv, Untouched, MessageBrings
<1>4. ASSUME NEW s \in Shards PROVE RecordCounts(s, n)'
  BY <1>1 DEF UInv, Untouched, RecordCounts
<1>5. QED
  BY <1>2, <1>3, <1>4 DEF UInv, Untouched

\* What saving metadata makes of the record r.
StoredUnique(R, r, version, all, old) ==
  /\ ~InSystemAccount => R = r
  /\ InSystemAccount => R # NoRecord /\ R.version \in {version, r.version}
  /\ InSystemAccount /\ (r = NoRecord \/ all \/ (CountsLiquidity /\ r.tracked = FALSE))
       => R.version = version
  /\ R.tracked =>
       \/ R = r /\ r # NoRecord
       \/ r = NoRecord /\ old = FALSE /\ CountsLiquidity /\ R.liquidity = 0
  /\ R.tracked \in BOOLEAN /\ R.liquidity \in Nat

LEMMA Mended ==
  ASSUME MendedEpochs, IInv, CountsLiquidity
  PROVE  "AlwaysSaveTokenMetaData" \in Flags /\ "FixOldTokenLiquidity" \in Flags
  BY DEF MendedEpochs, IInv, TypeOK, CountsLiquidity, Flags

LEMMA StoreUnique ==
  ASSUME MendedEpochs, IInv, NEW r \in Records, NEW version \in Nat \ {0}, NEW all \in BOOLEAN,
         NEW old \in BOOLEAN, NEW here \in SUBSET Shards
  PROVE  StoredUnique(StoreMetadata(r, version, all, old, here), r, version, all, old)
<1> DEFINE R == StoreMetadata(r, version, all, old, here)
<1>n. NoRecord.version = 0 /\ NoRecord.tracked = FALSE
  BY DEF NoRecord
<1>t. R \in Records /\ R.tracked \in BOOLEAN /\ R.liquidity \in Nat
  BY StoreMetadataType DEF Records
<1>1. CASE ~InSystemAccount
  <2>1. R = r /\ ~CountsLiquidity
    BY <1>1 DEF StoreMetadata, CountsLiquidity
  <2>2. R.tracked => R # NoRecord
    BY <1>n
  <2>3. QED
    BY <1>1, <1>t, <2>1, <2>2 DEF StoredUnique
<1>2. CASE InSystemAccount /\ (r = NoRecord \/ all)
  <2>1. /\ R.version = version /\ R.liquidity = 0
        /\ R.tracked = (CountsLiquidity /\ r = NoRecord /\ ~(old /\ "FixOldTokenLiquidity" \in Flags))
    BY <1>2 DEF StoreMetadata
  <2>2. R.tracked => r = NoRecord /\ old = FALSE /\ CountsLiquidity
    BY <2>1, Mended
  <2>3. QED
    BY <1>n, <1>t, <1>2, <2>1, <2>2 DEF StoredUnique
<1>3. CASE InSystemAccount /\ r # NoRecord /\ ~all
  <2>1. CASE CountsLiquidity /\ r.tracked = FALSE
    <3>1. R = [r EXCEPT !.version = version]
      BY <1>3, <2>1, Mended DEF StoreMetadata
    <3>2. R.version = version /\ R.tracked = FALSE
      BY <2>1, <3>1 DEF Records
    <3>3. QED
      BY <1>n, <1>t, <1>3, <3>2 DEF StoredUnique
  <2>2. CASE ~(CountsLiquidity /\ r.tracked = FALSE)
    <3>1. r.tracked \in BOOLEAN
      BY DEF Records
    <3>2. R = r
      BY <1>3, <2>2, <3>1 DEF StoreMetadata
    <3>3. QED
      BY <1>t, <1>3, <2>2, <3>2 DEF StoredUnique
  <2>3. QED
    BY <2>1, <2>2
<1>4. QED
  BY <1>1, <1>2, <1>3

\* What the holder of the token saves is a record with the version that it saves; one that
\* counts, counts one token.
Kept(R, version) ==
  /\ ~InSystemAccount => R = NoRecord
  /\ InSystemAccount => R # NoRecord /\ R.version = version
  /\ R.tracked => CountsLiquidity /\ R.liquidity = 1
  /\ R.tracked \in BOOLEAN /\ R.liquidity \in Nat

LEMMA HolderSaves ==
  ASSUME MendedEpochs, IInv, NEW n \in Nonces, UInv(n), NEW a \in Accounts, quantity[a][n] # 0,
         NEW version \in Nat \ {0}, NEW all \in BOOLEAN, all = TRUE \/ version = latest[n]
  PROVE  Kept(Saved(a, n, version, all), version)
<1> DEFINE s == ShardOf[a]  r == meta[s][n]  R == Saved(a, n, version, all)  old == own[a][n] # 0
<1>1. /\ s \in Shards /\ r \in Records /\ {s} \in SUBSET Shards /\ old \in BOOLEAN
      /\ r.tracked \in BOOLEAN /\ latest[n] # 0 /\ latest[n] \in Nat
  BY ShardsOfAccounts, HeldIsCreated DEF IInv, TypeOK, Records
<1>2. HolderReads(a, n) /\ RecordCounts(s, n)
  BY <1>1 DEF UInv
<1>3. StoredUnique(R, r, version, all, old)
  BY <1>1, StoreUnique DEF Saved
<1>4. r = NoRecord => old
  BY <1>1, <1>2 DEF HolderReads, Version
<1>5. r # NoRecord => InSystemAccount /\ r.version = latest[n]
  BY <1>2 DEF HolderReads, RecordCounts, Version
<1>6. r.tracked => CountsLiquidity /\ r.liquidity = 1
  BY <1>2 DEF RecordCounts
<1> HIDE DEF R, r, old
<1>7. InSystemAccount => R # NoRecord /\ R.version = version
  BY <1>3, <1>5 DEF StoredUnique
<1>8. R.tracked => R = r
  BY <1>3, <1>4 DEF StoredUnique
<1>9. ~InSystemAccount => R = NoRecord
  BY <1>3, <1>5 DEF StoredUnique
<1>10. Kept(R, version)
  BY <1>3, <1>6, <1>7, <1>8, <1>9 DEF StoredUnique, Kept
<1>11. QED
  BY <1>10 DEF R

\* One token is added to a record's liquidity, or taken off it.
LEMMA AddOne ==
  ASSUME NEW R \in Records, R.tracked => CountsLiquidity /\ R.liquidity = 0
  PROVE  /\ AddLiquidity(R, 1).version = R.version
         /\ R.tracked = FALSE => AddLiquidity(R, 1) = R
         /\ R # NoRecord => AddLiquidity(R, 1) # NoRecord
         /\ AddLiquidity(R, 1).tracked
              => CountsLiquidity /\ AddLiquidity(R, 1).liquidity = 1
<1>1. CASE ~R.tracked
  BY <1>1 DEF AddLiquidity
<1>2. CASE R.tracked
  <2>1. ~Uncounted(R, 1) /\ R.liquidity + 1 = 1 /\ R.liquidity + 1 # 0
    BY <1>2 DEF Uncounted
  <2>2. AddLiquidity(R, 1) = [R EXCEPT !.liquidity = R.liquidity + 1]
    BY <1>2, <2>1, Zenon DEF AddLiquidity
  <2>3. /\ AddLiquidity(R, 1).version = R.version
        /\ AddLiquidity(R, 1).tracked = TRUE /\ AddLiquidity(R, 1).liquidity = 1
    BY <1>2, <2>1, <2>2 DEF Records
  <2>4. AddLiquidity(R, 1) # NoRecord
    BY <2>3 DEF NoRecord
  <2>5. QED
    BY <1>2, <2>3, <2>4
<1>3. QED
  BY <1>1, <1>2

LEMMA TakeOne ==
  ASSUME NEW R \in Records, R.tracked => CountsLiquidity /\ R.liquidity = 1
  PROVE  /\ AddLiquidity(R, -1).tracked = FALSE
         /\ R.tracked = FALSE => AddLiquidity(R, -1) = R
         /\ R = NoRecord => AddLiquidity(R, -1) = NoRecord
<1>n. NoRecord.tracked = FALSE /\ R.tracked \in BOOLEAN
  BY DEF NoRecord, Records
<1>1. CASE ~R.tracked
  BY <1>n, <1>1 DEF AddLiquidity
<1>2. CASE R.tracked
  <2>1. ~Uncounted(R, -1) /\ R.liquidity + (-1) = 0
    BY <1>2 DEF Uncounted
  <2>2. AddLiquidity(R, -1) = NoRecord
    BY <1>2, <2>1 DEF AddLiquidity
  <2>3. QED
    BY <1>n, <1>2, <2>2
<1>3. QED
  BY <1>1, <1>2

\* The token is with account a: then it is nowhere else.
LEMMA HolderAlone ==
  ASSUME IInv, NEW n \in Nonces, UInv(n), NEW a \in Accounts, quantity[a][n] # 0
  PROVE  /\ quantity[a][n] = 1 /\ supply[n] >= 1 /\ latest[n] \in Nat \ {0}
         /\ Version(a, n) = latest[n]
         /\ \A b \in Accounts \ {a} : quantity[b][n] = 0
         /\ \A m \in inFlight : m.nonce # n
         /\ \A s \in Shards \ {ShardOf[a]} : meta[s][n].tracked = FALSE
<1>1. HolderReads(a, n) /\ latest[n] \in Nat \ {0}
  BY HeldIsCreated DEF UInv, IInv, TypeOK
<1>2. ASSUME NEW s \in Shards, s # ShardOf[a] PROVE meta[s][n].tracked = FALSE
  BY <1>2 DEF UInv, RecordCounts, IInv, TypeOK, Records
<1>3. QED
  BY <1>1, <1>2 DEF HolderReads

\* It is in the message m: then no account has it and no record counts it.
LEMMA MessageAlone ==
  ASSUME IInv, NEW m \in inFlight, UInv(m.nonce)
  PROVE  /\ m.nonce \in Nonces /\ m.to \in Accounts /\ m.from \in Accounts
         /\ m.val = 1 /\ supply[m.nonce] >= 1 /\ latest[m.nonce] \in Nat \ {0}
         /\ m.version = latest[m.nonce]
         /\ \A b \in Accounts : quantity[b][m.nonce] = 0
         /\ \A k \in inFlight : k.nonce = m.nonce => k = m
         /\ \A s \in Shards : meta[s][m.nonce].tracked = FALSE
<1>1. m.nonce \in Nonces /\ m.to \in Accounts /\ m.from \in Accounts
  BY TransferFields DEF IInv, TypeOK
<1>2. MessageBrings(m, m.nonce) /\ latest[m.nonce] \in Nat \ {0}
  BY <1>1 DEF UInv, IInv, TypeOK, Uncreated
<1>3. \A b \in Accounts : quantity[b][m.nonce] = 0
  BY DEF UInv, HolderReads
<1>4. \A s \in Shards : meta[s][m.nonce].tracked = FALSE
  BY <1>1 DEF UInv, RecordCounts, IInv, TypeOK, Records
<1>5. QED
  BY <1>1, <1>2, <1>3, <1>4 DEF MessageBrings

LEMMA CreateUnique ==
  ASSUME MendedEpochs, IInv, NEW n \in Nonces, Unique(n), UInv(n), NEW a \in Accounts,
         NEW v \in Amounts, NFTCreate(a, n, v)
  PROVE  Settled(a, n)
<1> DEFINE s == ShardOf[a]  R == Saved(a, n, 1, TRUE)
<1>1. /\ s \in Shards /\ v \in Nat \ {0} /\ v = 1 /\ latest[n] = 0 /\ {s} \in SUBSET Shards
      /\ (own[a][n] # 0) = FALSE
  <2>1. v \in Nat \ {0} /\ v <= 1 /\ latest[n] = 0
    <3>1. v \in Nat \ {0} /\ (v <= MaxSupply[n]) /\ latest[n] = 0
      BY NFTAssumption, Zenon DEF NFTCreate
    <3>2. QED
      BY <3>1 DEF Unique
  <2>2. own[a][n] = 0
    BY <2>1 DEF IInv, Uncreated
  <2>3. s \in Shards /\ {s} \in SUBSET Shards
    BY ShardsOfAccounts
  <2>4. QED
    BY <2>1, <2>2, <2>3
<1>2. meta[s][n] = NoRecord /\ NoRecord \in Records /\ NoRecord.tracked = FALSE
  BY <1>1, NoRecordType DEF IInv, Uncreated, NoRecord
<1>3. StoredUnique(R, NoRecord, 1, TRUE, FALSE)
  BY <1>1, <1>2, StoreUnique DEF Saved
<1>4. R \in Records
  BY SavedType
<1> HIDE DEF R
<1>5. /\ R.tracked => CountsLiquidity /\ R.liquidity = 0
      /\ ~InSystemAccount => R = NoRecord
      /\ InSystemAccount => R # NoRecord /\ R.version = 1
  BY <1>3 DEF StoredUnique
<1>6. meta' = [meta EXCEPT ![s][n] = AddLiquidity(R, v)]
  BY Zenon DEF NFTCreate, R
<1>7. meta'[s][n] = AddLiquidity(R, 1) /\ \A t \in Shards \ {s} : meta'[t][n] = meta[t][n]
  BY <1>1, <1>6 DEF IInv, TypeOK
<1>8. /\ meta'[s][n].tracked => CountsLiquidity /\ meta'[s][n].liquidity = 1
      /\ ~InSystemAccount => meta'[s][n] = NoRecord
      /\ InSystemAccount => meta'[s][n] # NoRecord /\ meta'[s][n].version = 1
  BY <1>2, <1>4, <1>5, <1>7, AddOne
<1>9. \A t \in Shards \ {s} : meta[t][n].tracked = FALSE
  BY <1>1, <1>2 DEF IInv, Uncreated
<1>10. /\ latest'[n] = 1 /\ supply'[n] >= 1 /\ UNCHANGED <<epoch, inFlight>>
       /\ \A m \in inFlight : m.nonce # n
  BY <1>1 DEF NFTCreate, UInv, IInv, TypeOK, Uncreated
<1>11. \A b \in Accounts : quantity'[b][n] = IF b = a THEN 1 ELSE 0
  BY <1>1 DEF NFTCreate, IInv, TypeOK, Uncreated
<1>12. ~InSystemAccount => own'[a][n] = 1
  BY <1>1 DEF NFTCreate, OwnCopy, IInv, TypeOK
<1>13. QED
  BY <1>7, <1>8, <1>9, <1>10, <1>11, <1>12 DEF Settled

\* There is no second token to add.
LEMMA NoneAdded ==
  ASSUME IInv, NEW n \in Nonces, Unique(n), UInv(n), NEW a \in Accounts, NEW v \in Amounts
  PROVE  ~NFTAddQuantity(a, n, v)
<1> SUFFICES ASSUME NFTAddQuantity(a, n, v) PROVE FALSE
  OBVIOUS
<1>1. v \in Nat \ {0} /\ supply[n] + v <= 1 /\ supply[n] \in Int
  BY NFTAssumption DEF NFTAddQuantity, Unique, IInv, TypeOK
<1>2. quantity[a][n] # 0
  BY DEF NFTAddQuantity, HasToken, Stopped, IInv, TypeOK
<1>3. supply[n] >= 1
  BY <1>2, HolderAlone
<1>4. QED
  BY <1>1, <1>3

LEMMA BurnUnique ==
  ASSUME MendedEpochs, IInv, NEW n \in Nonces, Unique(n), UInv(n), NEW a \in Accounts,
         NEW v \in Amounts, NFTBurn(a, n, v)
  PROVE  Gone(n)
<1> DEFINE s == ShardOf[a]  R == Saved(a, n, Version(a, n), FALSE)
<1>1. s \in Shards /\ v \in Nat \ {0} /\ quantity[a][n] >= v /\ quantity[a][n] \in Nat
  BY NFTAssumption, ShardsOfAccounts DEF NFTBurn, IInv, TypeOK
<1>q. quantity[a][n] # 0
  BY <1>1
<1>2. /\ quantity[a][n] = 1 /\ latest[n] \in Nat \ {0} /\ Version(a, n) = latest[n]
      /\ \A b \in Accounts \ {a} : quantity[b][n] = 0
      /\ \A m \in inFlight : m.nonce # n
      /\ \A t \in Shards \ {s} : meta[t][n].tracked = FALSE
  BY <1>q, HolderAlone
<1>3. Kept(R, latest[n]) /\ R \in Records /\ v = 1
  <2>1. Kept(R, latest[n])
    BY <1>q, <1>2, HolderSaves
  <2>2. R \in Records
    BY VersionType, SavedType
  <2>3. v = 1
    BY <1>1, <1>2
  <2>4. QED
    BY <2>1, <2>2, <2>3
<1> HIDE DEF R
<1>4. meta' = [meta EXCEPT ![s][n] = AddLiquidity(R, -v)]
  BY Zenon DEF NFTBurn, R
<1>5. meta'[s][n] = AddLiquidity(R, -1) /\ \A t \in Shards \ {s} : meta'[t][n] = meta[t][n]
  BY <1>1, <1>3, <1>4 DEF IInv, TypeOK
<1>6. /\ meta'[s][n].tracked = FALSE
      /\ ~InSystemAccount => meta'[s][n] = NoRecord
  BY <1>3, <1>5, TakeOne DEF Kept
<1>7. \A t \in Shards : meta'[t][n].tracked = FALSE /\ (meta'[t][n] # NoRecord => InSystemAccount)
  BY <1>2, <1>5, <1>6 DEF UInv, RecordCounts
<1>8. UNCHANGED <<epoch, inFlight, latest>>
  BY DEF NFTBurn
<1>9. \A b \in Accounts : quantity'[b][n] = 0
  BY <1>2, <1>3 DEF NFTBurn, IInv, TypeOK
<1>10. QED
  BY <1>2, <1>7, <1>8, <1>9 DEF Gone

LEMMA NewVersionUnique ==
  ASSUME MendedEpochs, IInv, NEW n \in Nonces, Unique(n), UInv(n), NEW a \in Accounts,
         NewVersion(a, n)
  PROVE  Settled(a, n)
<1> DEFINE s == ShardOf[a]  R == Saved(a, n, latest[n] + 1, TRUE)
<1>1. s \in Shards /\ quantity[a][n] # 0
  BY ShardsOfAccounts DEF NewVersion, HasToken, Stopped, IInv, TypeOK
<1>2. /\ quantity[a][n] = 1 /\ latest[n] \in Nat \ {0} /\ supply[n] >= 1
      /\ \A b \in Accounts \ {a} : quantity[b][n] = 0
      /\ \A m \in inFlight : m.nonce # n
      /\ \A t \in Shards \ {s} : meta[t][n].tracked = FALSE
  BY <1>1, HolderAlone
<1>3. Kept(R, latest[n] + 1) /\ latest[n] + 1 \in Nat \ {0}
  <2>1. latest[n] + 1 \in Nat \ {0}
    BY <1>2
  <2>2. QED
    BY <1>1, <2>1, HolderSaves
<1> HIDE DEF R
<1>4. meta' = [meta EXCEPT ![s][n] = R]
  BY Zenon DEF NewVersion, R
<1>5. meta'[s][n] = R /\ \A t \in Shards \ {s} : meta'[t][n] = meta[t][n]
  BY <1>1, <1>4 DEF IInv, TypeOK
<1>6. UNCHANGED <<epoch, inFlight, quantity, supply>> /\ latest'[n] = latest[n] + 1
  BY DEF NewVersion, IInv, TypeOK
<1>7. ~InSystemAccount => own'[a][n] = latest'[n]
  BY <1>2, <1>6 DEF NewVersion, OwnCopy, IInv, TypeOK
<1>8. \A b \in Accounts : quantity'[b][n] = IF b = a THEN 1 ELSE 0
  BY <1>2, <1>6
<1>9. QED
  BY <1>2, <1>3, <1>5, <1>6, <1>7, <1>8 DEF Settled, Kept

LEMMA TransferUnique ==
  ASSUME MendedEpochs, IInv, NEW n \in Nonces, Unique(n), UInv(n), NEW a \in Accounts,
         NEW b \in Accounts, NEW v \in Amounts, TransferInShard(a, b, n, v)
  PROVE  Settled(b, n)
<1> DEFINE s == ShardOf[a]  R == Saved(a, n, Version(a, n), FALSE)
<1>1. /\ s \in Shards /\ v \in Nat \ {0} /\ quantity[a][n] >= v /\ quantity[a][n] \in Nat
      /\ a # b /\ ShardOf[b] = s
  BY NFTAssumption, ShardsOfAccounts DEF TransferInShard, IInv, TypeOK
<1>q. quantity[a][n] # 0
  BY <1>1
<1>2. /\ quantity[a][n] = 1 /\ latest[n] \in Nat \ {0} /\ Version(a, n) = latest[n]
      /\ supply[n] >= 1
      /\ \A c \in Accounts \ {a} : quantity[c][n] = 0
      /\ \A m \in inFlight : m.nonce # n
      /\ \A t \in Shards \ {s} : meta[t][n].tracked = FALSE
  BY <1>q, HolderAlone
<1>3. Kept(R, latest[n]) /\ v = 1
  <2>1. Kept(R, latest[n])
    BY <1>q, <1>2, HolderSaves
  <2>2. v = 1
    BY <1>1, <1>2
  <2>3. QED
    BY <2>1, <2>2
<1> HIDE DEF R
<1>4. meta' = [meta EXCEPT ![s][n] = R]
  BY Zenon DEF TransferInShard, R
<1>5. meta'[s][n] = R /\ \A t \in Shards \ {s} : meta'[t][n] = meta[t][n]
  BY <1>1, <1>4 DEF IInv, TypeOK
<1>6. UNCHANGED <<epoch, inFlight, latest, supply>>
  BY DEF TransferInShard
<1>7. ~InSystemAccount => own'[b][n] = latest[n]
  BY <1>1, <1>2, <1>3 DEF TransferInShard, OwnCopy, IInv, TypeOK
<1>8. \A c \in Accounts : quantity'[c][n] = IF c = b THEN 1 ELSE 0
  <2>1. quantity' = [quantity EXCEPT ![a][n] = @ - v, ![b][n] = @ + v]
    BY DEF TransferInShard
  <2>2. /\ quantity'[a][n] = quantity[a][n] - 1 /\ quantity'[b][n] = quantity[b][n] + 1
        /\ \A c \in Accounts \ {a, b} : quantity'[c][n] = quantity[c][n]
    BY <1>1, <1>3, <2>1 DEF IInv, TypeOK
  <2>3. QED
    BY <1>1, <1>2, <2>2
<1>9. QED
  BY <1>1, <1>2, <1>3, <1>5, <1>6, <1>7, <1>8 DEF Settled, Kept

LEMMA SendUnique ==
  ASSUME MendedEpochs, IInv, NEW n \in Nonces, Unique(n), UInv(n), NEW a \in Accounts,
         NEW b \in Accounts, NEW v \in Amounts, NEW id \in TransferIds,
         SendToOtherShard(id, a, b, n, v)
  PROVE  \E m : Sent(m, n)
<1> DEFINE s == ShardOf[a]  R == Saved(a, n, Version(a, n), FALSE)
           r == AddLiquidity(R, -v)
           m == [id |-> id, from |-> a, to |-> b, nonce |-> n, val |-> v,
                 version |-> Version(a, n), ret |-> FALSE]
<1>1. s \in Shards /\ v \in Nat \ {0} /\ quantity[a][n] >= v /\ quantity[a][n] \in Nat
  BY NFTAssumption, ShardsOfAccounts DEF SendToOtherShard, IInv, TypeOK
<1>q. quantity[a][n] # 0
  BY <1>1
<1>2. /\ quantity[a][n] = 1 /\ latest[n] \in Nat \ {0} /\ Version(a, n) = latest[n]
      /\ supply[n] >= 1
      /\ \A c \in Accounts \ {a} : quantity[c][n] = 0
      /\ \A k \in inFlight : k.nonce # n
      /\ \A t \in Shards \ {s} : meta[t][n].tracked = FALSE
  BY <1>q, HolderAlone
<1>3. Kept(R, latest[n]) /\ R \in Records /\ v = 1
  <2>1. Kept(R, latest[n])
    BY <1>q, <1>2, HolderSaves
  <2>2. R \in Records
    BY VersionType, SavedType
  <2>3. v = 1
    BY <1>1, <1>2
  <2>4. QED
    BY <2>1, <2>2, <2>3
<1> HIDE DEF R
<1>4. r.tracked = FALSE /\ (~InSystemAccount => r = NoRecord) /\ r \in Records
  <2>1. R.tracked => R.liquidity + (-v) >= 0
    BY <1>3 DEF Kept
  <2>2. /\ AddLiquidity(R, -1).tracked = FALSE
        /\ R = NoRecord => AddLiquidity(R, -1) = NoRecord
    BY <1>3, TakeOne DEF Kept
  <2>3. r.tracked = FALSE /\ (~InSystemAccount => r = NoRecord)
    BY <1>3, <2>2 DEF Kept
  <2>4. CanAddLiquidity(R, -v)
    BY Zenon DEF SendToOtherShard, R
  <2>5. -v \in Int
    BY <1>1
  <2>7. r \in Records
    BY <1>3, <2>4, <2>5, AddLiquidityType
  <2>6. QED
    BY <2>3, <2>7
<1>5. meta' = [meta EXCEPT ![s][n] = MarkSent(r, ShardOf[b])]
  BY Zenon DEF SendToOtherShard, R
<1>6. inFlight' = inFlight \cup {m}
  BY <1>3, Zenon DEF SendToOtherShard
<1> HIDE DEF r
<1>7. MarkSent(r, ShardOf[b]).tracked = FALSE /\ (~InSystemAccount => MarkSent(r, ShardOf[b]) = NoRecord)
  BY <1>4 DEF MarkSent, SentOnce, Records
<1>8. meta'[s][n] = MarkSent(r, ShardOf[b]) /\ \A t \in Shards \ {s} : meta'[t][n] = meta[t][n]
  BY <1>1, <1>5 DEF IInv, TypeOK
<1>9. \A t \in Shards : meta'[t][n].tracked = FALSE /\ (meta'[t][n] # NoRecord => InSystemAccount)
  BY <1>2, <1>7, <1>8 DEF UInv, RecordCounts
<1>10. UNCHANGED <<epoch, latest, supply>>
  BY DEF SendToOtherShard
<1>11. \A c \in Accounts : quantity'[c][n] = 0
  BY <1>2, <1>3 DEF SendToOtherShard, IInv, TypeOK
<1>12. m.val = 1 /\ m.version = latest[n] /\ \A k \in inFlight' : k.nonce = n => k = m
  BY <1>2, <1>3, <1>6
<1>13. Sent(m, n)
  BY <1>2, <1>9, <1>10, <1>11, <1>12 DEF Sent
<1>14. QED
  BY <1>13

\* What the node saves for the message that brings the token.
LEMMA ArrivalUnique ==
  ASSUME MendedEpochs, IInv, NEW m \in inFlight, UInv(m.nonce)
  PROVE  LET R == MetadataSaved(m)
             Q == Received(m)
         IN  /\ R \in Records /\ R.tracked = FALSE /\ (~InSystemAccount => R = NoRecord)
             /\ Q \in Records /\ (~InSystemAccount => Q = NoRecord)
             /\ InSystemAccount => Q # NoRecord /\ Q.version = m.version
             /\ Q.tracked => CountsLiquidity /\ Q.liquidity = 0
<1> DEFINE n == m.nonce  s == ShardOf[m.to]  r == meta[s][n]  old == own[m.to][n] # 0
           here == {ShardOf[m.from], s}  R == MetadataSaved(m)  Q == Received(m)
<1>1. /\ n \in Nonces /\ m.to \in Accounts /\ m.from \in Accounts
      /\ m.version \in Nat \ {0} /\ r.tracked = FALSE
  BY MessageAlone, ShardsOfAccounts
<1>2. /\ s \in Shards /\ here \in SUBSET Shards /\ r \in Records /\ R \in Records /\ Q \in Records
      /\ old \in BOOLEAN
  BY <1>1, ReceivedTypes, ShardsOfAccounts DEF IInv, TypeOK
<1>3. r # NoRecord => InSystemAccount
  BY <1>2 DEF UInv, RecordCounts
<1>n. NoRecord.tracked = FALSE
  BY DEF NoRecord
<1>4. CASE SentOnce
  <2>1. R = StoreMetadata(r, m.version, TRUE, FALSE, here)
    BY <1>4 DEF MetadataSaved
  <2>2. StoredUnique(R, r, m.version, TRUE, FALSE)
    BY <1>1, <1>2, <2>1, StoreUnique
  <2>3. InSystemAccount /\ ~CountsLiquidity
    BY <1>4 DEF SentOnce, CountsLiquidity
  <2>4. R.tracked = FALSE /\ R # NoRecord /\ R.version = m.version
    BY <1>1, <2>2, <2>3 DEF StoredUnique
  <2>5. Q = R
    BY <2>3, <2>4 DEF Received, StoreMetadata
  <2> HIDE DEF R, Q
  <2>6. QED
    BY <1>2, <2>3, <2>4, <2>5 DEF R, Q
<1>5. CASE ~SentOnce
  <2>1. R = r
    BY <1>5 DEF MetadataSaved
  <2>2. StoredUnique(Q, r, m.version, FALSE, old)
    BY <1>1, <1>2, <2>1, StoreUnique DEF Received
  <2>3. InSystemAccount => CountsLiquidity
    BY <1>5 DEF SentOnce, CountsLiquidity
  <2> HIDE DEF R, Q, r, old
  <2>4. /\ ~InSystemAccount => Q = NoRecord
        /\ InSystemAccount => Q # NoRecord /\ Q.version = m.version
        /\ Q.tracked => CountsLiquidity /\ Q.liquidity = 0
    BY <1>1, <1>3, <2>2, <2>3 DEF StoredUnique
  <2>5. R.tracked = FALSE /\ (~InSystemAccount => R = NoRecord)
    BY <1>1, <1>3, <2>1
  <2>6. QED
    BY <1>2, <2>4, <2>5 DEF R, Q
<1>6. QED
  BY <1>4, <1>5

LEMMA DeliverUnique ==
  ASSUME MendedEpochs, IInv, NEW m \in inFlight, UInv(m.nonce), Deliver(m)
  PROVE  Settled(m.to, m.nonce)
<1> DEFINE n == m.nonce  s == ShardOf[m.to]  Q == Received(m)
<1>1. /\ n \in Nonces /\ m.to \in Accounts /\ m.val = 1 /\ supply[n] >= 1
      /\ latest[n] \in Nat \ {0} /\ m.version = latest[n]
      /\ \A b \in Accounts : quantity[b][n] = 0
      /\ \A k \in inFlight : k.nonce = n => k = m
      /\ \A t \in Shards : meta[t][n].tracked = FALSE
  BY MessageAlone
<1>2. s \in Shards
  BY <1>1, ShardsOfAccounts
<1>3. /\ Q \in Records /\ (~InSystemAccount => Q = NoRecord)
      /\ InSystemAccount => Q # NoRecord /\ Q.version = m.version
      /\ Q.tracked => CountsLiquidity /\ Q.liquidity = 0
  BY ArrivalUnique
<1>4. meta' = [meta EXCEPT ![s][n] = AddLiquidity(Q, m.val)]
  BY Zenon DEF Deliver
<1> HIDE DEF Q
<1>5. meta'[s][n] = AddLiquidity(Q, 1) /\ \A t \in Shards \ {s} : meta'[t][n] = meta[t][n]
  BY <1>1, <1>2, <1>4 DEF IInv, TypeOK
<1>6. /\ meta'[s][n].tracked => CountsLiquidity /\ meta'[s][n].liquidity = 1
      /\ ~InSystemAccount => meta'[s][n] = NoRecord
      /\ InSystemAccount => meta'[s][n] # NoRecord /\ meta'[s][n].version = latest[n]
  <2>1. NoRecord.tracked = FALSE
    BY DEF NoRecord
  <2>2. QED
    BY <1>1, <1>3, <1>5, <2>1, AddOne
<1>7. UNCHANGED <<epoch, latest, supply>> /\ inFlight' = inFlight \ {m}
  BY DEF Deliver
<1>8. ~InSystemAccount => own'[m.to][n] = latest[n]
  BY <1>1 DEF Deliver, OwnCopy, IInv, TypeOK
<1>9. \A b \in Accounts : quantity'[b][n] = IF b = m.to THEN 1 ELSE 0
  <2>1. quantity' = [quantity EXCEPT ![m.to][n] = @ + 1]
    BY <1>1 DEF Deliver
  <2>2. QED
    BY <1>1, <2>1 DEF IInv, TypeOK
<1>10. \A k \in inFlight' : k.nonce # n
  BY <1>1, <1>7
<1>11. \A t \in Shards \ {s} : meta'[t][n] = meta[t][n] /\ meta[t][n].tracked = FALSE
  BY <1>1, <1>5
<1>12. QED
  BY <1>1, <1>6, <1>7, <1>8, <1>9, <1>10, <1>11 DEF Settled

LEMMA SendBackUnique ==
  ASSUME MendedEpochs, IInv, NEW m \in inFlight, UInv(m.nonce), SendBack(m)
  PROVE  Sent(Answer(m), m.nonce)
<1> DEFINE n == m.nonce  s == ShardOf[m.to]  R == MetadataSaved(m)
<1>1. /\ n \in Nonces /\ m.to \in Accounts /\ m.val = 1 /\ supply[n] >= 1
      /\ latest[n] \in Nat \ {0} /\ m.version = latest[n]
      /\ \A b \in Accounts : quantity[b][n] = 0
      /\ \A k \in inFlight : k.nonce = n => k = m
      /\ \A t \in Shards : meta[t][n].tracked = FALSE
  BY MessageAlone
<1>2. s \in Shards /\ m \in Transfers
  BY <1>1, ShardsOfAccounts DEF IInv, TypeOK
<1>3. R.tracked = FALSE /\ (~InSystemAccount => R = NoRecord)
  BY ArrivalUnique
<1>4. meta' = [meta EXCEPT ![s][n] = R]
  BY Zenon DEF SendBack
<1> HIDE DEF R
<1>5. meta'[s][n] = R /\ \A t \in Shards \ {s} : meta'[t][n] = meta[t][n]
  BY <1>1, <1>2, <1>4 DEF IInv, TypeOK
<1>6. \A t \in Shards : meta'[t][n].tracked = FALSE /\ (meta'[t][n] # NoRecord => InSystemAccount)
  BY <1>1, <1>3, <1>5 DEF UInv, RecordCounts
<1>7. /\ UNCHANGED <<epoch, latest, supply, quantity>>
      /\ inFlight' = (inFlight \ {m}) \cup {Answer(m)}
  BY DEF SendBack, Answer
<1>8. Answer(m).val = 1 /\ Answer(m).version = latest[n]
  BY <1>1, <1>2 DEF Answer, Transfers
<1>9. \A k \in inFlight' : k.nonce = n => k = Answer(m)
  BY <1>1, <1>7
<1>10. QED
  BY <1>1, <1>6, <1>7, <1>8, <1>9 DEF Sent

LEMMA WipeUnique ==
  ASSUME PlainNonces, IInv, NEW n \in Nonces, UInv(n), NEW a \in Accounts, Wipe(a, n)
  PROVE  Gone(n) \/ Untouched(n)
<1> DEFINE s == ShardOf[a]  r == meta[s][n]
<1>1. s \in Shards /\ r \in Records /\ quantity[a][n] \in Nat
  BY ShardsOfAccounts DEF IInv, TypeOK
<1>2. RecordCounts(s, n)
  BY <1>1 DEF UInv
<1>3. UNCHANGED meta \/ meta' = [meta EXCEPT ![s][n] = AddLiquidity(r, -quantity[a][n])]
  <2>1. WipeLiquidity(s, n, quantity[a][n])
    BY NonceWiped DEF Wipe
  <2>2. QED
    BY <2>1, Zenon DEF WipeLiquidity
<1>4. \A t \in Shards \ {s} : meta'[t][n] = meta[t][n]
  BY <1>3 DEF IInv, TypeOK
<1>5. UNCHANGED <<latest, inFlight, epoch>>
  BY DEF Wipe
<1>6. CASE quantity[a][n] = 0
  <2>1. AddLiquidity(r, -0) = r
    <3>1. CASE CountsLiquidity /\ r.tracked
      <4>1. r.liquidity = 1 /\ r.liquidity + (-0) = 1
        BY <1>2, <3>1 DEF RecordCounts
      <4>2. ~Uncounted(r, -0) /\ r.liquidity + (-0) # 0
        BY <4>1 DEF Uncounted
      <4>3. AddLiquidity(r, -0) = [r EXCEPT !.liquidity = r.liquidity + (-0)]
        BY <3>1, <4>2, Zenon DEF AddLiquidity
      <4>4. QED
        BY <1>1, <4>1, <4>3 DEF Records
    <3>2. CASE ~(CountsLiquidity /\ r.tracked)
      BY <3>2 DEF AddLiquidity
    <3>3. QED
      BY <3>1, <3>2
  <2>2. meta'[s][n] = meta[s][n]
    BY <1>1, <1>3, <1>6, <2>1 DEF IInv, TypeOK
  <2>3. \A b \in Accounts : /\ quantity'[b][n] = quantity[b][n]
                            /\ quantity[b][n] # 0 => own'[b][n] = own[b][n]
    BY <1>6 DEF Wipe, IInv, TypeOK
  <2>4. supply'[n] = supply[n]
    BY <1>6 DEF Wipe, IInv, TypeOK
  <2>5. QED
    BY <1>4, <1>5, <2>2, <2>3, <2>4 DEF Untouched
<1>7. CASE quantity[a][n] # 0
  <2>1. /\ quantity[a][n] = 1 /\ latest[n] # 0
        /\ \A c \in Accounts \ {a} : quantity[c][n] = 0
        /\ \A k \in inFlight : k.nonce # n
        /\ \A t \in Shards \ {s} : meta[t][n].tracked = FALSE
    BY <1>7, HolderAlone
  <2>2. r.tracked => CountsLiquidity /\ r.liquidity = 1
    BY <1>2 DEF RecordCounts
  <2>3. /\ AddLiquidity(r, -1).tracked = FALSE
        /\ r = NoRecord => AddLiquidity(r, -1) = NoRecord
    BY <1>1, <2>2, TakeOne
  <2>4. meta'[s][n] = r \/ meta'[s][n] = AddLiquidity(r, -1)
    BY <1>1, <1>3, <2>1 DEF IInv, TypeOK
  <2>5. \A t \in Shards : meta[t][n] # NoRecord => InSystemAccount
    BY DEF UInv, RecordCounts
  <2> HIDE DEF r
  <2>6. /\ meta'[s][n] # NoRecord => InSystemAccount
        /\ meta'[s][n].tracked => CountsLiquidity /\ meta'[s][n].liquidity = 1
    BY <1>1, <2>2, <2>3, <2>4, <2>5 DEF r
  <2>7. \A t \in Shards :
          /\ meta'[t][n] # NoRecord => InSystemAccount
          /\ meta'[t][n].tracked => CountsLiquidity /\ meta'[t][n].liquidity = 1
    BY <1>4, <2>1, <2>5, <2>6
  <2>8. \A b \in Accounts : quantity'[b][n] = 0
    BY <2>1 DEF Wipe, IInv, TypeOK
  <2>9. QED
    BY <1>5, <2>1, <2>7, <2>8 DEF Gone
<1>8. QED
  BY <1>6, <1>7

\* A call about another token does nothing to this one.
LEMMA OtherToken ==
  ASSUME IInv, NEW n \in Nonces, NEW x \in Nonces, x # n, NEW a \in Accounts,
         NEW v \in Amounts,
         \/ NFTCreate(a, x, v) \/ NFTAddQuantity(a, x, v) \/ NFTBurn(a, x, v)
         \/ \E b \in Accounts : TransferInShard(a, b, x, v)
         \/ \E b \in Accounts, id \in TransferIds : SendToOtherShard(id, a, b, x, v)
  PROVE  Untouched(n)
<1>t. /\ quantity \in [Accounts -> [Nonces -> Nat]] /\ own \in [Accounts -> [Nonces -> Nat]]
      /\ meta \in [Shards -> [Nonces -> Records]] /\ latest \in [Nonces -> Nat]
      /\ supply \in [Nonces -> Int]
  BY DEF IInv, TypeOK
<1>1. CASE NFTCreate(a, x, v)
  BY <1>t, <1>1 DEF NFTCreate, Untouched
<1>2. CASE NFTAddQuantity(a, x, v)
  BY <1>t, <1>2 DEF NFTAddQuantity, Untouched
<1>3. CASE NFTBurn(a, x, v)
  BY <1>t, <1>3 DEF NFTBurn, Untouched
<1>4. ASSUME NEW b \in Accounts, TransferInShard(a, b, x, v) PROVE Untouched(n)
  BY <1>t, <1>4 DEF TransferInShard, Untouched
<1>5. ASSUME NEW b \in Accounts, NEW id \in TransferIds, SendToOtherShard(id, a, b, x, v)
      PROVE  Untouched(n)
  <2>1. \E R : meta' = [meta EXCEPT ![ShardOf[a]][x] = R]
    BY <1>5, Zenon DEF SendToOtherShard
  <2>2. \A s \in Shards : meta'[s][n] = meta[s][n]
    BY <1>t, <2>1
  <2>3. \E m : m.nonce = x /\ inFlight' = inFlight \cup {m}
    <3>1. \E w : inFlight' = inFlight \cup
            {[id |-> id, from |-> a, to |-> b, nonce |-> x, val |-> v, version |-> w, ret |-> FALSE]}
      BY <1>5, Zenon DEF SendToOtherShard
    <3>2. QED
      BY <3>1
  <2>4. \A c \in Accounts : quantity'[c][n] = quantity[c][n] /\ own'[c][n] = own[c][n]
    BY <1>t, <1>5 DEF SendToOtherShard
  <2>5. UNCHANGED <<latest, supply>>
    BY <1>5 DEF SendToOtherShard
  <2>6. QED
    BY <2>2, <2>3, <2>4, <2>5 DEF Untouched
<1>6. QED
  BY <1>1, <1>2, <1>3, <1>4, <1>5

LEMMA OtherVersion ==
  ASSUME IInv, NEW n \in Nonces, NEW x \in Nonces, x # n, NEW a \in Accounts, NewVersion(a, x)
  PROVE  Untouched(n)
  BY DEF NewVersion, Untouched, IInv, TypeOK

LEMMA OtherMessage ==
  ASSUME IInv, NEW n \in Nonces, NEW m \in inFlight, m.nonce # n, Deliver(m) \/ SendBack(m)
  PROVE  Untouched(n)
<1>t. /\ quantity \in [Accounts -> [Nonces -> Nat]] /\ own \in [Accounts -> [Nonces -> Nat]]
      /\ meta \in [Shards -> [Nonces -> Records]] /\ m \in Transfers
  BY DEF IInv, TypeOK
<1>1. \A s \in Shards : meta'[s][n] = meta[s][n]
  <2>1. \E R : meta' = [meta EXCEPT ![ShardOf[m.to]][m.nonce] = R]
    BY Zenon DEF Deliver, SendBack
  <2>2. QED
    BY <1>t, <2>1
<1>2. latest'[n] = latest[n] /\ supply'[n] = supply[n]
  BY DEF Deliver, SendBack
<1>3. \A k : k.nonce = n => (k \in inFlight' <=> k \in inFlight)
  <2>1. inFlight' = inFlight \ {m} \/ inFlight' = (inFlight \ {m}) \cup {Answer(m)}
    BY DEF Deliver, SendBack, Answer
  <2>2. Answer(m).nonce = m.nonce
    BY <1>t, AnswerIsTransfer
  <2>3. QED
    BY <2>1, <2>2
<1>4. \A c \in Accounts : quantity'[c][n] = quantity[c][n] /\ own'[c][n] = own[c][n]
  BY <1>t DEF Deliver, SendBack
<1>5. QED
  BY <1>1, <1>2, <1>3, <1>4 DEF Untouched

LEMMA OtherCall ==
  ASSUME PlainNonces, IInv, NEW n \in Nonces, n \notin Deletable,
         \/ \E target \in Freezable : target[2] # n /\ Wipe(target[1], target[2])
         \/ \E a, k, freeze : ToggleFreeze(a, k, freeze) \/ WipeCollection(a)
         \/ \E s \in Shards : TogglePause(s)
         \/ \E s \in Shards, x \in Deletable :
              DeleteMetadata(s, x) \/ \E v \in 1..latest[x] : AddMetadata(s, x, v)
         \/ Activate
         \/ UNCHANGED vars
  PROVE  Untouched(n)
<1>t. /\ quantity \in [Accounts -> [Nonces -> Nat]] /\ own \in [Accounts -> [Nonces -> Nat]]
      /\ meta \in [Shards -> [Nonces -> Records]] /\ supply \in [Nonces -> Int]
  BY DEF IInv, TypeOK
<1>1. ASSUME NEW target \in Freezable, target[2] # n, Wipe(target[1], target[2])
      PROVE  Untouched(n)
  <2> DEFINE a == target[1]  k == target[2]
  <2>1. a \in Accounts /\ k \in Nonces /\ k # n
    BY <1>1, NFTAssumption DEF Wipe
  <2>2. WipeLiquidity(ShardOf[a], k, quantity[a][k])
    BY <1>1, <2>1, NonceWiped DEF Wipe
  <2>3. \A s \in Shards : meta'[s][n] = meta[s][n]
    BY <1>t, <2>1, <2>2 DEF WipeLiquidity
  <2>4. UNCHANGED <<latest, inFlight>> /\ supply'[n] = supply[n]
    BY <1>1, <1>t, <2>1 DEF Wipe
  <2>5. \A c \in Accounts : quantity'[c][n] = quantity[c][n] /\ own'[c][n] = own[c][n]
    BY <1>1, <1>t, <2>1 DEF Wipe
  <2>6. QED
    BY <2>3, <2>4, <2>5 DEF Untouched
<1>2. CASE UNCHANGED <<quantity, own, meta, latest, inFlight, supply>>
  BY <1>2 DEF Untouched
<1>3. ASSUME NEW a, NEW k, NEW freeze, ToggleFreeze(a, k, freeze) \/ WipeCollection(a)
      PROVE  Untouched(n)
  BY <1>2, <1>3 DEF ToggleFreeze, WipeCollection
<1>4. ASSUME NEW s \in Shards, TogglePause(s) PROVE Untouched(n)
  BY <1>2, <1>4 DEF TogglePause
<1>5. ASSUME NEW s \in Shards, NEW x \in Deletable,
             DeleteMetadata(s, x) \/ \E v \in 1..latest[x] : AddMetadata(s, x, v)
      PROVE  Untouched(n)
  <2>1. x # n /\ UNCHANGED <<quantity, own, latest, inFlight, supply>>
    BY <1>5 DEF DeleteMetadata, AddMetadata
  <2>2. \A t \in Shards : meta'[t][n] = meta[t][n]
    BY <1>5, <1>t, <2>1 DEF DeleteMetadata, AddMetadata
  <2>3. QED
    BY <2>1, <2>2 DEF Untouched
<1>6. CASE Activate \/ UNCHANGED vars
  BY <1>2, <1>6 DEF Activate, vars
<1>7. QED
  BY <1>1, <1>3, <1>4, <1>5, <1>6

LEMMA StepUnique ==
  ASSUME LastingFlags, MendedEpochs, PlainNonces, IInv, [Next]_vars,
         NEW n \in Nonces, Unique(n), UInv(n)
  PROVE  UInv(n)'
<1>0. Flags \subseteq Flags'
  BY FlagsLast
<1>u. Untouched(n) => UInv(n)'
  BY <1>0, UntouchedKeeps
<1>1. ASSUME NEW a \in Accounts, NEW x \in Nonces, NEW v \in Amounts,
             NFTCreate(a, x, v) \/ NFTAddQuantity(a, x, v) \/ NFTBurn(a, x, v)
      PROVE  UInv(n)'
  <2>1. CASE x = n
    BY <1>1, <2>1, CreateUnique, SettledKeeps, NoneAdded, BurnUnique, GoneKeeps
  <2>2. CASE x # n
    BY <1>1, <1>u, <2>2, OtherToken
  <2>3. QED
    BY <2>1, <2>2
<1>2. ASSUME NEW a \in Accounts, NEW x \in Nonces, NFTAddURI(a, x) \/ NFTUpdateAttributes(a, x)
      PROVE  UInv(n)'
  <2>1. NewVersion(a, x)
    BY <1>2 DEF NFTAddURI, NFTUpdateAttributes
  <2>2. CASE x = n
    BY <2>1, <2>2, NewVersionUnique, SettledKeeps
  <2>3. CASE x # n
    BY <1>u, <2>1, <2>3, OtherVersion
  <2>4. QED
    BY <2>2, <2>3
<1>3. ASSUME NEW a \in Accounts, NEW b \in Accounts, NEW x \in Nonces, NEW v \in Amounts,
             TransferInShard(a, b, x, v) \/ \E id \in TransferIds : SendToOtherShard(id, a, b, x, v)
      PROVE  UInv(n)'
  <2>1. CASE x = n /\ TransferInShard(a, b, x, v)
    BY <2>1, TransferUnique, SettledKeeps
  <2>2. ASSUME x = n, NEW id \in TransferIds, SendToOtherShard(id, a, b, x, v) PROVE UInv(n)'
    BY <2>2, SendUnique, SentKeeps
  <2>3. CASE x # n
    BY <1>3, <1>u, <2>3, OtherToken
  <2>4. QED
    BY <1>3, <2>1, <2>2, <2>3
<1>4. ASSUME NEW m \in inFlight, Deliver(m) \/ SendBack(m) PROVE UInv(n)'
  <2>1. CASE m.nonce = n /\ Deliver(m)
    <3>1. m.to \in Accounts
      BY TransferFields DEF IInv, TypeOK
    <3>2. QED
      BY <2>1, <3>1, DeliverUnique, SettledKeeps
  <2>2. CASE m.nonce = n /\ SendBack(m)
    BY <2>2, SendBackUnique, SentKeeps
  <2>3. CASE m.nonce # n
    BY <1>4, <1>u, <2>3, OtherMessage
  <2>4. QED
    BY <1>4, <2>1, <2>2, <2>3
<1>5. ASSUME NEW target \in Freezable, Wipe(target[1], target[2]) PROVE UInv(n)'
  <2>1. CASE target[2] = n
    BY <1>5, <1>u, <2>1, NFTAssumption, WipeUnique, GoneKeeps
  <2>2. CASE target[2] # n
    BY <1>5, <1>u, <2>2, OtherCall DEF Unique
  <2>3. QED
    BY <2>1, <2>2
<1>6. ASSUME NEW a, NEW k, NEW freeze \in BOOLEAN, ToggleFreeze(a, k, freeze) \/ WipeCollection(a)
      PROVE  UInv(n)'
  BY <1>6, <1>u, OtherCall DEF Unique
<1>7. ASSUME NEW s \in Shards, TogglePause(s) PROVE UInv(n)'
  BY <1>7, <1>u, OtherCall DEF Unique
<1>8. ASSUME NEW s \in Shards, NEW k \in Deletable,
             DeleteMetadata(s, k) \/ \E v \in 1..latest[k] : AddMetadata(s, k, v)
      PROVE  UInv(n)'
  BY <1>8, <1>u, OtherCall DEF Unique
<1>9. CASE Activate \/ UNCHANGED vars
  BY <1>9, <1>u, OtherCall DEF Unique
<1>10. QED
  BY <1>1, <1>2, <1>3, <1>4, <1>5, <1>6, <1>7, <1>8, <1>9 DEF Next

LEMMA InitUnique ==
  ASSUME Init, NEW n \in Nonces
  PROVE  UInv(n)
  BY DEF Init, UInv, RecordCounts, NoRecord

LastSeen == \A n \in Nonces : Unique(n) => UInv(n)

\* The holder of a token that exists once reads its latest metadata, wherever and in
\* whichever epoch they were changed, through transfers that fail and come back, and past
\* every record that other shards still have of it.
THEOREM LatestSeen ==
  ASSUME LastingFlags, MendedEpochs, PlainNonces
  PROVE  Spec => []HolderSeesLatest
<1>1. Init => LastSeen
  BY InitUnique DEF LastSeen
<1>2. IInv /\ LastSeen /\ [Next]_vars => LastSeen'
  <2> SUFFICES ASSUME IInv, LastSeen, [Next]_vars, NEW n \in Nonces, Unique(n) PROVE UInv(n)'
    BY DEF LastSeen, Unique
  <2>1. QED
    BY StepUnique DEF LastSeen
<1>3. IInv /\ LastSeen => HolderSeesLatest
  <2> SUFFICES ASSUME IInv, LastSeen, NEW a \in Accounts, NEW n \in Nonces \ Deletable,
                      MaxSupply[n] = 1, quantity[a][n] > 0
               PROVE  Version(a, n) = latest[n]
    BY DEF HolderSeesLatest
  <2>1. UInv(n) /\ quantity[a][n] # 0
    BY DEF LastSeen, Unique, IInv, TypeOK
  <2>2. QED
    BY <2>1 DEF UInv, HolderReads
<1>4. QED
  BY <1>1, <1>2, <1>3, InitIInv, StepIInv, PTL DEF Spec

=============================================================================

------------------------ MODULE MultiTransferProofs ------------------------
(***************************************************************************)
(* Theorems about MultiTransfer and MultiTransferArguments, for any        *)
(* accounts, tokens and shards, and lists of any length.  What a list does *)
(* is computed by a fold over its entries, which passes through one result *)
(* after the other, so that facts about a list are proved by induction     *)
(* over its entries; so is where an entry stands in the arguments that a   *)
(* list is written in.  At the end the list is shown to be one transfer of *)
(* TokenEscrow for every token.                                            *)
(***************************************************************************)
EXTENDS MultiTransferArguments, FoldLemmas, SequenceTheorems

-----------------------------------------------------------------------------
(* What one entry does                                                     *)

Results ==
  [ok : BOOLEAN, quantity : [Accounts -> [Tokens -> Int]], liquidity : [Shards -> [NFTs -> Int]]]

\* What entry e has of token t.
Part(e, t) == IF e.token = t THEN e.val ELSE 0

\* From result r to q entry e leaves the accounts A and goes to the accounts B, and the
\* liquidity of the shards U falls and that of W grows; nothing else changes.  No account
\* gives what it does not have.
Stepped(r, q, e, A, B, U, W) ==
  /\ \A x \in Accounts, t \in Tokens :
       /\ x \in A => q.quantity[x][t] = r.quantity[x][t] - Part(e, t)
       /\ x \in B => q.quantity[x][t] = r.quantity[x][t] + Part(e, t)
       /\ x \notin A \cup B => q.quantity[x][t] = r.quantity[x][t]
  /\ \A s \in Shards, t \in NFTs :
       /\ s \in U => q.liquidity[s][t] = r.liquidity[s][t] - Part(e, t)
       /\ s \in W => q.liquidity[s][t] = r.liquidity[s][t] + Part(e, t)
       /\ s \notin U \cup W => q.liquidity[s][t] = r.liquidity[s][t]
  /\ q.ok => r.ok /\ \A x \in A : r.quantity[x][e.token] >= e.val

LEMMA ResultFields ==
  ASSUME NEW r \in Results
  PROVE  /\ r.ok \in BOOLEAN /\ r.quantity \in [Accounts -> [Tokens -> Int]]
         /\ r.liquidity \in [Shards -> [NFTs -> Int]]
  BY DEF Results

LEMMA SetOk ==
  ASSUME NEW r \in Results, NEW b \in BOOLEAN, NEW q, q = [r EXCEPT !.ok = b]
  PROVE  q \in Results /\ q.ok = b /\ q.quantity = r.quantity /\ q.liquidity = r.liquidity
  BY DEF Results

LEMMA SetQuantity ==
  ASSUME NEW r \in Results, NEW f \in [Accounts -> [Tokens -> Int]], NEW q,
         q = [r EXCEPT !.quantity = f]
  PROVE  q \in Results /\ q.ok = r.ok /\ q.quantity = f /\ q.liquidity = r.liquidity
  BY DEF Results

LEMMA SetLiquidity ==
  ASSUME NEW r \in Results, NEW g \in [Shards -> [NFTs -> Int]], NEW q,
         q = [r EXCEPT !.liquidity = g]
  PROVE  q \in Results /\ q.ok = r.ok /\ q.quantity = r.quantity /\ q.liquidity = g
  BY DEF Results

LEMMA EntryFields ==
  ASSUME NEW e \in Entries
  PROVE  e.token \in Tokens /\ e.val \in Nat /\ e.val \in Int /\ -e.val \in Int
<1>1. e.token \in Tokens /\ e.val \in Nat
  BY MultiAssumption DEF Entries
<1>2. QED
  BY <1>1

\* From r to q, v tokens t are added for account a, or to the liquidity of shard s, which
\* may not become less than nothing.
Added(q, r, a, t, v) ==
  /\ q \in Results /\ q.ok = r.ok /\ q.liquidity = r.liquidity
  /\ \A x \in Accounts, u \in Tokens :
       q.quantity[x][u] = IF x = a /\ u = t THEN r.quantity[x][u] + v ELSE r.quantity[x][u]

Counted(q, r, s, t, v) ==
  /\ q \in Results /\ q.quantity = r.quantity
  /\ q.ok = (r.ok /\ (t \in NFTs => r.liquidity[s][t] + v >= 0))
  /\ \A z \in Shards, u \in NFTs :
       q.liquidity[z][u] = IF z = s /\ u = t THEN r.liquidity[z][u] + v ELSE r.liquidity[z][u]

LEMMA AddQuantityDoes ==
  ASSUME NEW r \in Results, NEW a \in Accounts, NEW t \in Tokens, NEW v \in Int
  PROVE  Added(AddQuantity(r, a, t, v), r, a, t, v)
<1> DEFINE q == AddQuantity(r, a, t, v)
           f == [r.quantity EXCEPT ![a] = [r.quantity[a] EXCEPT ![t] = r.quantity[a][t] + v]]
<1>1. q = [r EXCEPT !.quantity = f]
  BY DEF AddQuantity
<1>2. f \in [Accounts -> [Tokens -> Int]]
  BY ResultFields
<1>3. \A x \in Accounts, u \in Tokens :
        f[x][u] = IF x = a /\ u = t THEN r.quantity[x][u] + v ELSE r.quantity[x][u]
  BY ResultFields
<1> HIDE DEF f, q
<1>4. q \in Results /\ q.ok = r.ok /\ q.liquidity = r.liquidity /\ q.quantity = f
  BY <1>1, <1>2, SetQuantity
<1>5. Added(q, r, a, t, v)
  BY <1>3, <1>4 DEF Added
<1>6. QED
  BY <1>5 DEF q

LEMMA AddLiquidityDoes ==
  ASSUME NEW r \in Results, NEW a \in Accounts, NEW t \in Tokens, NEW v \in Int
  PROVE  Counted(AddLiquidity(r, a, t, v), r, ShardOf[a], t, v)
<1>1. CASE t \in Fungibles
  <2>1. AddLiquidity(r, a, t, v) = r /\ t \notin NFTs /\ \A u \in NFTs : u # t
    BY <1>1, MultiAssumption DEF AddLiquidity
  <2>2. QED
    BY <2>1, ResultFields DEF Counted
<1>2. CASE t \notin Fungibles
  <2> DEFINE s == ShardOf[a]
             q == AddLiquidity(r, a, t, v)
             g == [r.liquidity EXCEPT ![s] = [r.liquidity[s] EXCEPT ![t] = r.liquidity[s][t] + v]]
             p == [r EXCEPT !.liquidity = g]
             ok == r.ok /\ r.liquidity[s][t] + v >= 0
  <2>1. q = [p EXCEPT !.ok = ok] /\ ok \in BOOLEAN
    BY <1>2, ResultFields DEF AddLiquidity
  <2>2. s \in Shards /\ t \in NFTs
    BY <1>2, MultiAssumption DEF Tokens
  <2>3. g \in [Shards -> [NFTs -> Int]]
    BY <2>2, ResultFields
  <2>4. \A z \in Shards, u \in NFTs :
          g[z][u] = IF z = s /\ u = t THEN r.liquidity[z][u] + v ELSE r.liquidity[z][u]
    BY <2>2, ResultFields
  <2>0. p = [r EXCEPT !.liquidity = g]
    OBVIOUS
  <2> HIDE DEF g, p, q, ok
  <2>5. q \in Results /\ q.ok = ok /\ q.quantity = r.quantity /\ q.liquidity = g
    <3>1. p \in Results /\ p.quantity = r.quantity /\ p.liquidity = g
      BY <2>0, <2>3, SetLiquidity
    <3>2. QED
      BY <2>1, <3>1, SetOk
  <2>6. q.ok = (r.ok /\ (t \in NFTs => r.liquidity[s][t] + v >= 0))
    BY <2>2, <2>5 DEF ok
  <2>7. Counted(q, r, s, t, v)
    BY <2>4, <2>5, <2>6 DEF Counted
  <2>8. QED
    BY <2>7 DEF q
<1>3. QED
  BY <1>1, <1>2

\* The parts of the sender and of the destination.
Debited(q, r, a, e) ==
  /\ q \in Results /\ q.liquidity = r.liquidity
  /\ q.ok = (/\ r.ok /\ e.val > 0 /\ r.quantity[a][e.token] >= e.val
             /\ ~Stopped(a, e.token, FALSE))
  /\ \A x \in Accounts, t \in Tokens :
       q.quantity[x][t] = IF x = a THEN r.quantity[x][t] - Part(e, t) ELSE r.quantity[x][t]

Credited(q, r, a, e, ret) ==
  /\ q \in Results /\ q.liquidity = r.liquidity
  /\ q.ok = (r.ok /\ ~Stopped(a, e.token, ret))
  /\ \A x \in Accounts, t \in Tokens :
       q.quantity[x][t] = IF x = a THEN r.quantity[x][t] + Part(e, t) ELSE r.quantity[x][t]

LEMMA DebitDoes ==
  ASSUME NEW r \in Results, NEW a \in Accounts, NEW e \in Entries
  PROVE  Debited(Debit(r, a, e), r, a, e)
<1> DEFINE d == Debit(r, a, e)
           q == AddQuantity(r, a, e.token, -e.val)
           ok == /\ r.ok /\ e.val > 0 /\ r.quantity[a][e.token] >= e.val
                 /\ ~Stopped(a, e.token, FALSE)
<1>0. e.token \in Tokens /\ e.val \in Int /\ -e.val \in Int
  BY EntryFields
<1>1. Added(q, r, a, e.token, -e.val)
  BY <1>0, AddQuantityDoes
<1>2. Debit(r, a, e) = [q EXCEPT !.ok = q.ok /\ e.val > 0 /\ r.quantity[a][e.token] >= e.val
                                      /\ ~Stopped(a, e.token, FALSE)]
  BY DEF Debit
<1>3. d = [q EXCEPT !.ok = ok] /\ ok \in BOOLEAN
  BY <1>1, <1>2, ResultFields DEF Added
<1> HIDE DEF d, q, ok
<1>4. d \in Results /\ d.ok = ok /\ d.quantity = q.quantity /\ d.liquidity = q.liquidity
  BY <1>1, <1>3, SetOk DEF Added
<1>5. \A x \in Accounts, t \in Tokens :
        d.quantity[x][t] = IF x = a THEN r.quantity[x][t] - Part(e, t) ELSE r.quantity[x][t]
  <2> TAKE x \in Accounts, t \in Tokens
  <2>1. r.quantity[x][t] \in Int
    BY ResultFields
  <2>2. QED
    BY <1>0, <1>1, <1>4, <2>1 DEF Part, Added
<1>6. Debited(d, r, a, e)
  BY <1>1, <1>4, <1>5 DEF Debited, Added, ok
<1>7. QED
  BY <1>6 DEF d

LEMMA CreditDoes ==
  ASSUME NEW r \in Results, NEW a \in Accounts, NEW e \in Entries, NEW ret
  PROVE  Credited(Credit(r, a, e, ret), r, a, e, ret)
<1> DEFINE d == Credit(r, a, e, ret)
           q == AddQuantity(r, a, e.token, e.val)
           ok == r.ok /\ ~Stopped(a, e.token, ret)
<1>0. e.token \in Tokens /\ e.val \in Int /\ -e.val \in Int
  BY EntryFields
<1>1. Added(q, r, a, e.token, e.val)
  BY <1>0, AddQuantityDoes
<1>2. Credit(r, a, e, ret) = [q EXCEPT !.ok = q.ok /\ ~Stopped(a, e.token, ret)]
  BY DEF Credit
<1>3. d = [q EXCEPT !.ok = ok] /\ ok \in BOOLEAN
  BY <1>1, <1>2, ResultFields DEF Added
<1> HIDE DEF d, q, ok
<1>4. d \in Results /\ d.ok = ok /\ d.quantity = q.quantity /\ d.liquidity = q.liquidity
  BY <1>1, <1>3, SetOk DEF Added
<1>5. \A x \in Accounts, t \in Tokens :
        d.quantity[x][t] = IF x = a THEN r.quantity[x][t] + Part(e, t) ELSE r.quantity[x][t]
  <2> TAKE x \in Accounts, t \in Tokens
  <2>1. r.quantity[x][t] \in Int
    BY ResultFields
  <2>2. QED
    BY <1>0, <1>1, <1>4, <2>1 DEF Part, Added
<1>6. Credited(d, r, a, e, ret)
  BY <1>1, <1>4, <1>5 DEF Credited, Added, ok
<1>7. QED
  BY <1>6 DEF d

LEMMA MoveSteps ==
  ASSUME NEW r \in Results, NEW a \in Accounts, NEW b \in Accounts, a # b, NEW e \in Entries
  PROVE  /\ Move(r, a, b, e) \in Results
         /\ Stepped(r, Move(r, a, b, e), e, {a}, {b}, {}, {})
         /\ Move(r, a, b, e).ok =
              (/\ r.ok /\ e.val > 0 /\ r.quantity[a][e.token] >= e.val
               /\ ~Stopped(a, e.token, FALSE) /\ ~Stopped(b, e.token, FALSE))
<1> DEFINE d == Debit(r, a, e)
           q == Credit(d, b, e, FALSE)
<1>1. Debited(d, r, a, e)
  BY DebitDoes
<1> HIDE DEF d
<1>2. Credited(q, d, b, e, FALSE)
  <2>1. d \in Results
    BY <1>1 DEF Debited
  <2>2. QED
    BY <2>1, CreditDoes
<1> HIDE DEF q
<1>3. q.ok = (/\ r.ok /\ e.val > 0 /\ r.quantity[a][e.token] >= e.val
              /\ ~Stopped(a, e.token, FALSE) /\ ~Stopped(b, e.token, FALSE))
  BY <1>1, <1>2 DEF Debited, Credited
<1>4. \A x \in Accounts, t \in Tokens :
        /\ x = a => q.quantity[x][t] = r.quantity[x][t] - Part(e, t)
        /\ x = b => q.quantity[x][t] = r.quantity[x][t] + Part(e, t)
        /\ x # a /\ x # b => q.quantity[x][t] = r.quantity[x][t]
  BY <1>1, <1>2 DEF Debited, Credited
<1>5. Stepped(r, q, e, {a}, {b}, {}, {})
  BY <1>1, <1>2, <1>3, <1>4 DEF Stepped, Debited, Credited
<1>6. Move(r, a, b, e) = q
  BY DEF Move, q, d
<1>7. QED
  BY <1>2, <1>3, <1>5, <1>6 DEF Credited

LEMMA LeaveSteps ==
  ASSUME NEW r \in Results, NEW a \in Accounts, NEW e \in Entries
  PROVE  /\ Leave(r, a, e) \in Results
         /\ Stepped(r, Leave(r, a, e), e, {a}, {}, {ShardOf[a]}, {})
<1> DEFINE d == Debit(r, a, e)
           q == AddLiquidity(d, a, e.token, -e.val)
<1>0. e.token \in Tokens /\ e.val \in Int /\ -e.val \in Int
  BY EntryFields
<1>1. Debited(d, r, a, e)
  BY DebitDoes
<1> HIDE DEF d
<1>2. d \in Results
  BY <1>1 DEF Debited
<1>3. Counted(q, d, ShardOf[a], e.token, -e.val)
  BY <1>0, <1>2, AddLiquidityDoes
<1> HIDE DEF q
<1>4. \A x \in Accounts, t \in Tokens :
        /\ x = a => q.quantity[x][t] = r.quantity[x][t] - Part(e, t)
        /\ x # a => q.quantity[x][t] = r.quantity[x][t]
  BY <1>1, <1>3 DEF Debited, Counted
<1>5. ASSUME NEW s \in Shards, NEW t \in NFTs
      PROVE  /\ s = ShardOf[a] => q.liquidity[s][t] = r.liquidity[s][t] - Part(e, t)
             /\ s # ShardOf[a] => q.liquidity[s][t] = r.liquidity[s][t]
  <2>1. r.liquidity[s][t] \in Int
    BY ResultFields
  <2>2. QED
    BY <1>0, <1>1, <1>3, <2>1 DEF Part, Debited, Counted
<1>6. Stepped(r, q, e, {a}, {}, {ShardOf[a]}, {})
  BY <1>1, <1>3, <1>4, <1>5 DEF Stepped, Debited, Counted
<1>7. Leave(r, a, e) = q
  BY DEF Leave, q, d
<1>8. QED
  BY <1>3, <1>6, <1>7 DEF Counted

LEMMA ArriveSteps ==
  ASSUME NEW r \in Results, NEW a \in Accounts, NEW e \in Entries, NEW ret
  PROVE  /\ Arrive(r, a, e, ret) \in Results
         /\ Stepped(r, Arrive(r, a, e, ret), e, {}, {a}, {}, {ShardOf[a]})
         /\ Arrive(r, a, e, ret).ok =
              (/\ r.ok /\ ~Stopped(a, e.token, ret)
               /\ e.token \in NFTs => r.liquidity[ShardOf[a]][e.token] + e.val >= 0)
<1> DEFINE d == Credit(r, a, e, ret)
           q == AddLiquidity(d, a, e.token, e.val)
<1>0. e.token \in Tokens /\ e.val \in Int
  BY EntryFields
<1>1. Credited(d, r, a, e, ret)
  BY CreditDoes
<1> HIDE DEF d
<1>2. d \in Results
  BY <1>1 DEF Credited
<1>3. Counted(q, d, ShardOf[a], e.token, e.val)
  BY <1>0, <1>2, AddLiquidityDoes
<1> HIDE DEF q
<1>4. \A x \in Accounts, t \in Tokens :
        /\ x = a => q.quantity[x][t] = r.quantity[x][t] + Part(e, t)
        /\ x # a => q.quantity[x][t] = r.quantity[x][t]
  BY <1>1, <1>3 DEF Credited, Counted
<1>5. ASSUME NEW s \in Shards, NEW t \in NFTs
      PROVE  /\ s = ShardOf[a] => q.liquidity[s][t] = r.liquidity[s][t] + Part(e, t)
             /\ s # ShardOf[a] => q.liquidity[s][t] = r.liquidity[s][t]
  <2>1. r.liquidity[s][t] \in Int
    BY ResultFields
  <2>2. QED
    BY <1>0, <1>1, <1>3, <2>1 DEF Part, Credited, Counted
<1>6. Stepped(r, q, e, {}, {a}, {}, {ShardOf[a]})
  BY <1>1, <1>3, <1>4, <1>5 DEF Stepped, Credited, Counted
<1>7. Arrive(r, a, e, ret) = q
  BY DEF Arrive, q, d
<1>8. q.ok = (/\ r.ok /\ ~Stopped(a, e.token, ret)
              /\ e.token \in NFTs => r.liquidity[ShardOf[a]][e.token] + e.val >= 0)
  BY <1>1, <1>3 DEF Credited, Counted
<1>9. QED
  BY <1>3, <1>6, <1>7, <1>8 DEF Counted

-----------------------------------------------------------------------------
(* What a list does                                                        *)

\* What the first k entries of a list have of token t.
PartOf(list, t) == [i \in DOMAIN list |-> IF list[i].token = t THEN list[i].val ELSE 0]
UpTo(list, k, t) == SumFunctionOnSet(PartOf(list, t), 1..k)

LEMMA ListForm ==
  ASSUME NEW list \in Lists
  PROVE  \E n \in Nat : n > 0 /\ DOMAIN list = 1..n /\ list \in [1..n -> Entries]
<1>1. PICK m \in 0..MaxEntries : list \in [1..m -> Entries]
  BY DEF Lists, SeqOf
<1>2. m \in Nat
  BY MultiAssumption
<1>3. m # 0
  <2> SUFFICES ASSUME m = 0 PROVE FALSE
    OBVIOUS
  <2>1. 1..m = {}
    OBVIOUS
  <2>2. list = <<>>
    BY <1>1, <2>1
  <2>3. QED
    BY <2>2 DEF Lists
<1>4. QED
  BY <1>1, <1>2, <1>3

LEMMA PartialSums ==
  ASSUME NEW n \in Nat, NEW list \in [1..n -> Entries], NEW t \in Tokens
  PROVE  /\ UpTo(list, 0, t) = 0 /\ UpTo(list, n, t) = Sum(list, t)
         /\ \A k \in 0..n : UpTo(list, k, t) \in Nat
         /\ \A k \in 0..(n - 1) : /\ UpTo(list, k + 1, t) = UpTo(list, k, t) + Part(list[k + 1], t)
                                  /\ Part(list[k + 1], t) \in Nat
<1> DEFINE f == PartOf(list, t)
<1>1. \A i \in 1..n : f[i] = Part(list[i], t) /\ f[i] \in Nat
  BY EntryFields DEF PartOf, Part
<1>2. DOMAIN f = 1..n
  BY DEF PartOf
<1>3. \A k \in 0..n : IsFiniteSet(1..k) /\ 1..k \subseteq 1..n
  <2> TAKE k \in 0..n
  <2>1. 1 \in Int /\ k \in Int
    OBVIOUS
  <2>2. QED
    BY <2>1, FS_Interval
<1>4. Sum(list, t) = SumFunctionOnSet(f, 1..n)
  BY <1>2, Zenon DEF Sum, SumFunction, PartOf
<1> HIDE DEF f
<1>5. UpTo(list, 0, t) = 0
  BY PrefixMax, SumEmpty DEF UpTo
<1>6. \A k \in 0..n : UpTo(list, k, t) \in Nat
  BY <1>1, <1>3, SumNat DEF UpTo, f
<1>7. ASSUME NEW k \in 0..(n - 1)
      PROVE  /\ UpTo(list, k + 1, t) = UpTo(list, k, t) + Part(list[k + 1], t)
             /\ Part(list[k + 1], t) \in Nat
  <2>1. k \in Nat /\ k + 1 \in 1..n /\ k + 1 \notin 1..k /\ (1..k) \cup {k + 1} = 1..(k + 1)
    OBVIOUS
  <2>2. IsFiniteSet(1..k) /\ \A x \in (1..k) \cup {k + 1} : f[x] \in Int
    BY <1>1, <1>3, <2>1
  <2>3. SumFunctionOnSet(f, (1..k) \cup {k + 1}) = SumFunctionOnSet(f, 1..k) + f[k + 1]
    BY <2>1, <2>2, SumAdd
  <2>4. QED
    BY <1>1, <2>1, <2>3 DEF UpTo, f
<1>8. QED
  BY <1>4, <1>5, <1>6, <1>7 DEF UpTo, f

\* h has the results after the first entries of list, one after the other.
Running(h, n, list, A, B, U, W) ==
  /\ h[0] = Start
  /\ \A k \in 0..n : h[k] \in Results
  /\ \A k \in 0..(n - 1) : Stepped(h[k], h[k + 1], list[k + 1], A, B, U, W)

\* What a list as a whole takes from the accounts A and gives to the accounts B.
RanUpTo(r, list, k, A, B, U, W) ==
  /\ \A x \in Accounts, t \in Tokens :
       /\ x \in A => r.quantity[x][t] = store.quantity[x][t] - UpTo(list, k, t)
       /\ x \in B => r.quantity[x][t] = store.quantity[x][t] + UpTo(list, k, t)
       /\ x \notin A \cup B => r.quantity[x][t] = store.quantity[x][t]
       /\ r.ok => r.quantity[x][t] >= 0
  /\ \A s \in Shards, t \in NFTs :
       /\ s \in U => r.liquidity[s][t] = store.liquidity[s][t] - UpTo(list, k, t)
       /\ s \in W => r.liquidity[s][t] = store.liquidity[s][t] + UpTo(list, k, t)
       /\ s \notin U \cup W => r.liquidity[s][t] = store.liquidity[s][t]

LEMMA StoreFields ==
  ASSUME TypeOK
  PROVE  /\ store.quantity \in [Accounts -> [Tokens -> Nat]]
         /\ store.liquidity \in [Shards -> [NFTs -> Nat]]
         /\ Start \in Results /\ Start.ok = TRUE
         /\ Start.quantity = store.quantity /\ Start.liquidity = store.liquidity
<1>1. /\ store.quantity \in [Accounts -> [Tokens -> Nat]]
      /\ store.liquidity \in [Shards -> [NFTs -> Nat]]
  BY DEF TypeOK, Stores
<1>2. /\ store.quantity \in [Accounts -> [Tokens -> Int]]
      /\ store.liquidity \in [Shards -> [NFTs -> Int]]
  BY <1>1
<1>3. QED
  BY <1>1, <1>2 DEF Start, Results

LEMMA ListRun ==
  ASSUME TypeOK, NEW n \in Nat, NEW list \in [1..n -> Entries], NEW h,
         NEW A, NEW B, NEW U, NEW W, A \cap B = {}, U \cap W = {},
         Running(h, n, list, A, B, U, W)
  PROVE  \A k \in 0..n : RanUpTo(h[k], list, k, A, B, U, W)
<1> DEFINE N == {k \in Nat : k <= n => RanUpTo(h[k], list, k, A, B, U, W)}
<1>1. 0 \in N
  <2>1. \A t \in Tokens : UpTo(list, 0, t) = 0
    BY PartialSums
  <2>2. \A x \in Accounts, t \in Tokens : store.quantity[x][t] \in Nat
    BY StoreFields
  <2>3. \A s \in Shards, t \in NFTs : store.liquidity[s][t] \in Nat /\ t \in Tokens
    BY StoreFields DEF Tokens
  <2>4. h[0] = Start
    BY DEF Running
  <2>5. RanUpTo(h[0], list, 0, A, B, U, W)
    BY <2>1, <2>2, <2>3, <2>4, StoreFields DEF RanUpTo
  <2>6. QED
    BY <2>5
<1>2. ASSUME NEW k \in Nat, k \in N PROVE k + 1 \in N
  <2> SUFFICES ASSUME k + 1 <= n PROVE RanUpTo(h[k + 1], list, k + 1, A, B, U, W)
    OBVIOUS
  <2> DEFINE r == h[k]
             q == h[k + 1]
             e == list[k + 1]
  <2>1. /\ RanUpTo(r, list, k, A, B, U, W) /\ Stepped(r, q, e, A, B, U, W)
        /\ r \in Results /\ q \in Results /\ e \in Entries
    BY <1>2 DEF Running
  <2>2. \A t \in Tokens : /\ UpTo(list, k, t) \in Nat /\ Part(e, t) \in Nat
                          /\ UpTo(list, k + 1, t) = UpTo(list, k, t) + Part(e, t)
    <3> TAKE t \in Tokens
    <3>1. k \in 0..n /\ k \in 0..(n - 1)
      OBVIOUS
    <3>2. /\ \A j \in 0..n : UpTo(list, j, t) \in Nat
          /\ \A j \in 0..(n - 1) : /\ UpTo(list, j + 1, t) = UpTo(list, j, t) + Part(list[j + 1], t)
                                   /\ Part(list[j + 1], t) \in Nat
      BY PartialSums
    <3>3. QED
      BY <3>1, <3>2
  <2> HIDE DEF r, q, e
  <2>3. ASSUME NEW x \in Accounts, NEW t \in Tokens
        PROVE  /\ x \in A => q.quantity[x][t] = store.quantity[x][t] - UpTo(list, k + 1, t)
               /\ x \in B => q.quantity[x][t] = store.quantity[x][t] + UpTo(list, k + 1, t)
               /\ x \notin A \cup B => q.quantity[x][t] = store.quantity[x][t]
               /\ q.ok => q.quantity[x][t] >= 0
    <3> DEFINE u == UpTo(list, k, t)
               v == UpTo(list, k + 1, t)
               p == Part(e, t)
               x0 == store.quantity[x][t]
               x1 == r.quantity[x][t]
               x2 == q.quantity[x][t]
    <3>1. u \in Nat /\ p \in Nat /\ v = u + p /\ (t = e.token => p = e.val) /\ (t # e.token => p = 0)
      BY <2>2 DEF Part
    <3>2. x0 \in Nat /\ x1 \in Int /\ x2 \in Int
      BY <2>1, StoreFields, ResultFields
    <3>3. /\ x \in A => x1 = x0 - u
          /\ x \in B => x1 = x0 + u
          /\ x \notin A \cup B => x1 = x0
          /\ r.ok => x1 >= 0
      BY <2>1 DEF RanUpTo
    <3>4. /\ x \in A => x2 = x1 - p
          /\ x \in B => x2 = x1 + p
          /\ x \notin A \cup B => x2 = x1
          /\ q.ok => r.ok /\ (x \in A /\ t = e.token => x1 >= e.val)
      BY <2>1 DEF Stepped
    <3> HIDE DEF u, v, p, x0, x1, x2
    <3>5. x1 = x0 - u /\ x2 = x1 - p => x2 = x0 - v
      BY <3>1, <3>2
    <3>6. x1 = x0 + u /\ x2 = x1 + p => x2 = x0 + v
      BY <3>1, <3>2
    <3>7. x \in A /\ q.ok => x2 >= 0
      <4>1. CASE t = e.token
        BY <3>1, <3>2, <3>3, <3>4, <4>1
      <4>2. CASE t # e.token
        BY <3>1, <3>2, <3>3, <3>4, <4>2
      <4>3. QED
        BY <4>1, <4>2
    <3>8. x \notin A /\ q.ok => x2 >= 0
      <4>1. x \in B /\ x1 >= 0 /\ x2 = x1 + p => x2 >= 0
        BY <3>1, <3>2
      <4>2. QED
        BY <3>1, <3>2, <3>3, <3>4, <4>1
    <3>9. /\ x \in A => x2 = x0 - v
          /\ x \in B => x2 = x0 + v
          /\ x \notin A \cup B => x2 = x0
          /\ q.ok => x2 >= 0
      BY <3>3, <3>4, <3>5, <3>6, <3>7, <3>8
    <3>10. QED
      BY <3>9 DEF v, x0, x2
  <2>4. ASSUME NEW s \in Shards, NEW t \in NFTs
        PROVE  /\ s \in U => q.liquidity[s][t] = store.liquidity[s][t] - UpTo(list, k + 1, t)
               /\ s \in W => q.liquidity[s][t] = store.liquidity[s][t] + UpTo(list, k + 1, t)
               /\ s \notin U \cup W => q.liquidity[s][t] = store.liquidity[s][t]
    <3> DEFINE u == UpTo(list, k, t)
               v == UpTo(list, k + 1, t)
               p == Part(e, t)
               x0 == store.liquidity[s][t]
               x1 == r.liquidity[s][t]
               x2 == q.liquidity[s][t]
    <3>1. u \in Nat /\ p \in Nat /\ v = u + p
      BY <2>2 DEF Tokens
    <3>2. x0 \in Nat /\ x1 \in Int /\ x2 \in Int
      BY <2>1, StoreFields, ResultFields
    <3>3. /\ s \in U => x1 = x0 - u
          /\ s \in W => x1 = x0 + u
          /\ s \notin U \cup W => x1 = x0
      BY <2>1 DEF RanUpTo
    <3>4. /\ s \in U => x2 = x1 - p
          /\ s \in W => x2 = x1 + p
          /\ s \notin U \cup W => x2 = x1
      BY <2>1 DEF Stepped
    <3> HIDE DEF u, v, p, x0, x1, x2
    <3>5. x1 = x0 - u /\ x2 = x1 - p => x2 = x0 - v
      BY <3>1, <3>2
    <3>6. x1 = x0 + u /\ x2 = x1 + p => x2 = x0 + v
      BY <3>1, <3>2
    <3>7. /\ s \in U => x2 = x0 - v
          /\ s \in W => x2 = x0 + v
          /\ s \notin U \cup W => x2 = x0
      BY <3>3, <3>4, <3>5, <3>6
    <3>8. QED
      BY <3>7 DEF v, x0, x2
  <2>5. RanUpTo(q, list, k + 1, A, B, U, W)
    BY <2>3, <2>4 DEF RanUpTo
  <2>6. QED
    BY <2>5 DEF q
<1>3. \A k \in Nat : k \in N
  <2> HIDE DEF N
  <2>1. QED
    BY <1>1, <1>2, SetInduction
<1>4. QED
  BY <1>3

\* The results of a transfer within a shard, of one that leaves it and of one that arrives.
LEMMA MovedRuns ==
  ASSUME TypeOK, NEW a \in Accounts, NEW b \in Accounts, a # b,
         NEW n \in Nat, NEW list \in [1..n -> Entries]
  PROVE  \E h : /\ Running(h, n, list, {a}, {b}, {}, {})
                /\ \A k \in 0..(n - 1) : h[k + 1] = Move(h[k], a, b, list[k + 1])
                /\ h[n] = Moved(a, b, list)
<1> DEFINE F == [p \in Results \X Entries |-> Move(p[1], a, b, p[2])]
           U == SUBSET (1..n)
           Eq(iter) == iter = [s \in SUBSET (DOMAIN list) |->
                                 IF s = {} THEN Start
                                 ELSE Move(iter[s \ {Max(s)}], a, b, list[Max(s)])]
           c == CHOOSE iter : Eq(iter)
<1>0. DOMAIN list = 1..n /\ Start \in Results
  BY StoreFields
<1>1. /\ F \in [Results \X Entries -> Results]
      /\ \A r \in Results, e \in Entries : F[<<r, e>>] = Move(r, a, b, e)
  BY MoveSteps
<1> HIDE DEF F
<1>2. PICK g \in [U -> Results] : FoldsTo(g, F, Start, list, U)
  BY <1>0, <1>1, FoldExists
<1>3. Eq(g)
  <2>1. ASSUME NEW s \in U, s # {}
        PROVE  F[<<g[s \ {Max(s)}], list[Max(s)]>>] = Move(g[s \ {Max(s)}], a, b, list[Max(s)])
    <3>1. Max(s) \in s
      BY <2>1, MaxIsMember
    <3>2. s \ {Max(s)} \in U /\ list[Max(s)] \in Entries
      BY <3>1
    <3>3. QED
      BY <1>1, <3>2
  <2>2. g = [s \in U |-> IF s = {} THEN Start ELSE F[<<g[s \ {Max(s)}], list[Max(s)]>>]]
    BY <1>2 DEF FoldsTo
  <2>3. QED
    BY <1>0, <2>1, <2>2
<1>4. Eq(c)
  BY <1>3, Zenon
<1>5. Moved(a, b, list) = c[1..n]
  BY <1>0, Zenon DEF Moved, FoldLeft, MapThenFoldSet
<1> HIDE DEF c
<1>6. c[{}] = Start
  BY <1>0, <1>4
<1>7. \A k \in 0..(n - 1) : c[1..k] \in Results => c[1..(k + 1)] = F[<<c[1..k], list[k + 1]>>]
  <2> TAKE k \in 0..(n - 1)
  <2> HAVE c[1..k] \in Results
  <2> DEFINE s == 1..(k + 1)
  <2>1. s \in U /\ list[k + 1] \in Entries
    OBVIOUS
  <2>2. Max(s) = k + 1 /\ s \ {k + 1} = 1..k /\ s # {}
    <3>1. k \in Nat
      OBVIOUS
    <3>2. QED
      BY <3>1, PrefixMax
  <2> HIDE DEF s
  <2>3. c[s] = Move(c[s \ {Max(s)}], a, b, list[Max(s)])
    BY <1>0, <1>4, <2>1, <2>2
  <2>4. c[s] = F[<<c[1..k], list[k + 1]>>]
    BY <1>1, <2>1, <2>2, <2>3
  <2>5. QED
    BY <2>4 DEF s
<1> HIDE DEF Eq, U
<1>8. PICK h : Passes(h, F, Start, n, list, Results) /\ h[n] = c[1..n]
  <2>1. Start \in Results /\ F \in [Results \X Entries -> Results]
    BY <1>0, <1>1
  <2>2. FoldsOver(c, F, Start, n, list, Results, Entries)
    BY <2>1, <1>6, <1>7 DEF FoldsOver
  <2>3. QED
    BY <2>1, <2>2, FoldPasses
<1>9. \A k \in 0..(n - 1) : /\ h[k] \in Results /\ list[k + 1] \in Entries
                            /\ h[k + 1] = Move(h[k], a, b, list[k + 1])
  <2> TAKE k \in 0..(n - 1)
  <2>1. h[k] \in Results /\ list[k + 1] \in Entries /\ h[k + 1] = F[<<h[k], list[k + 1]>>]
    BY <1>8 DEF Passes
  <2>2. QED
    BY <1>1, <2>1
<1>10. Running(h, n, list, {a}, {b}, {}, {})
  BY <1>8, <1>9, MoveSteps DEF Passes, Running
<1>11. QED
  BY <1>5, <1>8, <1>9, <1>10

LEMMA LeftRuns ==
  ASSUME TypeOK, NEW a \in Accounts, NEW n \in Nat, NEW list \in [1..n -> Entries]
  PROVE  \E h : /\ Running(h, n, list, {a}, {}, {ShardOf[a]}, {})
                /\ \A k \in 0..(n - 1) : h[k + 1] = Leave(h[k], a, list[k + 1])
                /\ h[n] = Left(a, list)
<1> DEFINE F == [p \in Results \X Entries |-> Leave(p[1], a, p[2])]
           U == SUBSET (1..n)
           Eq(iter) == iter = [s \in SUBSET (DOMAIN list) |->
                                 IF s = {} THEN Start
                                 ELSE Leave(iter[s \ {Max(s)}], a, list[Max(s)])]
           c == CHOOSE iter : Eq(iter)
<1>0. DOMAIN list = 1..n /\ Start \in Results
  BY StoreFields
<1>1. /\ F \in [Results \X Entries -> Results]
      /\ \A r \in Results, e \in Entries : F[<<r, e>>] = Leave(r, a, e)
  BY LeaveSteps
<1> HIDE DEF F
<1>2. PICK g \in [U -> Results] : FoldsTo(g, F, Start, list, U)
  BY <1>0, <1>1, FoldExists
<1>3. Eq(g)
  <2>1. ASSUME NEW s \in U, s # {}
        PROVE  F[<<g[s \ {Max(s)}], list[Max(s)]>>] = Leave(g[s \ {Max(s)}], a, list[Max(s)])
    <3>1. Max(s) \in s
      BY <2>1, MaxIsMember
    <3>2. s \ {Max(s)} \in U /\ list[Max(s)] \in Entries
      BY <3>1
    <3>3. QED
      BY <1>1, <3>2
  <2>2. g = [s \in U |-> IF s = {} THEN Start ELSE F[<<g[s \ {Max(s)}], list[Max(s)]>>]]
    BY <1>2 DEF FoldsTo
  <2>3. QED
    BY <1>0, <2>1, <2>2
<1>4. Eq(c)
  BY <1>3, Zenon
<1>5. Left(a, list) = c[1..n]
  BY <1>0, Zenon DEF Left, FoldLeft, MapThenFoldSet
<1> HIDE DEF c
<1>6. c[{}] = Start
  BY <1>0, <1>4
<1>7. \A k \in 0..(n - 1) : c[1..k] \in Results => c[1..(k + 1)] = F[<<c[1..k], list[k + 1]>>]
  <2> TAKE k \in 0..(n - 1)
  <2> HAVE c[1..k] \in Results
  <2> DEFINE s == 1..(k + 1)
  <2>1. s \in U /\ list[k + 1] \in Entries
    OBVIOUS
  <2>2. Max(s) = k + 1 /\ s \ {k + 1} = 1..k /\ s # {}
    <3>1. k \in Nat
      OBVIOUS
    <3>2. QED
      BY <3>1, PrefixMax
  <2> HIDE DEF s
  <2>3. c[s] = Leave(c[s \ {Max(s)}], a, list[Max(s)])
    BY <1>0, <1>4, <2>1, <2>2
  <2>4. c[s] = F[<<c[1..k], list[k + 1]>>]
    BY <1>1, <2>1, <2>2, <2>3
  <2>5. QED
    BY <2>4 DEF s
<1> HIDE DEF Eq, U
<1>8. PICK h : Passes(h, F, Start, n, list, Results) /\ h[n] = c[1..n]
  <2>1. Start \in Results /\ F \in [Results \X Entries -> Results]
    BY <1>0, <1>1
  <2>2. FoldsOver(c, F, Start, n, list, Results, Entries)
    BY <2>1, <1>6, <1>7 DEF FoldsOver
  <2>3. QED
    BY <2>1, <2>2, FoldPasses
<1>9. \A k \in 0..(n - 1) : /\ h[k] \in Results /\ list[k + 1] \in Entries
                            /\ h[k + 1] = Leave(h[k], a, list[k + 1])
  <2> TAKE k \in 0..(n - 1)
  <2>1. h[k] \in Results /\ list[k + 1] \in Entries /\ h[k + 1] = F[<<h[k], list[k + 1]>>]
    BY <1>8 DEF Passes
  <2>2. QED
    BY <1>1, <2>1
<1>10. Running(h, n, list, {a}, {}, {ShardOf[a]}, {})
  BY <1>8, <1>9, LeaveSteps DEF Passes, Running
<1>11. QED
  BY <1>5, <1>8, <1>9, <1>10

LEMMA ArrivedRuns ==
  ASSUME TypeOK, NEW m, m.to \in Accounts, NEW n \in Nat, m.list \in [1..n -> Entries]
  PROVE  \E h : /\ Running(h, n, m.list, {}, {m.to}, {}, {ShardOf[m.to]})
                /\ \A k \in 0..(n - 1) : h[k + 1] = Arrive(h[k], m.to, m.list[k + 1], m.ret)
                /\ h[n] = Arrived(m)
<1> DEFINE F == [p \in Results \X Entries |-> Arrive(p[1], m.to, p[2], m.ret)]
           U == SUBSET (1..n)
           Eq(iter) == iter = [s \in SUBSET (DOMAIN m.list) |->
                                 IF s = {} THEN Start
                                 ELSE Arrive(iter[s \ {Max(s)}], m.to, m.list[Max(s)], m.ret)]
           c == CHOOSE iter : Eq(iter)
<1>0. DOMAIN m.list = 1..n /\ Start \in Results
  BY StoreFields
<1>1. /\ F \in [Results \X Entries -> Results]
      /\ \A r \in Results, e \in Entries : F[<<r, e>>] = Arrive(r, m.to, e, m.ret)
  BY ArriveSteps
<1> HIDE DEF F
<1>2. PICK g \in [U -> Results] : FoldsTo(g, F, Start, m.list, U)
  BY <1>0, <1>1, FoldExists
<1>3. Eq(g)
  <2>1. ASSUME NEW s \in U, s # {}
        PROVE  F[<<g[s \ {Max(s)}], m.list[Max(s)]>>] = Arrive(g[s \ {Max(s)}], m.to, m.list[Max(s)], m.ret)
    <3>1. Max(s) \in s
      BY <2>1, MaxIsMember
    <3>2. s \ {Max(s)} \in U /\ m.list[Max(s)] \in Entries
      BY <3>1
    <3>3. QED
      BY <1>1, <3>2
  <2>2. g = [s \in U |-> IF s = {} THEN Start ELSE F[<<g[s \ {Max(s)}], m.list[Max(s)]>>]]
    BY <1>2 DEF FoldsTo
  <2>3. QED
    BY <1>0, <2>1, <2>2
<1>4. Eq(c)
  BY <1>3, Zenon
<1>5. Arrived(m) = c[1..n]
  BY <1>0, Zenon DEF Arrived, FoldLeft, MapThenFoldSet
<1> HIDE DEF c
<1>6. c[{}] = Start
  BY <1>0, <1>4
<1>7. \A k \in 0..(n - 1) : c[1..k] \in Results => c[1..(k + 1)] = F[<<c[1..k], m.list[k + 1]>>]
  <2> TAKE k \in 0..(n - 1)
  <2> HAVE c[1..k] \in Results
  <2> DEFINE s == 1..(k + 1)
  <2>1. s \in U /\ m.list[k + 1] \in Entries
    OBVIOUS
  <2>2. Max(s) = k + 1 /\ s \ {k + 1} = 1..k /\ s # {}
    <3>1. k \in Nat
      OBVIOUS
    <3>2. QED
      BY <3>1, PrefixMax
  <2> HIDE DEF s
  <2>3. c[s] = Arrive(c[s \ {Max(s)}], m.to, m.list[Max(s)], m.ret)
    BY <1>0, <1>4, <2>1, <2>2
  <2>4. c[s] = F[<<c[1..k], m.list[k + 1]>>]
    BY <1>1, <2>1, <2>2, <2>3
  <2>5. QED
    BY <2>4 DEF s
<1> HIDE DEF Eq, U
<1>8. PICK h : Passes(h, F, Start, n, m.list, Results) /\ h[n] = c[1..n]
  <2>1. Start \in Results /\ F \in [Results \X Entries -> Results]
    BY <1>0, <1>1
  <2>2. FoldsOver(c, F, Start, n, m.list, Results, Entries)
    BY <2>1, <1>6, <1>7 DEF FoldsOver
  <2>3. QED
    BY <2>1, <2>2, FoldPasses
<1>9. \A k \in 0..(n - 1) : /\ h[k] \in Results /\ m.list[k + 1] \in Entries
                            /\ h[k + 1] = Arrive(h[k], m.to, m.list[k + 1], m.ret)
  <2> TAKE k \in 0..(n - 1)
  <2>1. h[k] \in Results /\ m.list[k + 1] \in Entries /\ h[k + 1] = F[<<h[k], m.list[k + 1]>>]
    BY <1>8 DEF Passes
  <2>2. QED
    BY <1>1, <2>1
<1>10. Running(h, n, m.list, {}, {m.to}, {}, {ShardOf[m.to]})
  <2>1. \A r \in Results, e \in Entries :
          Stepped(r, Arrive(r, m.to, e, m.ret), e, {}, {m.to}, {}, {ShardOf[m.to]})
    BY ArriveSteps
  <2>2. QED
    BY <1>8, <1>9, <2>1 DEF Passes, Running
<1>11. QED
  BY <1>5, <1>8, <1>9, <1>10

-----------------------------------------------------------------------------
(* What a call does                                                        *)

\* The list as a whole, as RanUpTo.
Ran(r, list, A, B, U, W) ==
  /\ r \in Results
  /\ \A x \in Accounts, t \in Tokens :
       /\ x \in A => r.quantity[x][t] = store.quantity[x][t] - Sum(list, t)
       /\ x \in B => r.quantity[x][t] = store.quantity[x][t] + Sum(list, t)
       /\ x \notin A \cup B => r.quantity[x][t] = store.quantity[x][t]
       /\ r.ok => r.quantity[x][t] >= 0
  /\ \A s \in Shards, t \in NFTs :
       /\ s \in U => r.liquidity[s][t] = store.liquidity[s][t] - Sum(list, t)
       /\ s \in W => r.liquidity[s][t] = store.liquidity[s][t] + Sum(list, t)
       /\ s \notin U \cup W => r.liquidity[s][t] = store.liquidity[s][t]

LEMMA ListSum ==
  ASSUME NEW list \in Lists, NEW t \in Tokens
  PROVE  Sum(list, t) \in Nat
<1>1. PICK n \in Nat : list \in [1..n -> Entries]
  BY ListForm
<1>2. n \in 0..n /\ UpTo(list, n, t) = Sum(list, t) /\ \A k \in 0..n : UpTo(list, k, t) \in Nat
  BY <1>1, PartialSums
<1>3. QED
  BY <1>2

LEMMA RunIsRan ==
  ASSUME TypeOK, NEW n \in Nat, NEW list \in [1..n -> Entries], NEW h,
         NEW A, NEW B, NEW U, NEW W, A \cap B = {}, U \cap W = {},
         Running(h, n, list, A, B, U, W)
  PROVE  Ran(h[n], list, A, B, U, W)
<1>1. n \in 0..n
  OBVIOUS
<1>2. RanUpTo(h[n], list, n, A, B, U, W)
  BY <1>1, ListRun
<1>3. h[n] \in Results
  BY <1>1 DEF Running
<1>4. \A t \in Tokens : UpTo(list, n, t) = Sum(list, t)
  BY PartialSums
<1>5. \A t \in NFTs : UpTo(list, n, t) = Sum(list, t)
  BY <1>4 DEF Tokens
<1>6. QED
  BY <1>2, <1>3, <1>4, <1>5 DEF Ran, RanUpTo

LEMMA MovedDoes ==
  ASSUME TypeOK, NEW a \in Accounts, NEW b \in Accounts, a # b, NEW list \in Lists
  PROVE  Ran(Moved(a, b, list), list, {a}, {b}, {}, {})
<1>1. PICK n \in Nat : list \in [1..n -> Entries]
  BY ListForm
<1>2. PICK h : /\ Running(h, n, list, {a}, {b}, {}, {})
               /\ \A k \in 0..(n - 1) : h[k + 1] = Move(h[k], a, b, list[k + 1])
               /\ h[n] = Moved(a, b, list)
  BY <1>1, MovedRuns
<1>3. {a} \cap {b} = {} /\ {} \cap {} = {}
  OBVIOUS
<1>4. QED
  BY <1>1, <1>2, <1>3, RunIsRan

LEMMA LeftDoes ==
  ASSUME TypeOK, NEW a \in Accounts, NEW list \in Lists
  PROVE  Ran(Left(a, list), list, {a}, {}, {ShardOf[a]}, {})
<1>1. PICK n \in Nat : list \in [1..n -> Entries]
  BY ListForm
<1>2. PICK h : Running(h, n, list, {a}, {}, {ShardOf[a]}, {}) /\ h[n] = Left(a, list)
  BY <1>1, LeftRuns
<1>3. {a} \cap {} = {} /\ {ShardOf[a]} \cap {} = {}
  OBVIOUS
<1>4. QED
  BY <1>1, <1>2, <1>3, RunIsRan

LEMMA ArrivedDoes ==
  ASSUME TypeOK, NEW m, m.to \in Accounts, m.list \in Lists
  PROVE  Ran(Arrived(m), m.list, {}, {m.to}, {}, {ShardOf[m.to]})
<1>1. PICK n \in Nat : m.list \in [1..n -> Entries]
  BY ListForm
<1>2. PICK h : Running(h, n, m.list, {}, {m.to}, {}, {ShardOf[m.to]}) /\ h[n] = Arrived(m)
  BY <1>1, ArrivedRuns
<1>3. {} \cap {m.to} = {} /\ {} \cap {ShardOf[m.to]} = {}
  OBVIOUS
<1>4. QED
  BY <1>1, <1>2, <1>3, RunIsRan

-----------------------------------------------------------------------------
(* Totals                                                                  *)

LEMMA TotalIs ==
  ASSUME NEW q, NEW H \in SUBSET Accounts, NEW t \in Tokens,
         \A x \in Accounts : q[x][t] \in Int
  PROVE  TotalOf(q, H, t) \in Int /\ ((\A x \in H : q[x][t] >= 0) => TotalOf(q, H, t) \in Nat)
<1> DEFINE f == [x \in Accounts |-> q[x][t]]
<1>1. IsFiniteSet(H) /\ \A x \in H : f[x] = q[x][t] /\ f[x] \in Int
  BY MultiAssumption, FS_Subset
<1>2. TotalOf(q, H, t) = SumFunctionOnSet(f, H)
  BY DEF TotalOf
<1> HIDE DEF f
<1>3. TotalOf(q, H, t) \in Int
  BY <1>1, <1>2, SumType
<1>4. (\A x \in H : q[x][t] >= 0) => TotalOf(q, H, t) \in Nat
  <2> SUFFICES ASSUME \A x \in H : q[x][t] >= 0 PROVE TotalOf(q, H, t) \in Nat
    OBVIOUS
  <2>1. \A x \in H : f[x] \in Nat
    BY <1>1
  <2>2. QED
    BY <1>1, <1>2, <2>1, SumNat
<1>5. QED
  BY <1>3, <1>4

\* The holdings of token t change at account a only, by v, or not among the holders H.
Changed(p, q, H, t, a, v) ==
  /\ H \subseteq Accounts /\ t \in Tokens /\ v \in Int
  /\ \A x \in Accounts : p[x][t] \in Int /\ q[x][t] \in Int
  /\ \A x \in H : q[x][t] = IF x = a THEN p[x][t] + v ELSE p[x][t]

LEMMA TotalChange ==
  ASSUME NEW p, NEW q, NEW H, NEW t, NEW a, NEW v, Changed(p, q, H, t, a, v)
  PROVE  TotalOf(q, H, t) = IF a \in H THEN TotalOf(p, H, t) + v ELSE TotalOf(p, H, t)
<1> DEFINE f == [x \in Accounts |-> p[x][t]]
           g == [x \in Accounts |-> q[x][t]]
<1>1. IsFiniteSet(H) /\ \A x \in H : f[x] = p[x][t] /\ g[x] = q[x][t] /\ f[x] \in Int /\ g[x] \in Int
  BY MultiAssumption, FS_Subset DEF Changed
<1>2. TotalOf(p, H, t) = SumFunctionOnSet(f, H) /\ TotalOf(q, H, t) = SumFunctionOnSet(g, H)
  BY DEF TotalOf
<1>3. TotalOf(p, H, t) \in Int /\ v \in Int
  BY TotalIs DEF Changed
<1> HIDE DEF f, g
<1>4. CASE a \in H
  <2>1. \A x \in H \ {a} : g[x] = f[x]
    BY <1>1 DEF Changed
  <2>2. SumFunctionOnSet(g, H) = SumFunctionOnSet(f, H) - f[a] + g[a]
    BY <1>1, <1>4, <2>1, SumChange
  <2>3. f[a] \in Int /\ g[a] = f[a] + v
    BY <1>1, <1>4 DEF Changed
  <2>4. QED
    BY <1>2, <1>3, <1>4, <2>2, <2>3
<1>5. CASE a \notin H
  <2>1. \A x \in H : g[x] = f[x]
    BY <1>1, <1>5 DEF Changed
  <2>2. QED
    BY <1>1, <1>2, <1>5, <2>1, SumAgrees
<1>6. QED
  BY <1>4, <1>5

\* What is on its way, for a set of messages.
OnWay(set, t) == SumFunction([m \in set |-> Sum(m.list, t)])

LEMMA OnWayAdd ==
  ASSUME NEW set, IsFiniteSet(set), NEW m, m \notin set, NEW t \in Tokens,
         \A x \in set \cup {m} : Sum(x.list, t) \in Int
  PROVE  /\ OnWay(set, t) \in Int
         /\ OnWay(set \cup {m}, t) = OnWay(set, t) + Sum(m.list, t)
<1> DEFINE f == [x \in set |-> Sum(x.list, t)]
           g == [x \in set \cup {m} |-> Sum(x.list, t)]
<1>1. DOMAIN f = set /\ DOMAIN g = set \cup {m}
  OBVIOUS
<1>2. OnWay(set, t) = SumFunctionOnSet(f, set) /\ OnWay(set \cup {m}, t) = SumFunctionOnSet(g, set \cup {m})
  BY <1>1, Zenon DEF OnWay, SumFunction
<1>3. /\ \A x \in set : f[x] = g[x] /\ f[x] \in Int
      /\ \A x \in set \cup {m} : g[x] \in Int
      /\ g[m] = Sum(m.list, t)
  OBVIOUS
<1> HIDE DEF f, g
<1>4. SumFunctionOnSet(f, set) = SumFunctionOnSet(g, set) /\ SumFunctionOnSet(f, set) \in Int
  BY <1>3, SumAgrees, SumType
<1>5. SumFunctionOnSet(g, set \cup {m}) = SumFunctionOnSet(g, set) + g[m]
  BY <1>3, SumAdd
<1>6. QED
  BY <1>2, <1>3, <1>4, <1>5

LEMMA OnWayRemove ==
  ASSUME NEW set, IsFiniteSet(set), NEW m \in set, NEW t \in Tokens,
         \A x \in set : Sum(x.list, t) \in Int
  PROVE  /\ OnWay(set \ {m}, t) \in Int
         /\ OnWay(set, t) = OnWay(set \ {m}, t) + Sum(m.list, t)
<1> DEFINE rest == set \ {m}
<1>1. IsFiniteSet(rest) /\ m \notin rest /\ rest \cup {m} = set
  BY FS_RemoveElement
<1> HIDE DEF rest
<1>2. \A x \in rest \cup {m} : Sum(x.list, t) \in Int
  BY <1>1
<1>3. OnWay(rest, t) \in Int /\ OnWay(rest \cup {m}, t) = OnWay(rest, t) + Sum(m.list, t)
  BY <1>1, <1>2, OnWayAdd
<1>4. QED
  BY <1>1, <1>3 DEF rest

-----------------------------------------------------------------------------
(* The invariant                                                           *)

UniqueIds == \A m, x \in inFlight : m.id = x.id => m = x

IInv == TypeOK /\ IsFiniteSet(inFlight) /\ UniqueIds /\ LiquidityCounted /\ Conservation

\* A commit of a result in which the liquidity fits.
Fits(r) == \A s \in Shards, t \in NFTs : r.liquidity[s][t] = TotalOf(r.quantity, LocalHolders(s), t)

LEMMA HoldersHere ==
  ASSUME NEW s
  PROVE  LocalHolders(s) \in SUBSET Accounts /\ \A a \in Accounts : a \in LocalHolders(s) <=> ShardOf[a] = s
  BY DEF LocalHolders

LEMMA MessageFields ==
  ASSUME NEW m \in Messages
  PROVE  m.from \in Accounts /\ m.to \in Accounts /\ m.list \in Lists /\ m.ret \in BOOLEAN
  BY DEF Messages

LEMMA RequestFields ==
  ASSUME NEW m \in Requests
  PROVE  /\ m \in Messages /\ m.id \in TransferIds /\ ~m.ret
         /\ m.from \in Accounts /\ m.to \in Accounts /\ m.list \in Lists
<1>1. CallTypes \subseteq {"direct", "async", "callback", "execute"}
  BY MultiAssumption
<1>2. Followups \subseteq {"none", "empty", "named"}
  BY MultiAssumption
<1>3. QED
  BY <1>1, <1>2 DEF Requests, Messages

LEMMA ReturnedFields ==
  ASSUME NEW m \in Messages, NEW followup \in {"none", "named"}, NEW x, x = Returned(m, followup)
  PROVE  x \in Messages /\ x.id = m.id /\ x.list = m.list /\ x.from = m.to /\ x.to = m.from /\ x.ret
<1>1. PICK c \in {"direct", "callback"} : c = IF m.call = "async" THEN "callback" ELSE "direct"
  OBVIOUS
<1>2. x = [m EXCEPT !.from = m.to, !.to = m.from, !.ret = TRUE, !.then = followup, !.call = c]
  BY <1>1 DEF Returned
<1>3. QED
  BY <1>2 DEF Messages

LEMMA CommitTypes ==
  ASSUME NEW r \in Results, Commit(r), Fits(r),
         \A x \in Accounts, t \in Tokens : r.ok => r.quantity[x][t] >= 0
  PROVE  store' \in Stores /\ LiquidityCounted' /\ store'.quantity = r.quantity
<1>1. r.ok /\ store' = [quantity |-> r.quantity, liquidity |-> r.liquidity]
  BY DEF Commit
<1>2. \A x \in Accounts, t \in Tokens : r.quantity[x][t] \in Int /\ r.quantity[x][t] >= 0
  BY <1>1, ResultFields
<1>3. r.quantity \in [Accounts -> [Tokens -> Nat]]
  BY <1>2, ResultFields
<1>4. ASSUME NEW s \in Shards, NEW t \in NFTs PROVE r.liquidity[s][t] \in Nat
  <2>1. t \in Tokens
    BY DEF Tokens
  <2>2. TotalOf(r.quantity, LocalHolders(s), t) \in Nat
    BY <1>2, <2>1, HoldersHere, TotalIs
  <2>3. QED
    BY <2>2 DEF Fits
<1>5. r.liquidity \in [Shards -> [NFTs -> Nat]]
  BY <1>4, ResultFields
<1>6. store' \in Stores
  BY <1>1, <1>3, <1>5 DEF Stores
<1>7. store'.quantity = r.quantity /\ store'.liquidity = r.liquidity
  BY <1>1
<1>8. LiquidityCounted'
  BY <1>7 DEF LiquidityCounted, Fits
<1>9. QED
  BY <1>6, <1>7, <1>8

\* The holdings after a list: what the holders H have of a token.
LEMMA MovedTotals ==
  ASSUME TypeOK, NEW list \in Lists, NEW r, NEW a \in Accounts, NEW b \in Accounts, a # b,
         Ran(r, list, {a}, {b}, {}, {}), NEW H \in SUBSET Accounts, a \in H <=> b \in H,
         NEW t \in Tokens
  PROVE  TotalOf(r.quantity, H, t) = TotalOf(store.quantity, H, t)
<1> DEFINE v == Sum(list, t)
           p == [x \in Accounts |-> [u \in Tokens |->
                   IF x = a THEN r.quantity[x][u] ELSE store.quantity[x][u]]]
<1>1. v \in Int /\ -v \in Int
  BY ListSum
<1>2. \A x \in Accounts : store.quantity[x][t] \in Int /\ r.quantity[x][t] \in Int
  BY StoreFields, ResultFields DEF Ran
<1>3. \A x \in Accounts : p[x][t] = IF x = a THEN r.quantity[x][t] ELSE store.quantity[x][t]
  OBVIOUS
<1>4. /\ r.quantity[a][t] = store.quantity[a][t] - v
      /\ r.quantity[b][t] = store.quantity[b][t] + v
      /\ \A x \in Accounts : x # a /\ x # b => r.quantity[x][t] = store.quantity[x][t]
  BY DEF Ran
<1> HIDE DEF v, p
<1>5. \A x \in H : p[x][t] = IF x = a THEN store.quantity[x][t] + (-v) ELSE store.quantity[x][t]
  BY <1>1, <1>2, <1>3, <1>4
<1>6. \A x \in H : r.quantity[x][t] = IF x = b THEN p[x][t] + v ELSE p[x][t]
  BY <1>1, <1>2, <1>3, <1>4
<1>7. \A x \in Accounts : p[x][t] \in Int
  BY <1>2, <1>3
<1>8. TotalOf(p, H, t) = IF a \in H THEN TotalOf(store.quantity, H, t) + (-v) ELSE TotalOf(store.quantity, H, t)
  <2>1. Changed(store.quantity, p, H, t, a, -v)
    BY <1>1, <1>2, <1>5, <1>7 DEF Changed
  <2>2. QED
    BY <2>1, TotalChange
<1>9. TotalOf(r.quantity, H, t) = IF b \in H THEN TotalOf(p, H, t) + v ELSE TotalOf(p, H, t)
  <2>1. Changed(p, r.quantity, H, t, b, v)
    BY <1>1, <1>2, <1>6, <1>7 DEF Changed
  <2>2. QED
    BY <2>1, TotalChange
<1>10. TotalOf(store.quantity, H, t) \in Int
  BY <1>2, TotalIs
<1>11. QED
  BY <1>1, <1>8, <1>9, <1>10

LEMMA LeftTotals ==
  ASSUME TypeOK, NEW list \in Lists, NEW r, NEW a \in Accounts,
         Ran(r, list, {a}, {}, {ShardOf[a]}, {}), NEW H \in SUBSET Accounts, NEW t \in Tokens
  PROVE  /\ TotalOf(store.quantity, H, t) \in Int
         /\ TotalOf(r.quantity, H, t) =
              IF a \in H THEN TotalOf(store.quantity, H, t) - Sum(list, t)
              ELSE TotalOf(store.quantity, H, t)
<1> DEFINE v == Sum(list, t)
<1>1. v \in Int /\ -v \in Int
  BY ListSum
<1>2. \A x \in Accounts : store.quantity[x][t] \in Int /\ r.quantity[x][t] \in Int
  BY StoreFields, ResultFields DEF Ran
<1>3. /\ r.quantity[a][t] = store.quantity[a][t] - v
      /\ \A x \in Accounts : x # a => r.quantity[x][t] = store.quantity[x][t]
  BY DEF Ran
<1> HIDE DEF v
<1>4. \A x \in H : r.quantity[x][t] =
                     IF x = a THEN store.quantity[x][t] + (-v) ELSE store.quantity[x][t]
  BY <1>1, <1>2, <1>3
<1>5. TotalOf(r.quantity, H, t) =
        IF a \in H THEN TotalOf(store.quantity, H, t) + (-v) ELSE TotalOf(store.quantity, H, t)
  <2>1. Changed(store.quantity, r.quantity, H, t, a, -v)
    BY <1>1, <1>2, <1>4 DEF Changed
  <2>2. QED
    BY <2>1, TotalChange
<1>6. TotalOf(store.quantity, H, t) \in Int
  BY <1>2, TotalIs
<1>7. TotalOf(r.quantity, H, t) =
        IF a \in H THEN TotalOf(store.quantity, H, t) - v ELSE TotalOf(store.quantity, H, t)
  BY <1>1, <1>5, <1>6
<1>8. QED
  BY <1>6, <1>7 DEF v

LEMMA ArrivedTotals ==
  ASSUME TypeOK, NEW list \in Lists, NEW r, NEW a \in Accounts,
         Ran(r, list, {}, {a}, {}, {ShardOf[a]}), NEW H \in SUBSET Accounts, NEW t \in Tokens
  PROVE  /\ TotalOf(store.quantity, H, t) \in Int
         /\ TotalOf(r.quantity, H, t) =
              IF a \in H THEN TotalOf(store.quantity, H, t) + Sum(list, t)
              ELSE TotalOf(store.quantity, H, t)
<1> DEFINE v == Sum(list, t)
<1>1. v \in Int
  BY ListSum
<1>2. \A x \in Accounts : store.quantity[x][t] \in Int /\ r.quantity[x][t] \in Int
  BY StoreFields, ResultFields DEF Ran
<1>3. /\ r.quantity[a][t] = store.quantity[a][t] + v
      /\ \A x \in Accounts : x # a => r.quantity[x][t] = store.quantity[x][t]
  BY DEF Ran
<1> HIDE DEF v
<1>4. \A x \in H : r.quantity[x][t] = IF x = a THEN store.quantity[x][t] + v ELSE store.quantity[x][t]
  BY <1>1, <1>2, <1>3
<1>5. TotalOf(r.quantity, H, t) =
        IF a \in H THEN TotalOf(store.quantity, H, t) + v ELSE TotalOf(store.quantity, H, t)
  <2>1. Changed(store.quantity, r.quantity, H, t, a, v)
    BY <1>1, <1>2, <1>4 DEF Changed
  <2>2. QED
    BY <2>1, TotalChange
<1>6. TotalOf(store.quantity, H, t) \in Int
  BY <1>2, TotalIs
<1>7. QED
  BY <1>5, <1>6 DEF v

\* After a list the liquidity still is what the shard holds.
LEMMA MovedFits ==
  ASSUME TypeOK, LiquidityCounted, NEW list \in Lists, NEW r, NEW a \in Accounts,
         NEW b \in Accounts, a # b, ShardOf[a] = ShardOf[b], Ran(r, list, {a}, {b}, {}, {})
  PROVE  Fits(r)
<1> SUFFICES ASSUME NEW s \in Shards, NEW t \in NFTs
             PROVE  r.liquidity[s][t] = TotalOf(r.quantity, LocalHolders(s), t)
  BY DEF Fits
<1>1. t \in Tokens /\ r.liquidity[s][t] = store.liquidity[s][t]
  BY DEF Tokens, Ran
<1>2. /\ LocalHolders(s) \in SUBSET Accounts
      /\ a \in LocalHolders(s) <=> b \in LocalHolders(s)
  BY HoldersHere
<1>3. TotalOf(r.quantity, LocalHolders(s), t) = TotalOf(store.quantity, LocalHolders(s), t)
  BY <1>1, <1>2, MovedTotals
<1>4. QED
  BY <1>1, <1>3 DEF LiquidityCounted

LEMMA LeftFits ==
  ASSUME TypeOK, LiquidityCounted, NEW list \in Lists, NEW r, NEW a \in Accounts,
         Ran(r, list, {a}, {}, {ShardOf[a]}, {})
  PROVE  Fits(r)
<1> SUFFICES ASSUME NEW s \in Shards, NEW t \in NFTs
             PROVE  r.liquidity[s][t] = TotalOf(r.quantity, LocalHolders(s), t)
  BY DEF Fits
<1>1. /\ t \in Tokens
      /\ r.liquidity[s][t] = IF s = ShardOf[a] THEN store.liquidity[s][t] - Sum(list, t)
                             ELSE store.liquidity[s][t]
  BY DEF Tokens, Ran
<1>2. LocalHolders(s) \in SUBSET Accounts /\ (a \in LocalHolders(s) <=> ShardOf[a] = s)
  BY HoldersHere
<1>3. TotalOf(r.quantity, LocalHolders(s), t) =
        IF a \in LocalHolders(s) THEN TotalOf(store.quantity, LocalHolders(s), t) - Sum(list, t)
        ELSE TotalOf(store.quantity, LocalHolders(s), t)
  BY <1>1, <1>2, LeftTotals
<1>4. QED
  BY <1>1, <1>2, <1>3 DEF LiquidityCounted

LEMMA ArrivedFits ==
  ASSUME TypeOK, LiquidityCounted, NEW list \in Lists, NEW r, NEW a \in Accounts,
         Ran(r, list, {}, {a}, {}, {ShardOf[a]})
  PROVE  Fits(r)
<1> SUFFICES ASSUME NEW s \in Shards, NEW t \in NFTs
             PROVE  r.liquidity[s][t] = TotalOf(r.quantity, LocalHolders(s), t)
  BY DEF Fits
<1>1. /\ t \in Tokens
      /\ r.liquidity[s][t] = IF s = ShardOf[a] THEN store.liquidity[s][t] + Sum(list, t)
                             ELSE store.liquidity[s][t]
  BY DEF Tokens, Ran
<1>2. LocalHolders(s) \in SUBSET Accounts /\ (a \in LocalHolders(s) <=> ShardOf[a] = s)
  BY HoldersHere
<1>3. TotalOf(r.quantity, LocalHolders(s), t) =
        IF a \in LocalHolders(s) THEN TotalOf(store.quantity, LocalHolders(s), t) + Sum(list, t)
        ELSE TotalOf(store.quantity, LocalHolders(s), t)
  BY <1>1, <1>2, ArrivedTotals
<1>4. QED
  BY <1>1, <1>2, <1>3 DEF LiquidityCounted

-----------------------------------------------------------------------------
(* The steps                                                               *)

Whole == \A t \in Tokens :
           TotalOf(store.quantity, Accounts, t) + OnWay(inFlight, t) = TotalOf(Endowment, Accounts, t)

LEMMA ConservationIsWhole == Conservation <=> Whole
  BY DEF Conservation, Whole, OnWay

LEMMA InitInvariant == Init => IInv
<1> SUFFICES ASSUME Init PROVE IInv
  OBVIOUS
<1>1. /\ store.quantity = Endowment /\ inFlight = {} /\ frozen = {} /\ paused = {}
      /\ store = [quantity |-> Endowment,
                  liquidity |-> [s \in Shards |-> [t \in NFTs |-> TotalOf(Endowment, LocalHolders(s), t)]]]
  BY DEF Init
<1>2. ASSUME NEW H \in SUBSET Accounts, NEW t \in Tokens PROVE TotalOf(Endowment, H, t) \in Nat
  <2>1. \A x \in Accounts : Endowment[x][t] \in Int /\ Endowment[x][t] >= 0
    BY MultiAssumption
  <2>2. QED
    BY <2>1, TotalIs
<1>3. \A s \in Shards, t \in NFTs : TotalOf(Endowment, LocalHolders(s), t) \in Nat
  BY <1>2, HoldersHere DEF Tokens
<1>4. store \in Stores
  <2> DEFINE q == [s \in Shards |-> [t \in NFTs |-> TotalOf(Endowment, LocalHolders(s), t)]]
  <2>1. q \in [Shards -> [NFTs -> Nat]]
    BY <1>3
  <2>2. store = [quantity |-> Endowment, liquidity |-> q]
    BY <1>1
  <2> HIDE DEF q
  <2>3. QED
    BY <2>1, <2>2, MultiAssumption DEF Stores
<1>5. TypeOK
  BY <1>1, <1>4 DEF TypeOK
<1>6. LiquidityCounted
  BY <1>1 DEF LiquidityCounted
<1>7. \A t \in Tokens : OnWay({}, t) = 0
  <2> TAKE t \in Tokens
  <2> DEFINE f == [m \in {} |-> Sum(m.list, t)]
  <2>1. OnWay({}, t) = SumFunctionOnSet(f, {})
    BY Zenon DEF OnWay, SumFunction
  <2> HIDE DEF f
  <2>2. QED
    BY <2>1, SumEmpty
<1>8. Whole
  <2> SUFFICES ASSUME NEW t \in Tokens
               PROVE  TotalOf(Endowment, Accounts, t) + OnWay({}, t) = TotalOf(Endowment, Accounts, t)
    BY <1>1 DEF Whole
  <2>1. TotalOf(Endowment, Accounts, t) \in Nat
    BY <1>2
  <2>2. QED
    BY <1>7, <2>1
<1>9. IsFiniteSet(inFlight) /\ UniqueIds
  BY <1>1, FS_EmptySet DEF UniqueIds
<1>10. QED
  BY <1>5, <1>6, <1>8, <1>9, ConservationIsWhole DEF IInv

\* Sums of the messages are numbers.
LEMMA OnWayNumbers ==
  ASSUME TypeOK, NEW t \in Tokens
  PROVE  \A m \in inFlight : Sum(m.list, t) \in Int
<1> TAKE m \in inFlight
<1>1. m.list \in Lists
  BY MessageFields DEF TypeOK
<1>2. QED
  BY <1>1, ListSum

LEMMA TransferStep ==
  ASSUME IInv, NEW m \in Requests, TransferInShard(m)
  PROVE  IInv'
<1>0. PICK a \in Accounts, b \in Accounts, list \in Lists :
        a = m.from /\ b = m.to /\ list = m.list
  BY RequestFields
<1>1. PICK r : r = Moved(a, b, list)
  OBVIOUS
<1>2. /\ a # b /\ ShardOf[a] = ShardOf[b] /\ Commit(r)
      /\ UNCHANGED <<frozen, paused, inFlight>>
  BY <1>0, <1>1 DEF TransferInShard
<1>3. TypeOK /\ LiquidityCounted /\ Whole
  BY ConservationIsWhole DEF IInv
<1>4. Ran(r, list, {a}, {b}, {}, {})
  BY <1>1, <1>2, <1>3, MovedDoes
<1>5. r \in Results /\ Fits(r) /\ \A x \in Accounts, t \in Tokens : r.ok => r.quantity[x][t] >= 0
  BY <1>2, <1>3, <1>4, MovedFits DEF Ran
<1>6. store' \in Stores /\ LiquidityCounted' /\ store'.quantity = r.quantity
  BY <1>2, <1>5, CommitTypes
<1>7. ASSUME NEW t \in Tokens
      PROVE  TotalOf(r.quantity, Accounts, t) = TotalOf(store.quantity, Accounts, t)
  BY <1>2, <1>3, <1>4, MovedTotals
<1>8. Whole'
  BY <1>2, <1>3, <1>6, <1>7 DEF Whole, OnWay
<1>9. TypeOK'
  BY <1>2, <1>3, <1>6 DEF TypeOK
<1>10. IsFiniteSet(inFlight)' /\ UniqueIds'
  BY <1>2 DEF IInv, UniqueIds
<1>11. Conservation'
  BY <1>8 DEF Conservation, Whole, OnWay
<1>12. QED
  BY <1>6, <1>9, <1>10, <1>11 DEF IInv

LEMMA SendStep ==
  ASSUME IInv, NEW m \in Requests, SendToOtherShard(m)
  PROVE  IInv'
<1>1. PICK a \in Accounts, list \in Lists : a = m.from /\ list = m.list
  BY RequestFields
<1>2. PICK r : r = Left(a, list)
  OBVIOUS
<1>3. Commit(r) /\ Unused(m.id) /\ inFlight' = inFlight \cup {m} /\ UNCHANGED <<frozen, paused>>
  BY <1>1, <1>2 DEF SendToOtherShard
<1>4. TypeOK /\ LiquidityCounted /\ Whole /\ IsFiniteSet(inFlight)
  BY ConservationIsWhole DEF IInv
<1>5. Ran(r, list, {a}, {}, {ShardOf[a]}, {})
  BY <1>2, <1>4, LeftDoes
<1>6. r \in Results /\ Fits(r) /\ \A x \in Accounts, t \in Tokens : r.ok => r.quantity[x][t] >= 0
  BY <1>4, <1>5, LeftFits DEF Ran
<1>7. store' \in Stores /\ LiquidityCounted' /\ store'.quantity = r.quantity
  BY <1>3, <1>6, CommitTypes
<1>8. m \in Messages /\ m.list = list
  BY <1>1, RequestFields
<1>9. m \notin inFlight
  BY <1>3, <1>8 DEF Unused
<1>10. ASSUME NEW t \in Tokens
       PROVE  TotalOf(r.quantity, Accounts, t) + OnWay(inFlight', t) = TotalOf(Endowment, Accounts, t)
  <2>1. /\ TotalOf(store.quantity, Accounts, t) \in Int
        /\ TotalOf(r.quantity, Accounts, t) = TotalOf(store.quantity, Accounts, t) - Sum(list, t)
    BY <1>4, <1>5, LeftTotals
  <2>2. Sum(list, t) \in Nat
    BY ListSum
  <2>3. \A x \in inFlight \cup {m} : Sum(x.list, t) \in Int
    BY <1>4, <1>8, <2>2, OnWayNumbers
  <2>4. OnWay(inFlight, t) \in Int /\ OnWay(inFlight \cup {m}, t) = OnWay(inFlight, t) + Sum(list, t)
    BY <1>4, <1>8, <1>9, <2>3, OnWayAdd
  <2>5. TotalOf(store.quantity, Accounts, t) + OnWay(inFlight, t) = TotalOf(Endowment, Accounts, t)
    BY <1>4 DEF Whole
  <2>6. QED
    BY <1>3, <2>1, <2>2, <2>4, <2>5
<1>11. Conservation'
  BY <1>7, <1>10 DEF Conservation, OnWay
<1>12. TypeOK'
  BY <1>3, <1>4, <1>7, <1>8 DEF TypeOK
<1>13. IsFiniteSet(inFlight')
  BY <1>3, <1>4, FS_AddElement
<1>14. UniqueIds'
  BY <1>3, <1>8 DEF IInv, UniqueIds, Unused
<1>15. QED
  BY <1>7, <1>11, <1>12, <1>13, <1>14 DEF IInv

LEMMA DeliverStep ==
  ASSUME IInv, NEW m \in inFlight, Deliver(m)
  PROVE  IInv'
<1>1. PICK r : r = Arrived(m)
  OBVIOUS
<1>2. /\ Commit(r) /\ inFlight' = inFlight \ {m} /\ paused' = paused
      /\ frozen' \subseteq frozen
  BY <1>1 DEF Deliver
<1>3. TypeOK /\ LiquidityCounted /\ Whole /\ IsFiniteSet(inFlight)
  BY ConservationIsWhole DEF IInv
<1>4. m.to \in Accounts /\ m.list \in Lists
  BY <1>3, MessageFields DEF TypeOK
<1>5. Ran(r, m.list, {}, {m.to}, {}, {ShardOf[m.to]})
  BY <1>1, <1>3, <1>4, ArrivedDoes
<1>6. r \in Results /\ Fits(r) /\ \A x \in Accounts, t \in Tokens : r.ok => r.quantity[x][t] >= 0
  BY <1>3, <1>4, <1>5, ArrivedFits DEF Ran
<1>7. store' \in Stores /\ LiquidityCounted' /\ store'.quantity = r.quantity
  BY <1>2, <1>6, CommitTypes
<1>8. ASSUME NEW t \in Tokens
      PROVE  TotalOf(r.quantity, Accounts, t) + OnWay(inFlight', t) = TotalOf(Endowment, Accounts, t)
  <2>1. /\ TotalOf(store.quantity, Accounts, t) \in Int
        /\ TotalOf(r.quantity, Accounts, t) = TotalOf(store.quantity, Accounts, t) + Sum(m.list, t)
    BY <1>3, <1>4, <1>5, ArrivedTotals
  <2>2. Sum(m.list, t) \in Nat
    BY <1>4, ListSum
  <2>3. \A x \in inFlight : Sum(x.list, t) \in Int
    BY <1>3, OnWayNumbers
  <2>4. /\ OnWay(inFlight \ {m}, t) \in Int
        /\ OnWay(inFlight, t) = OnWay(inFlight \ {m}, t) + Sum(m.list, t)
    BY <1>3, <2>3, OnWayRemove
  <2>5. TotalOf(store.quantity, Accounts, t) + OnWay(inFlight, t) = TotalOf(Endowment, Accounts, t)
    BY <1>3 DEF Whole
  <2>6. QED
    BY <1>2, <2>1, <2>2, <2>4, <2>5
<1>9. Conservation'
  BY <1>7, <1>8 DEF Conservation, OnWay
<1>10. TypeOK'
  BY <1>2, <1>3, <1>7 DEF TypeOK
<1>11. IsFiniteSet(inFlight') /\ UniqueIds'
  BY <1>2, <1>3, FS_RemoveElement DEF IInv, UniqueIds
<1>12. QED
  BY <1>7, <1>9, <1>10, <1>11 DEF IInv

LEMMA SendBackStep ==
  ASSUME IInv, NEW m \in inFlight, NEW followup \in {"none", "named"}, SendBack(m, followup)
  PROVE  IInv'
<1>1. PICK x : x = Returned(m, followup)
  OBVIOUS
<1>2. inFlight' = (inFlight \ {m}) \cup {x} /\ UNCHANGED <<store, frozen, paused>>
  BY <1>1 DEF SendBack
<1>3. TypeOK /\ LiquidityCounted /\ Whole /\ IsFiniteSet(inFlight) /\ UniqueIds /\ m \in Messages
  BY ConservationIsWhole DEF IInv, TypeOK
<1>4. x \in Messages /\ x.id = m.id /\ x.list = m.list
  BY <1>1, <1>3, ReturnedFields
<1> DEFINE rest == inFlight \ {m}
<1>5. x \notin rest /\ IsFiniteSet(rest)
  BY <1>3, <1>4, FS_RemoveElement DEF UniqueIds
<1>6. ASSUME NEW t \in Tokens PROVE OnWay(inFlight', t) = OnWay(inFlight, t)
  <2>1. \A y \in inFlight : Sum(y.list, t) \in Int
    BY <1>3, OnWayNumbers
  <2>2. /\ OnWay(rest, t) \in Int
        /\ OnWay(inFlight, t) = OnWay(rest, t) + Sum(m.list, t)
    BY <1>3, <2>1, OnWayRemove
  <2>3. \A y \in rest \cup {x} : Sum(y.list, t) \in Int
    BY <1>4, <2>1
  <2> HIDE DEF rest
  <2>4. OnWay(rest \cup {x}, t) = OnWay(rest, t) + Sum(x.list, t)
    BY <1>5, <2>3, OnWayAdd
  <2>5. QED
    BY <1>2, <1>4, <2>2, <2>4 DEF rest
<1>7. Conservation' /\ LiquidityCounted'
  BY <1>2, <1>3, <1>6 DEF Conservation, LiquidityCounted, Whole, OnWay
<1>8. TypeOK'
  BY <1>2, <1>3, <1>4 DEF TypeOK
<1>9. IsFiniteSet(inFlight')
  BY <1>2, <1>5, FS_AddElement
<1>10. UniqueIds'
  BY <1>2, <1>3, <1>4 DEF UniqueIds
<1>11. QED
  BY <1>7, <1>8, <1>9, <1>10 DEF IInv

LEMMA ToggleStep ==
  ASSUME IInv, \/ \E p \in Freezable : ToggleFreeze(p[1], p[2])
               \/ \E p \in Pausable : TogglePause(p[1], p[2])
  PROVE  IInv'
<1>1. UNCHANGED <<store, inFlight>>
  BY DEF ToggleFreeze, TogglePause
<1>2. /\ \A p \in Freezable : <<p[1], p[2]>> \in Accounts \X Tokens
      /\ \A p \in Pausable : <<p[1], p[2]>> \in Shards \X Tokens
  BY MultiAssumption
<1>3. TypeOK
  BY DEF IInv
<1>4. frozen' \subseteq Accounts \X Tokens /\ paused' \subseteq Shards \X Tokens
  <2>1. CASE \E p \in Freezable : ToggleFreeze(p[1], p[2])
    BY <1>2, <1>3, <2>1 DEF TypeOK, ToggleFreeze
  <2>2. CASE \E p \in Pausable : TogglePause(p[1], p[2])
    BY <1>2, <1>3, <2>2 DEF TypeOK, TogglePause
  <2>3. QED
    BY <2>1, <2>2
<1>5. TypeOK'
  BY <1>1, <1>3, <1>4 DEF TypeOK
<1>6. IsFiniteSet(inFlight)' /\ UniqueIds' /\ LiquidityCounted' /\ Conservation'
  BY <1>1 DEF IInv, UniqueIds, LiquidityCounted, Conservation
<1>7. QED
  BY <1>5, <1>6 DEF IInv

LEMMA NextInvariant == IInv /\ [Next]_vars => IInv'
<1> SUFFICES ASSUME IInv, [Next]_vars PROVE IInv'
  OBVIOUS
<1>1. ASSUME NEW m \in Requests, TransferInShard(m) PROVE IInv'
  BY <1>1, TransferStep
<1>2. ASSUME NEW m \in Requests, SendToOtherShard(m) PROVE IInv'
  BY <1>2, SendStep
<1>3. ASSUME NEW m \in inFlight, Deliver(m) PROVE IInv'
  BY <1>3, DeliverStep
<1>4. ASSUME NEW m \in inFlight, NEW followup \in {"none", "named"}, SendBack(m, followup)
      PROVE  IInv'
  BY <1>4, SendBackStep
<1>5. CASE \/ \E p \in Freezable : ToggleFreeze(p[1], p[2])
           \/ \E p \in Pausable : TogglePause(p[1], p[2])
  BY <1>5, ToggleStep
<1>6. CASE UNCHANGED vars
  BY <1>6 DEF IInv, TypeOK, UniqueIds, LiquidityCounted, Conservation, vars
<1>7. QED
  BY <1>1, <1>2, <1>3, <1>4, <1>5, <1>6 DEF Next

LEMMA Invariant == Spec => []IInv
  BY InitInvariant, NextInvariant, PTL DEF Spec

-----------------------------------------------------------------------------
(* What the totals of a list say                                           *)

LEMMA UpToGrows ==
  ASSUME NEW n \in Nat, NEW list \in [1..n -> Entries], NEW t \in Tokens
  PROVE  \A i \in 0..n : UpTo(list, i, t) <= UpTo(list, n, t)
<1> DEFINE N == {k \in Nat : k <= n => \A i \in 0..k : UpTo(list, i, t) <= UpTo(list, k, t)}
<1>1. 0 \in N
  <2>1. UpTo(list, 0, t) = 0 /\ \A i \in 0..0 : i = 0
    BY PartialSums
  <2>2. QED
    BY <2>1
<1>2. ASSUME NEW k \in Nat, k \in N PROVE k + 1 \in N
  <2> SUFFICES ASSUME k + 1 <= n, NEW i \in 0..(k + 1)
               PROVE  UpTo(list, i, t) <= UpTo(list, k + 1, t)
    OBVIOUS
  <2>1. k \in 0..n /\ k \in 0..(n - 1) /\ i \in 0..n
    OBVIOUS
  <2>2. /\ \A j \in 0..n : UpTo(list, j, t) \in Nat
        /\ \A j \in 0..(n - 1) : /\ UpTo(list, j + 1, t) = UpTo(list, j, t) + Part(list[j + 1], t)
                                 /\ Part(list[j + 1], t) \in Nat
    BY PartialSums
  <2> DEFINE u == UpTo(list, k, t)
             v == UpTo(list, k + 1, t)
             w == UpTo(list, i, t)
             p == Part(list[k + 1], t)
  <2>3. u \in Nat /\ p \in Nat /\ v = u + p /\ w \in Nat
    BY <2>1, <2>2
  <2>4. i = k + 1 => w = v
    OBVIOUS
  <2>5. i # k + 1 => w <= u
    BY <1>2
  <2> HIDE DEF u, v, w, p
  <2>6. w <= v
    BY <2>3, <2>4, <2>5
  <2>7. QED
    BY <2>6 DEF w, v
<1>3. \A k \in Nat : k \in N
  <2> HIDE DEF N
  <2>1. QED
    BY <1>1, <1>2, SetInduction
<1>4. QED
  BY <1>3

\* Entry i goes through after the ones before it.
EntryPasses(list, i, a, b) ==
  /\ list[i].val > 0
  /\ UpTo(list, i, list[i].token) <= store.quantity[a][list[i].token]
  /\ ~Stopped(a, list[i].token, FALSE) /\ ~Stopped(b, list[i].token, FALSE)

LEMMA OkEntryByEntry ==
  ASSUME TypeOK, NEW a \in Accounts, NEW b \in Accounts, a # b,
         NEW n \in Nat, NEW list \in [1..n -> Entries], NEW h,
         Running(h, n, list, {a}, {b}, {}, {}),
         \A k \in 0..(n - 1) : h[k + 1] = Move(h[k], a, b, list[k + 1])
  PROVE  h[n].ok <=> \A i \in 1..n : EntryPasses(list, i, a, b)
<1> DEFINE N == {k \in Nat : k <= n => (h[k].ok <=> \A i \in 1..k : EntryPasses(list, i, a, b))}
<1>0. {a} \cap {b} = {} /\ {} \cap {} = {}
  OBVIOUS
<1>1. 0 \in N
  <2>1. h[0].ok = TRUE
    BY StoreFields DEF Running
  <2>2. QED
    BY <2>1
<1>2. ASSUME NEW k \in Nat, k \in N PROVE k + 1 \in N
  <2> SUFFICES ASSUME k + 1 <= n
               PROVE  h[k + 1].ok <=> \A i \in 1..(k + 1) : EntryPasses(list, i, a, b)
    OBVIOUS
  <2> DEFINE e == list[k + 1]
             t == e.token
             x0 == store.quantity[a][t]
             x1 == h[k].quantity[a][t]
             u == UpTo(list, k, t)
             v == UpTo(list, k + 1, t)
  <2>1. k \in 0..n /\ k \in 0..(n - 1) /\ k + 1 \in 1..n
    OBVIOUS
  <2>2. e \in Entries /\ t \in Tokens /\ e.val \in Nat /\ h[k] \in Results
    BY <2>1, EntryFields DEF Running
  <2>3. h[k + 1] = Move(h[k], a, b, e)
    BY <2>1
  <2>4. h[k + 1].ok = (/\ h[k].ok /\ e.val > 0 /\ x1 >= e.val
                       /\ ~Stopped(a, t, FALSE) /\ ~Stopped(b, t, FALSE))
    <3>1. \A r \in Results, f \in Entries :
            Move(r, a, b, f).ok = (/\ r.ok /\ f.val > 0 /\ r.quantity[a][f.token] >= f.val
                                   /\ ~Stopped(a, f.token, FALSE) /\ ~Stopped(b, f.token, FALSE))
      BY MoveSteps
    <3>2. Move(h[k], a, b, e).ok = (/\ h[k].ok /\ e.val > 0 /\ x1 >= e.val
                                    /\ ~Stopped(a, t, FALSE) /\ ~Stopped(b, t, FALSE))
      BY <2>2, <3>1, Zenon
    <3>3. QED
      BY <2>3, <3>2, Zenon
  <2>5. x1 = x0 - u
    <3>1. RanUpTo(h[k], list, k, {a}, {b}, {}, {})
      BY <1>0, <2>1, ListRun
    <3>2. QED
      BY <2>2, <3>1 DEF RanUpTo
  <2>6. u \in Nat /\ v = u + e.val
    <3>1. Part(e, t) = e.val
      BY DEF Part
    <3>2. /\ \A j \in 0..n : UpTo(list, j, t) \in Nat
          /\ \A j \in 0..(n - 1) : UpTo(list, j + 1, t) = UpTo(list, j, t) + Part(list[j + 1], t)
      BY <2>2, PartialSums
    <3>3. QED
      BY <2>1, <3>1, <3>2
  <2>7. x0 \in Nat
    BY <2>2, StoreFields
  <2>8. EntryPasses(list, k + 1, a, b) <=>
          e.val > 0 /\ v <= x0 /\ ~Stopped(a, t, FALSE) /\ ~Stopped(b, t, FALSE)
    BY DEF EntryPasses
  <2>9. (\A i \in 1..(k + 1) : EntryPasses(list, i, a, b))
          <=> (\A i \in 1..k : EntryPasses(list, i, a, b)) /\ EntryPasses(list, k + 1, a, b)
    OBVIOUS
  <2>10. h[k].ok <=> \A i \in 1..k : EntryPasses(list, i, a, b)
    BY <1>2
  <2> HIDE DEF e, t, x0, x1, u, v
  <2>11. x1 >= e.val <=> v <= x0
    BY <2>2, <2>5, <2>6, <2>7
  <2>12. h[k + 1].ok \in BOOLEAN
    BY <2>1, ResultFields DEF Running
  <2>13. QED
    BY <2>4, <2>8, <2>9, <2>10, <2>11
<1>3. \A k \in Nat : k \in N
  <2> HIDE DEF N
  <2>1. QED
    BY <1>1, <1>2, SetInduction
<1>4. QED
  BY <1>3

\* A list that comes back passes entry by entry: no entry is stopped, and the liquidity
\* it is added to is not less than nothing, nor is what the entries before have added.
LEMMA ReturnTaken ==
  ASSUME TypeOK, NEW m \in Messages, m.ret
  PROVE  Arrived(m).ok
<1>1. m.to \in Accounts /\ m.list \in Lists
  BY MessageFields
<1>2. PICK n \in Nat : m.list \in [1..n -> Entries]
  BY <1>1, ListForm
<1>3. PICK h : /\ Running(h, n, m.list, {}, {m.to}, {}, {ShardOf[m.to]})
               /\ \A k \in 0..(n - 1) : h[k + 1] = Arrive(h[k], m.to, m.list[k + 1], m.ret)
               /\ h[n] = Arrived(m)
  BY <1>1, <1>2, ArrivedRuns
<1> DEFINE N == {k \in Nat : k <= n => h[k].ok}
<1>4. 0 \in N
  <2>1. h[0].ok = TRUE
    BY <1>3, StoreFields DEF Running
  <2>2. QED
    BY <2>1
<1>5. ASSUME NEW k \in Nat, k \in N PROVE k + 1 \in N
  <2> SUFFICES ASSUME k + 1 <= n PROVE h[k + 1].ok
    OBVIOUS
  <2>1. h[k].ok
    BY <1>5
  <2>2. h[k] \in Results /\ m.list[k + 1] \in Entries /\ h[k + 1] = Arrive(h[k], m.to, m.list[k + 1], m.ret)
    <3>1. k \in 0..n /\ k \in 0..(n - 1) /\ k + 1 \in 1..n
      BY <1>2
    <3>2. QED
      BY <1>2, <1>3, <3>1 DEF Running
  <2> DEFINE e == m.list[k + 1]
             s == ShardOf[m.to]
  <2>3. Arrive(h[k], m.to, e, m.ret).ok =
          (/\ h[k].ok /\ ~Stopped(m.to, e.token, m.ret)
           /\ e.token \in NFTs => h[k].liquidity[s][e.token] + e.val >= 0)
    BY <1>1, <2>2, ArriveSteps
  <2>4. ~Stopped(m.to, e.token, m.ret)
    BY DEF Stopped
  <2>5. ASSUME e.token \in NFTs PROVE h[k].liquidity[s][e.token] + e.val >= 0
    <3> DEFINE t == e.token
               x0 == store.liquidity[s][t]
               x1 == h[k].liquidity[s][t]
               u == UpTo(m.list, k, t)
    <3>1. s \in Shards /\ e.val \in Nat /\ t \in Tokens /\ t \in NFTs
      BY <1>1, <2>2, <2>5, EntryFields, MultiAssumption
    <3>2. x0 \in Nat
      BY <3>1, StoreFields
    <3>3. k \in 0..n /\ {} \cap {m.to} = {} /\ {} \cap {s} = {}
      OBVIOUS
    <3>4. RanUpTo(h[k], m.list, k, {}, {m.to}, {}, {s})
      BY <1>2, <1>3, <3>3, ListRun
    <3>5. x1 = x0 + u
      BY <3>1, <3>4 DEF RanUpTo
    <3>6. u \in Nat
      BY <1>2, <3>1, <3>3, PartialSums
    <3> HIDE DEF t, x0, x1, u
    <3>7. x1 + e.val >= 0
      BY <3>1, <3>2, <3>5, <3>6
    <3>8. QED
      BY <3>7 DEF x1, t
  <2>6. QED
    BY <2>1, <2>2, <2>3, <2>4, <2>5
<1>6. \A k \in Nat : k \in N
  <2> HIDE DEF N
  <2>1. QED
    BY <1>4, <1>5, SetInduction
<1>7. QED
  BY <1>3, <1>6

LEMMA TotalsDecide ==
  ASSUME TypeOK, NEW a \in Accounts, NEW b \in Accounts, NEW list \in Lists,
         a # b, ShardOf[a] = ShardOf[b], NEW named, named = {e.token : e \in ToSet(list)}
  PROVE  Moved(a, b, list).ok <=>
           /\ \A e \in ToSet(list) : e.val > 0
           /\ \A t \in named : Sum(list, t) <= store.quantity[a][t]
           /\ {a, b} \X named \cap frozen = {}
           /\ {ShardOf[a]} \X named \cap paused = {}
<1>1. PICK n \in Nat : list \in [1..n -> Entries]
  BY ListForm
<1>2. PICK h : /\ Running(h, n, list, {a}, {b}, {}, {})
               /\ \A k \in 0..(n - 1) : h[k + 1] = Move(h[k], a, b, list[k + 1])
               /\ h[n] = Moved(a, b, list)
  BY <1>1, MovedRuns
<1>3. Moved(a, b, list).ok <=> \A i \in 1..n : EntryPasses(list, i, a, b)
  BY <1>1, <1>2, OkEntryByEntry
<1>4. ToSet(list) = {list[i] : i \in 1..n}
  BY <1>1 DEF ToSet
<1>5. /\ named = {list[i].token : i \in 1..n}
      /\ \A t \in named : t \in Tokens
  <2>1. \A i \in 1..n : list[i].token \in Tokens
    BY <1>1, EntryFields
  <2>2. named = {list[i].token : i \in 1..n}
    BY <1>4
  <2>3. QED
    BY <2>1, <2>2
<1>6. \A i \in 1..n, t \in Tokens : UpTo(list, i, t) <= Sum(list, t) /\ UpTo(list, i, t) \in Nat
  <2> TAKE i \in 1..n, t \in Tokens
  <2>1. i \in 0..n
    OBVIOUS
  <2>2. /\ UpTo(list, n, t) = Sum(list, t)
        /\ \A k \in 0..n : UpTo(list, k, t) \in Nat
    BY <1>1, PartialSums
  <2>3. UpTo(list, i, t) <= UpTo(list, n, t)
    BY <1>1, <2>1, UpToGrows
  <2>4. QED
    BY <2>1, <2>2, <2>3
<1>7. \A t \in Tokens : Sum(list, t) \in Nat /\ store.quantity[a][t] \in Nat
  BY ListSum, StoreFields
<1>8. (\A e \in ToSet(list) : e.val > 0) <=> \A i \in 1..n : list[i].val > 0
  BY <1>4
<1>9. (/\ {a, b} \X named \cap frozen = {} /\ {ShardOf[a]} \X named \cap paused = {})
        <=> \A i \in 1..n : ~Stopped(a, list[i].token, FALSE) /\ ~Stopped(b, list[i].token, FALSE)
  <2>1. ({a, b} \X named \cap frozen = {}) <=> \A t \in named : <<a, t>> \notin frozen /\ <<b, t>> \notin frozen
    <3>1. \A t \in named : <<a, t>> \in {a, b} \X named /\ <<b, t>> \in {a, b} \X named
      OBVIOUS
    <3>2. ASSUME NEW p \in {a, b} \X named PROVE \E t \in named : p = <<a, t>> \/ p = <<b, t>>
      OBVIOUS
    <3> DEFINE pairs == {a, b} \X named
    <3> HIDE DEF pairs
    <3>3. (pairs \cap frozen = {}) <=> \A p \in pairs : p \notin frozen
      OBVIOUS
    <3>4. \A t \in named : <<a, t>> \in pairs /\ <<b, t>> \in pairs
      BY <3>1 DEF pairs
    <3>5. \A p \in pairs : \E t \in named : p = <<a, t>> \/ p = <<b, t>>
      BY <3>2 DEF pairs
    <3>6. (pairs \cap frozen = {}) <=> \A t \in named : <<a, t>> \notin frozen /\ <<b, t>> \notin frozen
      BY <3>3, <3>4, <3>5
    <3>7. QED
      BY <3>6 DEF pairs
  <2>2. ({ShardOf[a]} \X named \cap paused = {}) <=> \A t \in named : <<ShardOf[a], t>> \notin paused
    OBVIOUS
  <2>3. \A i \in 1..n : (~Stopped(a, list[i].token, FALSE) /\ ~Stopped(b, list[i].token, FALSE)) <=>
          /\ <<a, list[i].token>> \notin frozen /\ <<b, list[i].token>> \notin frozen
          /\ <<ShardOf[a], list[i].token>> \notin paused
    BY DEF Stopped
  <2>4. QED
    BY <1>5, <2>1, <2>2, <2>3
<1>10. ASSUME \A i \in 1..n : EntryPasses(list, i, a, b)
       PROVE  /\ \A i \in 1..n : list[i].val > 0
              /\ \A t \in named : Sum(list, t) <= store.quantity[a][t]
              /\ \A i \in 1..n : ~Stopped(a, list[i].token, FALSE) /\ ~Stopped(b, list[i].token, FALSE)
  <2>1. Moved(a, b, list).ok /\ Ran(Moved(a, b, list), list, {a}, {b}, {}, {})
    BY <1>3, <1>10, MovedDoes
  <2>2. ASSUME NEW t \in named PROVE Sum(list, t) <= store.quantity[a][t]
    <3> DEFINE x == Moved(a, b, list).quantity[a][t]
               x0 == store.quantity[a][t]
               v == Sum(list, t)
    <3>1. t \in Tokens
      BY <1>5
    <3>2. x >= 0 /\ x = x0 - v
      BY <2>1, <3>1 DEF Ran
    <3>3. x0 \in Nat /\ v \in Nat
      BY <1>7, <3>1
    <3> HIDE DEF x, x0, v
    <3>4. v <= x0
      BY <3>2, <3>3
    <3>5. QED
      BY <3>4 DEF v, x0
  <2>3. QED
    BY <1>10, <2>2 DEF EntryPasses
<1>11. ASSUME \A i \in 1..n : list[i].val > 0,
              \A t \in named : Sum(list, t) <= store.quantity[a][t],
              \A i \in 1..n : ~Stopped(a, list[i].token, FALSE) /\ ~Stopped(b, list[i].token, FALSE)
       PROVE  \A i \in 1..n : EntryPasses(list, i, a, b)
  <2> TAKE i \in 1..n
  <2> DEFINE t == list[i].token
             x0 == store.quantity[a][t]
             v == Sum(list, t)
             u == UpTo(list, i, t)
  <2>1. t \in named /\ t \in Tokens
    BY <1>5
  <2>2. v <= x0 /\ u <= v /\ u \in Nat /\ v \in Nat /\ x0 \in Nat
    BY <1>6, <1>7, <1>11, <2>1
  <2> HIDE DEF x0, v, u
  <2>3. u <= x0
    BY <2>2
  <2>4. UpTo(list, i, t) <= store.quantity[a][t]
    BY <2>3 DEF u, x0
  <2>5. QED
    BY <1>11, <2>4 DEF EntryPasses
<1>12. QED
  BY <1>3, <1>8, <1>9, <1>10, <1>11

-----------------------------------------------------------------------------
(* Theorems                                                                *)

\* What the shards keep, and the messages between them, always have their types: no
\* list leaves an account or the liquidity of a shard below zero.
THEOREM TypeCorrect == Spec => []TypeOK
<1>1. IInv => TypeOK
  BY DEF IInv
<1>2. QED
  BY <1>1, Invariant, PTL

\* Lists of any length, that name a token any number of times, fail at any entry and
\* come back, neither make nor lose tokens.
THEOREM TokensConserved == Spec => []Conservation
<1>1. IInv => Conservation
  BY DEF IInv
<1>2. QED
  BY <1>1, Invariant, PTL

\* The liquidity that a shard has been told of a token is what its accounts hold.
THEOREM LiquidityTold == Spec => []LiquidityCounted
<1>1. IInv => LiquidityCounted
  BY DEF IInv
<1>2. QED
  BY <1>1, Invariant, PTL

\* A list that comes back is taken whole, whatever was frozen, paused or moved since,
\* and since FixAsyncCallbackCheck also where no payment is accepted (mustVerifyPayable,
\* checkFrozeAndPause, AddToLiquiditySystemAcc).
THEOREM ReturnsTaken == Spec => []ReturnsAccepted
<1>1. IInv => ReturnsAccepted
  <2>1. ASSUME IInv, NEW m \in inFlight, m.ret,
               "FixAsyncCallbackCheck" \in Flags \/ m.to \in Payable
        PROVE  Accepts(m)
    <3>1. TypeOK /\ m \in Messages
      BY <2>1 DEF IInv, TypeOK
    <3>2. Arrived(m).ok
      BY <2>1, <3>1, ReturnTaken
    <3>3. CheckPayable(m)
      BY <2>1 DEF CheckPayable, MustVerifyPayable
    <3>4. QED
      BY <3>2, <3>3 DEF Accepts
  <2>2. QED
    BY <2>1 DEF ReturnsAccepted
<1>2. QED
  BY <1>1, Invariant, PTL

\* A list of any length does just what its totals say.
THEOREM TotalsSay == Spec => []ListsAddUp
<1>1. IInv => ListsAddUp
  <2> SUFFICES ASSUME IInv, NEW a \in Accounts, NEW b \in Accounts, NEW list \in Lists,
                      a # b, ShardOf[a] = ShardOf[b]
               PROVE  LET named == {e.token : e \in ToSet(list)}
                          r == Moved(a, b, list)
                      IN  /\ r.ok <=> /\ \A e \in ToSet(list) : e.val > 0
                                      /\ \A t \in named : Sum(list, t) <= store.quantity[a][t]
                                      /\ {a, b} \X named \cap frozen = {}
                                      /\ {ShardOf[a]} \X named \cap paused = {}
                          /\ \A t \in Tokens :
                               /\ r.quantity[a][t] = store.quantity[a][t] - Sum(list, t)
                               /\ r.quantity[b][t] = store.quantity[b][t] + Sum(list, t)
    BY DEF ListsAddUp
  <2>1. TypeOK
    BY DEF IInv
  <2>2. PICK named : named = {e.token : e \in ToSet(list)}
    OBVIOUS
  <2>3. Moved(a, b, list).ok <=>
          /\ \A e \in ToSet(list) : e.val > 0
          /\ \A t \in named : Sum(list, t) <= store.quantity[a][t]
          /\ {a, b} \X named \cap frozen = {}
          /\ {ShardOf[a]} \X named \cap paused = {}
    BY <2>1, <2>2, TotalsDecide
  <2>4. Ran(Moved(a, b, list), list, {a}, {b}, {}, {})
    BY <2>1, MovedDoes
  <2>5. \A t \in Tokens :
          /\ Moved(a, b, list).quantity[a][t] = store.quantity[a][t] - Sum(list, t)
          /\ Moved(a, b, list).quantity[b][t] = store.quantity[b][t] + Sum(list, t)
    BY <2>4 DEF Ran
  <2>6. QED
    BY <2>2, <2>3, <2>5
<1>2. QED
  BY <1>1, Invariant, PTL

-----------------------------------------------------------------------------
(* The arguments of a list: three for every entry                          *)

Triples(seqs, n, E) == n \in Nat \ {0} /\ seqs \in [1..n -> [1..3 -> E]]

\* The equation of the recursive function in FlattenSeq.
Flattens(g, seqs, n) ==
  g = [i \in 1..n |-> IF i = 1 THEN seqs[i] ELSE g[i - 1] \o seqs[i]]

LEMMA FlattenExists ==
  ASSUME NEW seqs, NEW n, NEW E, Triples(seqs, n, E)
  PROVE  \E g : Flattens(g, seqs, n)
<1> DEFINE N == {k \in Nat : k <= n => \E g : Flattens(g, seqs, k)}
<1>0. n \in Nat
  BY DEF Triples
<1>1. 0 \in N
  <2> DEFINE g == [i \in 1..0 |-> 0]
  <2>1. Flattens(g, seqs, 0)
    BY DEF Flattens
  <2>2. QED
    BY <2>1
<1>2. ASSUME NEW k \in Nat, k \in N PROVE k + 1 \in N
  <2> SUFFICES ASSUME k + 1 <= n PROVE \E g : Flattens(g, seqs, k + 1)
    OBVIOUS
  <2>1. PICK g : Flattens(g, seqs, k)
    BY <1>0, <1>2
  <2> DEFINE v(i) == IF i = 1 THEN seqs[i] ELSE g[i - 1] \o seqs[i]
             h == [i \in 1..(k + 1) |-> v(i)]
  <2>2. \A i \in 1..k : h[i] = g[i]
    <3>1. \A i \in 1..k : g[i] = v(i)
      BY <2>1, Zenon DEF Flattens
    <3>2. \A i \in 1..k : i \in 1..(k + 1)
      OBVIOUS
    <3> HIDE DEF v
    <3>3. QED
      BY <3>1, <3>2
  <2>3. \A i \in 1..(k + 1) : i # 1 => i - 1 \in 1..k
    OBVIOUS
  <2>4. h = [i \in 1..(k + 1) |-> IF i = 1 THEN seqs[i] ELSE h[i - 1] \o seqs[i]]
    <3>1. \A i \in 1..(k + 1) : v(i) = IF i = 1 THEN seqs[i] ELSE h[i - 1] \o seqs[i]
      BY <2>2, <2>3
    <3> HIDE DEF v
    <3>2. QED
      BY <3>1
  <2>5. QED
    BY <2>4 DEF Flattens
<1>3. \A k \in Nat : k \in N
  <2> HIDE DEF N
  <2>1. QED
    BY <1>1, <1>2, SetInduction
<1>4. QED
  BY <1>0, <1>3

\* The first k triples, one after the other.
FlatUpTo(s, seqs, k, E) ==
  /\ s \in [1..(3 * k) -> E]
  /\ \A i \in 1..k : /\ s[3 * i - 2] = seqs[i][1]
                     /\ s[3 * i - 1] = seqs[i][2]
                     /\ s[3 * i] = seqs[i][3]

LEMMA ListLength ==
  ASSUME NEW E, NEW m \in Nat, NEW q \in [1..m -> E]
  PROVE  q \in Seq(E) /\ Len(q) = m
<1>1. q \in Seq(E)
  BY SeqDef
<1>2. DOMAIN q = 1..Len(q) /\ DOMAIN q = 1..m /\ Len(q) \in Nat
  BY <1>1, LenProperties
<1>3. QED
  BY <1>1, <1>2

LEMMA FlatAdd ==
  ASSUME NEW seqs, NEW n, NEW E, Triples(seqs, n, E), NEW k \in 1..(n - 1), NEW s,
         FlatUpTo(s, seqs, k, E)
  PROVE  FlatUpTo(s \o seqs[k + 1], seqs, k + 1, E)
<1> DEFINE t == seqs[k + 1]
           r == s \o t
           l == 3 * k
<1>0. n \in Nat /\ k \in Nat /\ k + 1 \in 1..n /\ l \in Nat /\ t \in [1..3 -> E]
  BY DEF Triples
<1>1. s \in [1..l -> E]
  BY DEF FlatUpTo
<1>2. s \in Seq(E) /\ t \in Seq(E) /\ Len(s) = l /\ Len(t) = 3
  BY <1>0, <1>1, ListLength
<1>3. /\ r \in Seq(E) /\ Len(r) = l + 3
      /\ \A i \in 1..(l + 3) : r[i] = IF i <= l THEN s[i] ELSE t[i - l]
  <2> HIDE DEF t, l
  <2>1. /\ s \o t \in Seq(E) /\ Len(s \o t) = Len(s) + Len(t)
        /\ \A i \in 1..(Len(s) + Len(t)) :
             (s \o t)[i] = IF i <= Len(s) THEN s[i] ELSE t[i - Len(s)]
    BY <1>2, ConcatProperties, Zenon
  <2>2. QED
    BY <1>2, <2>1, Zenon DEF r
<1>4. r \in [1..(3 * (k + 1)) -> E]
  <2>1. r \in [1..Len(r) -> E]
    BY <1>3, LenProperties
  <2>2. Len(r) = 3 * (k + 1)
    BY <1>0, <1>3
  <2>3. QED
    BY <2>1, <2>2
<1>5. ASSUME NEW i \in 1..(k + 1)
      PROVE  /\ r[3 * i - 2] = seqs[i][1] /\ r[3 * i - 1] = seqs[i][2] /\ r[3 * i] = seqs[i][3]
  <2>1. CASE i \in 1..k
    <3>1. s[3 * i - 2] = seqs[i][1] /\ s[3 * i - 1] = seqs[i][2] /\ s[3 * i] = seqs[i][3]
      BY <2>1 DEF FlatUpTo
    <3>2. /\ 3 * i - 2 \in 1..(l + 3) /\ 3 * i - 1 \in 1..(l + 3) /\ 3 * i \in 1..(l + 3)
          /\ 3 * i - 2 <= l /\ 3 * i - 1 <= l /\ 3 * i <= l
      BY <1>0, <2>1
    <3> HIDE DEF r, t, l
    <3>3. QED
      BY <1>3, <3>1, <3>2
  <2>2. CASE i = k + 1
    <3>1. /\ 3 * i - 2 = l + 1 /\ 3 * i - 1 = l + 2 /\ 3 * i = l + 3
          /\ l + 1 \in 1..(l + 3) /\ l + 2 \in 1..(l + 3) /\ l + 3 \in 1..(l + 3)
          /\ (l + 1) - l = 1 /\ (l + 2) - l = 2 /\ (l + 3) - l = 3
          /\ ~(l + 1 <= l) /\ ~(l + 2 <= l) /\ ~(l + 3 <= l)
      BY <1>0, <2>2
    <3>2. t = seqs[i]
      BY <2>2
    <3> HIDE DEF r, t, l
    <3>3. r[l + 1] = t[1] /\ r[l + 2] = t[2] /\ r[l + 3] = t[3]
      BY <1>3, <3>1
    <3>4. QED
      BY <3>1, <3>2, <3>3
  <2>3. i \in 1..k \/ i = k + 1
    BY <1>0
  <2> HIDE DEF r
  <2>4. QED
    BY <2>1, <2>2, <2>3
<1>6. QED
  BY <1>4, <1>5 DEF FlatUpTo

LEMMA FlattenTriples ==
  ASSUME NEW seqs, NEW n, NEW E, Triples(seqs, n, E)
  PROVE  FlatUpTo(FlattenSeq(seqs), seqs, n, E)
<1> DEFINE g == CHOOSE f : Flattens(f, seqs, n)
           N == {k \in Nat : k \in 1..n => FlatUpTo(g[k], seqs, k, E)}
<1>0. n \in Nat /\ n # 0 /\ seqs \in [1..n -> [1..3 -> E]]
  BY DEF Triples
<1>1. Len(seqs) = n
  BY <1>0, ListLength
<1>2. FlattenSeq(seqs) = g[n]
  BY <1>0, <1>1, Zenon DEF FlattenSeq, Flattens
<1>3. Flattens(g, seqs, n)
  BY FlattenExists
<1>4. 0 \in N
  OBVIOUS
<1>5. ASSUME NEW k \in Nat, k \in N PROVE k + 1 \in N
  <2> SUFFICES ASSUME k + 1 \in 1..n PROVE FlatUpTo(g[k + 1], seqs, k + 1, E)
    OBVIOUS
  <2> HIDE DEF g
  <2>1. CASE k = 0
    <3>1. g[1] = seqs[1] /\ 1 \in 1..n
      BY <1>3, <2>1 DEF Flattens
    <3>2. seqs[1] \in [1..3 -> E]
      BY <1>0, <3>1
    <3>3. FlatUpTo(seqs[1], seqs, 1, E)
      <4>1. 3 * 1 = 3 /\ 3 * 1 - 2 = 1 /\ 3 * 1 - 1 = 2 /\ \A i \in 1..1 : i = 1
        OBVIOUS
      <4>2. QED
        BY <3>2, <4>1 DEF FlatUpTo
    <3>4. QED
      BY <2>1, <3>1, <3>3
  <2>2. CASE k # 0
    <3>1. k \in 1..(n - 1) /\ k \in 1..n /\ k + 1 # 1 /\ (k + 1) - 1 = k
      BY <1>0, <2>2
    <3>2. g[k + 1] = g[k] \o seqs[k + 1]
      BY <1>3, <3>1 DEF Flattens
    <3>3. FlatUpTo(g[k], seqs, k, E)
      BY <1>5, <3>1
    <3>4. QED
      BY <3>1, <3>2, <3>3, FlatAdd
  <2>3. QED
    BY <2>1, <2>2
<1>6. \A k \in Nat : k \in N
  <2> HIDE DEF N
  <2>1. QED
    BY <1>4, <1>5, SetInduction
<1>7. FlatUpTo(g[n], seqs, n, E)
  <2> HIDE DEF g
  <2>1. n \in 1..n
    BY <1>0
  <2>2. QED
    BY <1>0, <1>6, <2>1
<1>8. QED
  BY <1>2, <1>7

\* The arguments of a call or message: a head, the triples, and the call after them.
Written(args, head, seqs, n, call, E) ==
  /\ Triples(seqs, n, E)
  /\ head \in Seq(E) /\ call \in Seq(E)
  /\ args = head \o FlattenSeq(seqs) \o call

\* A reader finds the triples after a head of d arguments, and the call after them.
Found(args, head, seqs, n, call, d) ==
  /\ \A i \in 1..d : args[i] = head[i]
  /\ \A i \in 1..n : LET j == d + 1 + 3 * (i - 1)
                     IN  args[j] = seqs[i][1] /\ args[j + 1] = seqs[i][2]
                           /\ args[j + 2] = seqs[i][3]
  /\ SubSeq(args, d + 3 * n + 1, Len(args)) = call

LEMMA ReadBack ==
  ASSUME NEW args, NEW head, NEW seqs, NEW n, NEW call, NEW E, NEW d,
         Written(args, head, seqs, n, call, E), d = Len(head)
  PROVE  Found(args, head, seqs, n, call, d)
<1> DEFINE flat == FlattenSeq(seqs)
           both == head \o flat
           l == d + 3 * n
<1>0. /\ n \in Nat /\ n > 0 /\ head \in Seq(E) /\ call \in Seq(E) /\ d \in Nat
      /\ FlatUpTo(flat, seqs, n, E)
  <2>1. /\ Triples(seqs, n, E) /\ head \in Seq(E) /\ call \in Seq(E)
    BY DEF Written
  <2>2. FlatUpTo(flat, seqs, n, E)
    BY <2>1, FlattenTriples
  <2>3. n \in Nat /\ n > 0
    BY <2>1 DEF Triples
  <2>4. Len(head) \in Nat
    BY <2>1, LenProperties
  <2>5. QED
    BY <2>1, <2>2, <2>3, <2>4
<1>1. flat \in Seq(E) /\ Len(flat) = 3 * n
  BY <1>0, ListLength DEF FlatUpTo
<1>2. /\ both \in Seq(E) /\ Len(both) = l
      /\ \A i \in 1..l : both[i] = IF i <= d THEN head[i] ELSE flat[i - d]
  <2> HIDE DEF flat
  <2>1. /\ head \o flat \in Seq(E) /\ Len(head \o flat) = Len(head) + Len(flat)
        /\ \A i \in 1..(Len(head) + Len(flat)) :
             (head \o flat)[i] = IF i <= Len(head) THEN head[i] ELSE flat[i - Len(head)]
    BY <1>0, <1>1, ConcatProperties, Zenon
  <2>2. QED
    BY <1>1, <2>1, Zenon DEF both, l
<1>3. args = both \o call /\ l \in Nat /\ Len(call) \in Nat
  BY <1>0, LenProperties DEF Written
<1>4. /\ Len(args) = l + Len(call)
      /\ \A i \in 1..(l + Len(call)) : args[i] = IF i <= l THEN both[i] ELSE call[i - l]
  <2> HIDE DEF flat, both, l
  <2>1. /\ both \o call \in Seq(E) /\ Len(both \o call) = Len(both) + Len(call)
        /\ \A i \in 1..(Len(both) + Len(call)) :
             (both \o call)[i] = IF i <= Len(both) THEN both[i] ELSE call[i - Len(both)]
    BY <1>0, <1>2, ConcatProperties, Zenon
  <2>2. QED
    BY <1>2, <1>3, <2>1, Zenon
<1>5. \A i \in 1..l : args[i] = IF i <= d THEN head[i] ELSE flat[i - d]
  <2> HIDE DEF flat, both, l
  <2>1. \A i \in 1..l : i \in 1..(l + Len(call)) /\ i <= l
    BY <1>3
  <2>2. QED
    BY <1>2, <1>4, <2>1, Zenon
<1>6. \A i \in 1..d : args[i] = head[i]
  <2> HIDE DEF flat
  <2>1. \A i \in 1..d : i \in 1..l /\ i <= d
    BY <1>0
  <2>2. QED
    BY <1>5, <2>1, Zenon
<1>7. ASSUME NEW i \in 1..n
      PROVE  LET j == d + 1 + 3 * (i - 1)
             IN  args[j] = seqs[i][1] /\ args[j + 1] = seqs[i][2] /\ args[j + 2] = seqs[i][3]
  <2> DEFINE j == d + 1 + 3 * (i - 1)
  <2>1. /\ j \in 1..l /\ j + 1 \in 1..l /\ j + 2 \in 1..l
        /\ ~(j <= d) /\ ~(j + 1 <= d) /\ ~(j + 2 <= d)
        /\ j - d = 3 * i - 2 /\ (j + 1) - d = 3 * i - 1 /\ (j + 2) - d = 3 * i
    BY <1>0
  <2> HIDE DEF flat, l, j
  <2>2. /\ flat[3 * i - 2] = seqs[i][1] /\ flat[3 * i - 1] = seqs[i][2]
        /\ flat[3 * i] = seqs[i][3]
    BY <1>0 DEF FlatUpTo
  <2>3. args[j] = flat[j - d] /\ args[j + 1] = flat[(j + 1) - d] /\ args[j + 2] = flat[(j + 2) - d]
    BY <1>5, <2>1, Zenon
  <2>4. QED
    BY <2>1, <2>2, <2>3, Zenon DEF j
<1>8. SubSeq(args, l + 1, Len(args)) = call
  <2> HIDE DEF flat, both, l
  <2>0. Len(args) - (l + 1) + 1 = Len(call) /\ Len(args) \in Int /\ l + 1 \in Int
    BY <1>3, <1>4
  <2>1. \A i \in (l + 1)..Len(args) :
          i \in 1..(l + Len(call)) /\ ~(i <= l) /\ i - l \in 1..Len(call)
    BY <1>3, <1>4
  <2>2. \A i \in (l + 1)..Len(args) : args[i] \in E
    BY <1>0, <1>4, <2>1, ElementOfSeq
  <2>3. /\ SubSeq(args, l + 1, Len(args)) \in Seq(E)
        /\ Len(SubSeq(args, l + 1, Len(args))) =
             IF l + 1 <= Len(args) THEN Len(args) - (l + 1) + 1 ELSE 0
        /\ \A i \in 1..(Len(args) - (l + 1) + 1) :
             SubSeq(args, l + 1, Len(args))[i] = args[(l + 1) + i - 1]
    BY <2>0, <2>2, SubSeqProperties
  <2>4. Len(SubSeq(args, l + 1, Len(args))) = Len(call)
    BY <1>3, <1>4, <2>3
  <2>5. \A i \in 1..Len(call) : SubSeq(args, l + 1, Len(args))[i] = call[i]
    <3>1. \A i \in 1..Len(call) :
            /\ (l + 1) + i - 1 \in 1..(l + Len(call)) /\ ~((l + 1) + i - 1 <= l)
            /\ ((l + 1) + i - 1) - l = i
      BY <1>3
    <3>2. QED
      BY <1>4, <2>0, <2>3, <3>1
  <2>6. QED
    BY <1>0, <2>3, <2>4, <2>5, SeqEqual
<1>9. QED
  BY <1>6, <1>7, <1>8, Zenon DEF Found

Arguments ==
  {Address(a) : a \in Accounts} \cup {Number(v) : v \in Nat} \cup {Name(t) : t \in Tokens}
    \cup {Marshalled(e) : e \in Entries} \cup {Call(f) : f \in {"function", "argument"}}

\* What entry e is in a message, with its value marshalled or not, and in a call.
Triple(e, whole) ==
  <<Name(e.token), Number(NonceOf(e.token)), IF whole THEN Marshalled(e) ELSE Number(e.val)>>

TravelsWhole(e, sent) == e.token \in NFTs /\ SentAsMarshalledData(e, sent[e.token])

LEMMA TripleArguments ==
  ASSUME NEW e \in Entries, NEW whole \in BOOLEAN
  PROVE  /\ Triple(e, whole) \in [1..3 -> Arguments]
         /\ Triple(e, whole)[1] = Name(e.token)
         /\ Triple(e, whole)[2] = Number(NonceOf(e.token))
         /\ Triple(e, whole)[3] = IF whole THEN Marshalled(e) ELSE Number(e.val)
<1> DEFINE x == Name(e.token)
           y == Number(NonceOf(e.token))
           z == IF whole THEN Marshalled(e) ELSE Number(e.val)
<1>1. e.token \in Tokens /\ e.val \in Nat /\ NonceOf(e.token) \in Nat
  BY MultiAssumption DEF Entries, NonceOf
<1>2. x \in Arguments /\ y \in Arguments
  BY <1>1 DEF Arguments
<1>3. z \in Arguments
  <2>1. Marshalled(e) \in Arguments /\ Number(e.val) \in Arguments
    BY <1>1 DEF Arguments
  <2>2. QED
    BY <2>1
<1>4. Triple(e, whole) = <<x, y, z>>
  BY DEF Triple
<1> HIDE DEF x, y, z
<1>5. <<x, y, z>> \in [1..3 -> Arguments]
  BY <1>2, <1>3
<1>6. QED
  BY <1>4, <1>5 DEF x, y, z

\* The value of an entry is read as it was written, in a call or in a message.
LEMMA ValueRead ==
  ASSUME NEW e \in Entries, NEW sent, NEW nonce, NEW arg, nonce = Number(NonceOf(e.token)),
         arg = IF TravelsWhole(e, sent) THEN Marshalled(e) ELSE Number(e.val)
  PROVE  ValueAtDestination(nonce, arg) = e.val
<1>1. e.token \in Tokens /\ e.val \in Amounts
  BY DEF Entries
<1>2. /\ BytesOf[e.val] \in Nat /\ MaxLengthForValueToOptTransfer \in Nat
      /\ MarshalledLength > MaxLengthForValueToOptTransfer
  BY <1>1, LengthAssumption
<1>3. CASE TravelsWhole(e, sent)
  <2>1. arg.is = "token" /\ arg.x = e.val /\ arg.is # "number"
    BY <1>3 DEF Marshalled
  <2>2. Length(arg) = MarshalledLength
    BY <2>1 DEF Length
  <2>3. nonce.x > 0
    BY <1>3 DEF TravelsWhole, NonceOf, Number
  <2>4. QED
    BY <1>2, <2>1, <2>2, <2>3 DEF ValueAtDestination, AsToken
<1>4. CASE ~TravelsWhole(e, sent)
  <2>1. arg.is = "number" /\ arg.x = e.val
    BY <1>4 DEF Number
  <2>2. Length(arg) = BytesOf[e.val]
    BY <2>1 DEF Length
  <2>3. ~(nonce.x > 0 /\ Length(arg) > MaxLengthForValueToOptTransfer)
    BY <1>2, <1>4, <2>2 DEF TravelsWhole, NonceOf, Number, SentAsMarshalledData
  <2>4. QED
    BY <2>1, <2>3 DEF ValueAtDestination, AsNumber
<1>5. QED
  BY <1>3, <1>4

\* From start on the arguments are a list, each entry as the function whole says.
WrittenAs(args, start, list, n, whole, ofCall, sent) ==
  /\ start \in Nat /\ n \in Nat /\ list \in [1..n -> Entries] /\ ofCall \in BOOLEAN
  /\ \A i \in 1..n : LET j == start + 3 * (i - 1)
                         w == Triple(list[i], whole[i])
                     IN  args[j] = w[1] /\ args[j + 1] = w[2] /\ args[j + 2] = w[3]
  /\ \A i \in 1..n : whole[i] = (~ofCall /\ TravelsWhole(list[i], sent))

LEMMA TransfersRead ==
  ASSUME NEW args, NEW start, NEW n, NEW list, NEW whole, NEW ofCall, NEW sent,
         WrittenAs(args, start, list, n, whole, ofCall, sent)
  PROVE  Transfers(args, start, n, ofCall) = list
<1> DEFINE at(i) == start + 3 * (i - 1)
           v(i) == IF ofCall THEN AsNumber(args[at(i) + 2])
                   ELSE ValueAtDestination(args[at(i) + 1], args[at(i) + 2])
<1>0. /\ start \in Nat /\ n \in Nat /\ list \in [1..n -> Entries] /\ ofCall \in BOOLEAN
      /\ \A i \in 1..n : whole[i] = (~ofCall /\ TravelsWhole(list[i], sent))
  BY DEF WrittenAs
<1>1. ASSUME NEW i \in 1..n
      PROVE  [token |-> args[at(i)].x, val |-> v(i)] = list[i]
  <2> DEFINE e == list[i]
  <2>0. e \in Entries /\ whole[i] \in BOOLEAN
    BY <1>0
  <2>w. whole[i] = (~ofCall /\ TravelsWhole(e, sent))
    BY <1>0
  <2>1. /\ args[at(i)] = Name(e.token) /\ args[at(i) + 1] = Number(NonceOf(e.token))
        /\ args[at(i) + 2] = IF whole[i] THEN Marshalled(e) ELSE Number(e.val)
    BY <2>0, TripleArguments DEF WrittenAs
  <2> HIDE DEF e
  <2>2. CASE ofCall
    <3>1. args[at(i) + 2] = Number(e.val)
      BY <2>w, <2>1, <2>2
    <3>2. v(i) = e.val
      BY <2>2, <3>1 DEF AsNumber, Number
    <3> HIDE DEF v
    <3>3. QED
      BY <2>0, <2>1, <3>2 DEF Entries, Name, e
  <2>3. CASE ~ofCall
    <3>1. args[at(i) + 2] = IF TravelsWhole(e, sent) THEN Marshalled(e) ELSE Number(e.val)
      BY <2>w, <2>1, <2>3
    <3>2. ValueAtDestination(args[at(i) + 1], args[at(i) + 2]) = e.val
      BY <2>0, <2>1, <3>1, ValueRead
    <3>3. v(i) = e.val
      BY <2>3, <3>2
    <3> HIDE DEF v
    <3>4. QED
      BY <2>0, <2>1, <3>3 DEF Entries, Name, e
  <2>4. QED
    BY <2>2, <2>3
<1>2. Transfers(args, start, n, ofCall) = [i \in 1..n |-> [token |-> args[at(i)].x, val |-> v(i)]]
  BY DEF Transfers
<1>3. [i \in 1..n |-> [token |-> args[at(i)].x, val |-> v(i)]] = [i \in 1..n |-> list[i]]
  <2> HIDE DEF at, v
  <2>1. QED
    BY <1>1
<1>4. QED
  BY <1>0, <1>2, <1>3

LEMMA HeadArguments ==
  /\ \A k \in Nat : /\ <<Number(k)>> \in Seq(Arguments) /\ Len(<<Number(k)>>) = 1
                    /\ <<Number(k)>>[1] = Number(k)
  /\ \A a \in Accounts, k \in Nat :
       /\ <<Address(a), Number(k)>> \in Seq(Arguments) /\ Len(<<Address(a), Number(k)>>) = 2
       /\ <<Address(a), Number(k)>>[1] = Address(a) /\ <<Address(a), Number(k)>>[2] = Number(k)
<1>1. \A k \in Nat : Number(k) \in Arguments
  BY DEF Arguments
<1>2. \A a \in Accounts : Address(a) \in Arguments
  BY DEF Arguments
<1>3. QED
  BY <1>1, <1>2

LEMMA CallsAreArguments ==
  ASSUME NEW call \in CallsAfter
  PROVE  call \in Seq(Arguments)
<1>1. Call("function") \in Arguments /\ Call("argument") \in Arguments
  BY DEF Arguments
<1>2. \A x, y \in Arguments : <<x>> \in Seq(Arguments) /\ <<x, y>> \in Seq(Arguments)
  OBVIOUS
<1>3. <<>> \in Seq(Arguments)
  OBVIOUS
<1>4. QED
  BY <1>1, <1>2, <1>3, Zenon DEF CallsAfter

\* The triples of a list, after a head of d arguments, are the list, and what comes after
\* them is the call.
Laid(args, head, seqs, n, list, call, ofCall, sent) ==
  /\ n \in Nat \ {0} /\ list \in [1..n -> Entries] /\ ofCall \in BOOLEAN
  /\ head \in Seq(Arguments) /\ call \in Seq(Arguments)
  /\ seqs = [i \in 1..n |-> Triple(list[i], ~ofCall /\ TravelsWhole(list[i], sent))]
  /\ args = head \o FlattenSeq(seqs) \o call

ListFound(args, head, n, list, call, ofCall) ==
  /\ \A i \in 1..Len(head) : args[i] = head[i]
  /\ Transfers(args, Len(head) + 1, n, ofCall) = list
  /\ SubSeq(args, Len(head) + 3 * n + 1, Len(args)) = call

LEMMA ListRead ==
  ASSUME NEW args, NEW head, NEW seqs, NEW n, NEW list, NEW call, NEW ofCall, NEW sent,
         Laid(args, head, seqs, n, list, call, ofCall, sent)
  PROVE  ListFound(args, head, n, list, call, ofCall)
<1>0. /\ n \in Nat \ {0} /\ list \in [1..n -> Entries] /\ ofCall \in BOOLEAN
      /\ head \in Seq(Arguments) /\ call \in Seq(Arguments)
      /\ seqs = [i \in 1..n |-> Triple(list[i], ~ofCall /\ TravelsWhole(list[i], sent))]
      /\ args = head \o FlattenSeq(seqs) \o call
  BY DEF Laid
<1> DEFINE whole == [i \in 1..n |-> (~ofCall /\ TravelsWhole(list[i], sent))]
           d == Len(head)
<1>1. whole \in [1..n -> BOOLEAN]
  BY <1>0 DEF TravelsWhole
<1>2. \A i \in 1..n : seqs[i] = Triple(list[i], whole[i])
  BY <1>0
<1>3. seqs \in [1..n -> [1..3 -> Arguments]]
  <2> HIDE DEF whole
  <2>1. \A i \in 1..n : Triple(list[i], whole[i]) \in [1..3 -> Arguments]
    BY <1>0, <1>1, TripleArguments
  <2>2. DOMAIN seqs = 1..n /\ seqs = [i \in 1..n |-> seqs[i]]
    BY <1>0
  <2>3. QED
    BY <1>2, <2>1, <2>2
<1>4. Written(args, head, seqs, n, call, Arguments)
  BY <1>0, <1>3 DEF Written, Triples
<1>4a. Found(args, head, seqs, n, call, d)
  BY <1>4, ReadBack
<1>5. /\ \A i \in 1..d : args[i] = head[i]
      /\ \A i \in 1..n : LET j == d + 1 + 3 * (i - 1)
                         IN  args[j] = seqs[i][1] /\ args[j + 1] = seqs[i][2]
                               /\ args[j + 2] = seqs[i][3]
      /\ SubSeq(args, d + 3 * n + 1, Len(args)) = call
  BY <1>4a, Zenon DEF Found
<1>6. \A i \in 1..n : whole[i] = (~ofCall /\ TravelsWhole(list[i], sent))
  OBVIOUS
<1>7. d + 1 \in Nat /\ n \in Nat
  BY <1>0, LenProperties
<1>8. WrittenAs(args, d + 1, list, n, whole, ofCall, sent)
  <2> HIDE DEF whole, d
  <2>1. ASSUME NEW i \in 1..n
        PROVE  LET j == d + 1 + 3 * (i - 1)
                   w == Triple(list[i], whole[i])
               IN  args[j] = w[1] /\ args[j + 1] = w[2] /\ args[j + 2] = w[3]
    BY <1>2, <1>5, Zenon
  <2>2. QED
    BY <1>0, <1>6, <1>7, <2>1, Zenon DEF WrittenAs
<1>9. Transfers(args, d + 1, n, ofCall) = list
  <2> HIDE DEF whole, d
  <2>1. QED
    BY <1>8, TransfersRead
<1>10. QED
  BY <1>5, <1>9 DEF ListFound

\* A message is read alike by the shard of the destination and by the parser.
LEMMA MessageRead ==
  ASSUME NEW b \in Accounts, NEW list \in Lists, NEW sent \in [NFTs -> BOOLEAN],
         NEW call \in CallsAfter, NEW args, args = MessageArguments(list, sent, call)
  PROVE  /\ ReadAtDestination(b, args) = [to |-> b, list |-> list, call |-> call]
         /\ ParseMultiDCTNFTTransfer(b, args) = [to |-> b, list |-> list, call |-> call]
<1>1. PICK n \in Nat : n > 0 /\ DOMAIN list = 1..n /\ list \in [1..n -> Entries]
  BY ListForm
<1>2. Len(list) = n
  BY <1>1, ListLength
<1> DEFINE head == <<Number(n)>>
           seqs == [i \in 1..n |-> Triple(list[i], ~FALSE /\ TravelsWhole(list[i], sent))]
<1>3. args = head \o FlattenSeq(seqs) \o call
  BY <1>1, <1>2 DEF MessageArguments, Triple, TravelsWhole
<1>4. head \in Seq(Arguments) /\ Len(head) = 1 /\ head[1] = Number(n)
  BY HeadArguments
<1>5. call \in Seq(Arguments)
  BY CallsAreArguments
<1>6. /\ \A i \in 1..1 : args[i] = head[i]
      /\ Transfers(args, 2, n, FALSE) = list
      /\ SubSeq(args, 3 * n + 2, Len(args)) = call
  <2> HIDE DEF head, seqs
  <2>0. n \in Nat \ {0}
    BY <1>1
  <2>l. Laid(args, head, seqs, n, list, call, FALSE, sent)
    BY <1>1, <1>3, <1>4, <1>5, <2>0 DEF Laid, seqs
  <2>m. ListFound(args, head, n, list, call, FALSE)
    BY <2>l, ListRead
  <2>1. /\ \A i \in 1..Len(head) : args[i] = head[i]
        /\ Transfers(args, Len(head) + 1, n, FALSE) = list
        /\ SubSeq(args, Len(head) + 3 * n + 1, Len(args)) = call
    BY <2>m DEF ListFound
  <2>2. Len(head) + 1 = 2 /\ Len(head) + 3 * n + 1 = 3 * n + 2
    BY <1>1, <1>4
  <2>3. QED
    BY <1>4, <2>1, <2>2
<1>7. args[1] = Number(n)
  BY <1>4, <1>6
<1>8. AsNumber(args[1]) = n /\ args[1].is # "address"
  BY <1>7 DEF AsNumber, Number
<1>9. 3 * n + 1 + 1 = 3 * n + 2 /\ 2 - 1 = 1
  BY <1>1
<1> HIDE DEF head, seqs
<1>10. ReadAtDestination(b, args) = [to |-> b, list |-> list, call |-> call]
  BY <1>6, <1>8, <1>9 DEF ReadAtDestination
<1>11. ParseMultiDCTNFTTransfer(b, args) = [to |-> b, list |-> list, call |-> call]
  BY <1>6, <1>8, <1>9 DEF ParseMultiDCTNFTTransfer
<1>12. QED
  BY <1>10, <1>11

\* So is a call, by the shard of the sender and by the parser.
LEMMA CallRead ==
  ASSUME NEW a, NEW b \in Accounts, NEW list \in Lists, NEW call \in CallsAfter,
         NEW args, args = CallArguments(b, list, call)
  PROVE  /\ ReadAtSender(args) = [to |-> b, list |-> list, call |-> call]
         /\ ParseMultiDCTNFTTransfer(a, args) = [to |-> b, list |-> list, call |-> call]
<1>1. PICK n \in Nat : n > 0 /\ DOMAIN list = 1..n /\ list \in [1..n -> Entries]
  BY ListForm
<1>2. Len(list) = n
  BY <1>1, ListLength
<1> DEFINE head == <<Address(b), Number(n)>>
           seqs == [i \in 1..n |-> Triple(list[i], ~TRUE /\ TravelsWhole(list[i], 0))]
<1>3. args = head \o FlattenSeq(seqs) \o call
  BY <1>1, <1>2 DEF CallArguments, Triple
<1>4. /\ head \in Seq(Arguments) /\ Len(head) = 2
      /\ head[1] = Address(b) /\ head[2] = Number(n)
  BY HeadArguments
<1>5. call \in Seq(Arguments)
  BY CallsAreArguments
<1>6. /\ \A i \in 1..2 : args[i] = head[i]
      /\ Transfers(args, 3, n, TRUE) = list
      /\ SubSeq(args, 3 * n + 3, Len(args)) = call
  <2> HIDE DEF head, seqs
  <2>0. n \in Nat \ {0}
    BY <1>1
  <2>l. Laid(args, head, seqs, n, list, call, TRUE, 0)
    BY <1>1, <1>3, <1>4, <1>5, <2>0 DEF Laid, seqs
  <2>m. ListFound(args, head, n, list, call, TRUE)
    BY <2>l, ListRead
  <2>1. /\ \A i \in 1..Len(head) : args[i] = head[i]
        /\ Transfers(args, Len(head) + 1, n, TRUE) = list
        /\ SubSeq(args, Len(head) + 3 * n + 1, Len(args)) = call
    BY <2>m DEF ListFound
  <2>2. Len(head) + 1 = 3 /\ Len(head) + 3 * n + 1 = 3 * n + 3
    BY <1>1, <1>4
  <2>3. QED
    BY <1>4, <2>1, <2>2
<1>7. args[1] = Address(b) /\ args[2] = Number(n)
  BY <1>4, <1>6
<1>8. /\ AsNumber(args[2]) = n /\ args[1].is = "address" /\ args[1].x = b
      /\ Length(args[1]) = AddressLength
  BY <1>7 DEF AsNumber, Number, Address, Length
<1>9. 3 * n + 2 + 1 = 3 * n + 3 /\ 3 - 1 = 2
  BY <1>1
<1> HIDE DEF head, seqs
<1>10. ReadAtSender(args) = [to |-> b, list |-> list, call |-> call]
  BY <1>6, <1>8, <1>9 DEF ReadAtSender
<1>11. ParseMultiDCTNFTTransfer(a, args) = [to |-> b, list |-> list, call |-> call]
  BY <1>6, <1>8, <1>9 DEF ParseMultiDCTNFTTransfer
<1>12. QED
  BY <1>10, <1>11

\* The parser finds in every call, message and return the transfers that the function
\* moves, their destination and the call after them, for lists of any length and values
\* of any size, whichever NFTs were sent to the shard before (parseMultiDCTNFTTransfer).
THEOREM ParserReads == Spec => []ParserReadsTransfers
<1>1. TypeOK => ParserReadsTransfers
  <2> SUFFICES ASSUME TypeOK, NEW m \in inFlight, NEW sent \in [NFTs -> BOOLEAN],
                      NEW call \in CallsAfter
               PROVE  LET args == MessageArguments(m.list, sent, call)
                          moved == [to |-> m.to, list |-> m.list, call |-> call]
                      IN  /\ ReadAtDestination(m.to, args) = moved
                          /\ ParseMultiDCTNFTTransfer(m.to, args) = moved
                          /\ ~m.ret =>
                               LET ofCall == CallArguments(m.to, m.list, call)
                               IN  /\ ReadAtSender(ofCall) = moved
                                   /\ ParseMultiDCTNFTTransfer(m.from, ofCall) = moved
    BY Zenon DEF ParserReadsTransfers
  <2>1. m.to \in Accounts /\ m.list \in Lists
    BY MessageFields DEF TypeOK
  <2>2. /\ ReadAtDestination(m.to, MessageArguments(m.list, sent, call))
             = [to |-> m.to, list |-> m.list, call |-> call]
        /\ ParseMultiDCTNFTTransfer(m.to, MessageArguments(m.list, sent, call))
             = [to |-> m.to, list |-> m.list, call |-> call]
    BY <2>1, MessageRead
  <2>3. /\ ReadAtSender(CallArguments(m.to, m.list, call))
             = [to |-> m.to, list |-> m.list, call |-> call]
        /\ ParseMultiDCTNFTTransfer(m.from, CallArguments(m.to, m.list, call))
             = [to |-> m.to, list |-> m.list, call |-> call]
    BY <2>1, CallRead
  <2>4. QED
    BY <2>2, <2>3, Zenon
<1>2. QED
  BY <1>1, TypeCorrect, PTL

-----------------------------------------------------------------------------
(* Lists implement TokenEscrow, for every token                            *)

\* A message as a transfer of token t: all that its list has of t, and the sender of a
\* return is still the one who sent the list.
OriginOf(m, t) ==
  [id |-> m.id, val |-> Sum(m.list, t),
   from |-> IF m.ret THEN m.to ELSE m.from,
   to |-> IF m.ret THEN m.from ELSE m.to]

Holding(q, t) == [a \in Accounts |-> q[a][t]]
Pending(S, t) == {OriginOf(m, t) : m \in S}

Escrow(t) == INSTANCE TokenEscrow
  WITH Holders <- Accounts, Values <- Nat,
       holding <- Holding(store.quantity, t),
       pending <- Pending(inFlight, t),
       supply <- TotalOf(Endowment, Accounts, t)

\* For every token a list is one transfer of its total, settled once: whole, with the
\* destination, or back with the sender (multiDCTNFTTransfer.go).  Tokens are endowed
\* before the first step, and none are created, so only the steps are those of TokenEscrow.
StepsAreEscrow == [][\A t \in Tokens : [Escrow(t)!Next]_(Escrow(t)!vars)]_vars

LEMMA OriginFields ==
  ASSUME NEW m \in Messages, NEW t \in Tokens
  PROVE  /\ OriginOf(m, t).id = m.id
         /\ OriginOf(m, t).val = Sum(m.list, t)
         /\ OriginOf(m, t).from = IF m.ret THEN m.to ELSE m.from
         /\ OriginOf(m, t).to = IF m.ret THEN m.from ELSE m.to
         /\ OriginOf(m, t) \in Escrow(t)!Transfers
<1>1. Sum(m.list, t) \in Nat
  BY MessageFields, ListSum
<1>2. QED
  BY <1>1, MessageFields DEF OriginOf, Escrow!Transfers, Messages

\* From h to k the accounts A give v and the accounts B get it.
Booked(h, k, v, A, B) ==
  /\ h \in [Accounts -> Nat]
  /\ k = [x \in Accounts |-> k[x]]
  /\ \A x \in Accounts :
       /\ x \in A => k[x] = h[x] - v /\ h[x] >= v
       /\ x \in B => k[x] = h[x] + v
       /\ x \notin A \cup B => k[x] = h[x]

LEMMA HoldingAfter ==
  ASSUME TypeOK, NEW list \in Lists, NEW r, NEW A, NEW B, NEW U, NEW W, NEW t \in Tokens,
         Ran(r, list, A, B, U, W), Commit(r)
  PROVE  Booked(Holding(store.quantity, t), Holding(store.quantity', t), Sum(list, t), A, B)
<1>1. r.ok /\ store'.quantity = r.quantity
  BY DEF Commit
<1>2. store.quantity \in [Accounts -> [Tokens -> Nat]]
  BY StoreFields
<1>3. Sum(list, t) \in Nat
  BY ListSum
<1>4. \A x \in Accounts :
        /\ x \in A => /\ r.quantity[x][t] = store.quantity[x][t] - Sum(list, t)
                      /\ r.quantity[x][t] >= 0
        /\ x \in B => r.quantity[x][t] = store.quantity[x][t] + Sum(list, t)
        /\ x \notin A \cup B => r.quantity[x][t] = store.quantity[x][t]
  BY <1>1 DEF Ran
<1>5. ASSUME NEW x \in Accounts, x \in A PROVE store.quantity[x][t] >= Sum(list, t)
  BY <1>2, <1>3, <1>4, <1>5
<1>6. QED
  BY <1>1, <1>2, <1>4, <1>5 DEF Holding, Booked

LEMMA TransferMoves ==
  ASSUME IInv, NEW m \in Requests, NEW t \in Tokens, TransferInShard(m)
  PROVE  Escrow(t)!Next
<1>0. PICK a \in Accounts, b \in Accounts, list \in Lists :
        a = m.from /\ b = m.to /\ list = m.list
  BY RequestFields
<1>1. a # b /\ Commit(Moved(a, b, list)) /\ inFlight' = inFlight
  BY <1>0 DEF TransferInShard
<1>2. TypeOK /\ Sum(list, t) \in Nat
  BY ListSum DEF IInv
<1>3. PICK h : h = Holding(store.quantity, t)
  OBVIOUS
<1>4. PICK k : k = Holding(store.quantity', t)
  OBVIOUS
<1>5. /\ h \in [Accounts -> Nat] /\ h[a] >= Sum(list, t)
      /\ k[a] = h[a] - Sum(list, t) /\ k[b] = h[b] + Sum(list, t)
      /\ \A x \in Accounts \ {a, b} : k[x] = h[x]
  <2>1. Ran(Moved(a, b, list), list, {a}, {b}, {}, {})
    BY <1>1, <1>2, MovedDoes
  <2>2. Booked(h, k, Sum(list, t), {a}, {b})
    BY <1>1, <1>2, <1>3, <1>4, <2>1, HoldingAfter
  <2>3. QED
    BY <2>2 DEF Booked
<1>6. k = [x \in Accounts |-> k[x]]
  BY <1>4 DEF Holding
<1>7. k = [[h EXCEPT ![a] = @ - Sum(list, t)] EXCEPT ![b] = @ + Sum(list, t)]
  BY <1>1, <1>2, <1>5, <1>6
<1>8. Escrow(t)!Move(a, b, Sum(list, t))
  BY <1>1, <1>3, <1>4, <1>5, <1>7 DEF Escrow!Move, Holding, Pending
<1>9. QED
  BY <1>2, <1>8 DEF Escrow!Next

LEMMA SendReserves ==
  ASSUME IInv, NEW m \in Requests, NEW t \in Tokens, SendToOtherShard(m)
  PROVE  Escrow(t)!Next
<1>1. PICK a \in Accounts, list \in Lists, id \in TransferIds :
        a = m.from /\ list = m.list /\ id = m.id
  BY RequestFields
<1>2. Commit(Left(a, list)) /\ Unused(id) /\ inFlight' = inFlight \cup {m}
  BY <1>1 DEF SendToOtherShard
<1>3. m \in Messages /\ m.id = id /\ m.from = a /\ m.list = list /\ ~m.ret
  BY <1>1, RequestFields
<1>4. TypeOK /\ inFlight \subseteq Messages
  BY DEF IInv, TypeOK
<1>5. PICK o : o = OriginOf(m, t)
  OBVIOUS
<1>6. o \in Escrow(t)!Transfers /\ o.id = id /\ o.from = a /\ o.val = Sum(list, t)
  BY <1>3, <1>5, OriginFields
<1>7. Escrow(t)!Fresh(o)
  <2>1. \A x \in inFlight : OriginOf(x, t).id # id
    BY <1>2, <1>4, OriginFields DEF Unused
  <2>2. QED
    BY <1>6, <2>1 DEF Escrow!Fresh, Pending
<1>8. Pending(inFlight', t) = Pending(inFlight, t) \cup {o}
  BY <1>2, <1>5 DEF Pending
<1>9. PICK h : h = Holding(store.quantity, t)
  OBVIOUS
<1>10. PICK k : k = Holding(store.quantity', t)
  OBVIOUS
<1>11. /\ h \in [Accounts -> Nat] /\ h[a] >= Sum(list, t) /\ k[a] = h[a] - Sum(list, t)
       /\ \A x \in Accounts \ {a} : k[x] = h[x]
  <2>1. Ran(Left(a, list), list, {a}, {}, {ShardOf[a]}, {})
    BY <1>4, LeftDoes
  <2>2. Booked(h, k, Sum(list, t), {a}, {})
    BY <1>2, <1>4, <1>9, <1>10, <2>1, HoldingAfter
  <2>3. QED
    BY <2>2 DEF Booked
<1>12. k = [h EXCEPT ![a] = @ - Sum(list, t)]
  <2>1. k = [x \in Accounts |-> k[x]]
    BY <1>10 DEF Holding
  <2>2. QED
    BY <1>11, <2>1
<1>13. Escrow(t)!Reserve(o)
  BY <1>6, <1>7, <1>8, <1>9, <1>10, <1>11, <1>12 DEF Escrow!Reserve
<1>14. QED
  BY <1>6, <1>13 DEF Escrow!Next

LEMMA DeliverSettles ==
  ASSUME IInv, NEW m \in inFlight, NEW t \in Tokens, Deliver(m)
  PROVE  Escrow(t)!Next
<1>1. Commit(Arrived(m)) /\ inFlight' = inFlight \ {m}
  BY DEF Deliver
<1>2. TypeOK /\ inFlight \subseteq Messages /\ UniqueIds /\ m \in Messages
  BY DEF IInv, TypeOK
<1>3. m.to \in Accounts /\ m.list \in Lists /\ m.ret \in BOOLEAN
  BY <1>2, MessageFields
<1>4. PICK o : o = OriginOf(m, t)
  OBVIOUS
<1>5. /\ o.val = Sum(m.list, t)
      /\ m.ret => o.from = m.to
      /\ ~m.ret => o.to = m.to
  BY <1>2, <1>4, OriginFields
<1>6. o \in Pending(inFlight, t) /\ Pending(inFlight', t) = Pending(inFlight, t) \ {o}
  <2>1. \A x \in inFlight : OriginOf(x, t) = OriginOf(m, t) => x = m
    BY <1>2, OriginFields DEF UniqueIds
  <2>2. QED
    BY <1>1, <1>4, <2>1 DEF Pending
<1>7. PICK h : h = Holding(store.quantity, t)
  OBVIOUS
<1>8. PICK k : k = Holding(store.quantity', t)
  OBVIOUS
<1>9. /\ h \in [Accounts -> Nat] /\ k[m.to] = h[m.to] + Sum(m.list, t)
      /\ \A x \in Accounts \ {m.to} : k[x] = h[x]
  <2>1. Ran(Arrived(m), m.list, {}, {m.to}, {}, {ShardOf[m.to]})
    BY <1>2, <1>3, ArrivedDoes
  <2>2. Booked(h, k, Sum(m.list, t), {}, {m.to})
    BY <1>1, <1>2, <1>3, <1>7, <1>8, <2>1, HoldingAfter
  <2>3. QED
    BY <1>3, <2>2 DEF Booked
<1>10. k = [h EXCEPT ![m.to] = @ + Sum(m.list, t)]
  <2>1. k = [x \in Accounts |-> k[x]]
    BY <1>8 DEF Holding
  <2>2. QED
    BY <1>9, <2>1
<1>11. CASE m.ret
  <2>1. Escrow(t)!Cancel(o)
    BY <1>5, <1>6, <1>7, <1>8, <1>10, <1>11 DEF Escrow!Cancel
  <2>2. QED
    BY <1>6, <2>1 DEF Escrow!Next
<1>12. CASE ~m.ret
  <2>1. Escrow(t)!Commit(o)
    BY <1>5, <1>6, <1>7, <1>8, <1>10, <1>12 DEF Escrow!Commit
  <2>2. QED
    BY <1>6, <2>1 DEF Escrow!Next
<1>13. QED
  BY <1>3, <1>11, <1>12

LEMMA AnswerStutters ==
  ASSUME IInv, NEW m \in inFlight, NEW t \in Tokens, NEW followup \in {"none", "named"},
         SendBack(m, followup)
  PROVE  UNCHANGED Escrow(t)!vars
<1>1. PICK x : x = Returned(m, followup)
  OBVIOUS
<1>2. ~m.ret /\ inFlight' = (inFlight \ {m}) \cup {x} /\ store' = store
  BY <1>1 DEF SendBack
<1>3. m \in Messages
  BY DEF IInv, TypeOK
<1>4. OriginOf(x, t) = OriginOf(m, t)
  <2>1. x.id = m.id /\ x.list = m.list /\ x.from = m.to /\ x.to = m.from /\ x.ret
    BY <1>1, <1>3, ReturnedFields
  <2>2. QED
    BY <1>2, <2>1 DEF OriginOf
<1>5. Pending(inFlight', t) = Pending(inFlight, t)
  BY <1>2, <1>4 DEF Pending
<1>6. QED
  BY <1>2, <1>5 DEF Escrow!vars

\* For every token a list of any length is settled once, as one transfer of its total.
THEOREM ListsAreEscrow == Spec => StepsAreEscrow
<1>1. ASSUME IInv, [Next]_vars, NEW t \in Tokens
      PROVE  [Escrow(t)!Next]_(Escrow(t)!vars)
  <2>1. ASSUME NEW m \in Requests, TransferInShard(m) PROVE Escrow(t)!Next
    BY <1>1, <2>1, TransferMoves
  <2>2. ASSUME NEW m \in Requests, SendToOtherShard(m) PROVE Escrow(t)!Next
    BY <1>1, <2>2, SendReserves
  <2>3. ASSUME NEW m \in inFlight, Deliver(m) PROVE Escrow(t)!Next
    BY <1>1, <2>3, DeliverSettles
  <2>4. ASSUME NEW m \in inFlight, NEW followup \in {"none", "named"}, SendBack(m, followup)
        PROVE  UNCHANGED Escrow(t)!vars
    BY <1>1, <2>4, AnswerStutters
  <2>5. ASSUME UNCHANGED <<store, inFlight>> PROVE UNCHANGED Escrow(t)!vars
    BY <2>5 DEF Escrow!vars
  <2>6. CASE \/ \E p \in Freezable : ToggleFreeze(p[1], p[2])
             \/ \E p \in Pausable : TogglePause(p[1], p[2])
    BY <2>5, <2>6 DEF ToggleFreeze, TogglePause
  <2>7. CASE UNCHANGED vars
    BY <2>5, <2>7 DEF vars
  <2>8. QED
    BY <1>1, <2>1, <2>2, <2>3, <2>4, <2>6, <2>7 DEF Next
<1>2. IInv /\ [Next]_vars => [\A t \in Tokens : [Escrow(t)!Next]_(Escrow(t)!vars)]_vars
  BY <1>1
<1>3. QED
  BY <1>2, Invariant, PTL DEF Spec, StepsAreEscrow

=============================================================================

----------------------- MODULE MultiShardNoncesProofs -----------------------
(***************************************************************************)
(* When nonces of tokens created from several shards can repeat, and that  *)
(* they never do if DCTSC gives the roles once, for any number of          *)
(* creators, any size of their spaces and any last bytes.                  *)
(***************************************************************************)
EXTENDS MultiShardNonces, TLAPS

\* Spaces of creators with different last bytes do not touch.
LEMMA SpacesDisjoint ==
  ASSUME NEW a \in Accounts, NEW b \in Accounts, LastByte[a] < LastByte[b]
  PROVE  /\ StartNonce(a) \in Nat /\ StartNonce(b) \in Nat
         /\ StartNonce(a) + Stride <= StartNonce(b)
<1>1. LastByte[a] \in Nat /\ LastByte[b] \in Nat /\ Stride \in Nat
  BY SpaceAssumption
<1>2. PICK d \in Nat : LastByte[b] = LastByte[a] + 1 + d
  <2>1. LastByte[b] - LastByte[a] - 1 \in Nat
    BY <1>1
  <2>2. QED
    BY <1>1, <2>1
<1>3. Stride * LastByte[b] = Stride * LastByte[a] + Stride + Stride * d
  BY <1>1, <1>2
<1>4. Stride * d \in Nat /\ Stride * LastByte[a] \in Nat
  BY <1>1
<1>5. QED
  BY <1>1, <1>3, <1>4 DEF StartNonce

LEMMA StartNonceType == \A a \in Accounts : StartNonce(a) \in Nat
<1> SUFFICES ASSUME NEW a \in Accounts PROVE StartNonce(a) \in Nat
  OBVIOUS
<1>1. LastByte[a] \in Nat /\ Stride \in Nat
  BY SpaceAssumption
<1>2. QED
  BY <1>1 DEF StartNonce

\* A token's nonce tells which creator's space it comes from.
NonceInSpace ==
  \A i \in DOMAIN created :
    created[i].nonce - StartNonce(created[i].by) \in 1..Stride

\* Only who was given the roles has them and creates.
Creators ==
  /\ \A a \in Accounts : createRoles[a] <= sets[a]
  /\ \A i \in DOMAIN created : sets[created[i].by] > 0

\* The counter of who was given the roles is in its space and not behind the tokens
\* of its term.
Counters ==
  /\ \A a \in Accounts : sets[a] > 0 => latestNonce[a] \in StartNonce(a)..(StartNonce(a) + Stride)
  /\ \A i \in DOMAIN created :
       LET a == created[i].by
       IN  /\ created[i].term <= resets[a]
           /\ created[i].term = resets[a] => created[i].nonce <= latestNonce[a]

\* Who was given the roles once creates in one term, and in no later one.
OneTerm ==
  \A i \in DOMAIN created :
    LET a == created[i].by
    IN  sets[a] = 1 =>
          /\ createRoles[a] > 0 => created[i].term = resets[a]
          /\ \A j \in DOMAIN created : created[j].by = a => created[j].term = created[i].term

IInv == TypeOK /\ Creators /\ Counters /\ OneTerm /\ NonceInSpace /\ NoncesRepeatOnlyIfPutBack

LEMMA InitIInv == Init => IInv
  BY DEF Init, IInv, TypeOK, Creators, Counters, OneTerm, NonceInSpace,
         NoncesRepeatOnlyIfPutBack, Tokens

\* Tokens of spaces that do not touch have different nonces.
LEMMA SameNonceSameByte ==
  ASSUME NEW a \in Accounts, NEW b \in Accounts, NEW n \in Nat,
         n - StartNonce(a) \in 1..Stride, n - StartNonce(b) \in 1..Stride
  PROVE  LastByte[a] = LastByte[b]
<1>1. /\ LastByte[a] \in Int /\ LastByte[b] \in Int /\ Stride \in Nat
      /\ StartNonce(a) \in Nat /\ StartNonce(b) \in Nat
  BY SpaceAssumption, StartNonceType
<1>2. ~ (LastByte[a] < LastByte[b])
  <2> SUFFICES ASSUME LastByte[a] < LastByte[b] PROVE FALSE
    OBVIOUS
  <2>1. StartNonce(a) + Stride <= StartNonce(b)
    BY SpacesDisjoint
  <2>2. QED
    BY <1>1, <2>1
<1>3. ~ (LastByte[b] < LastByte[a])
  <2> SUFFICES ASSUME LastByte[b] < LastByte[a] PROVE FALSE
    OBVIOUS
  <2>1. StartNonce(b) + Stride <= StartNonce(a)
    BY SpacesDisjoint
  <2>2. QED
    BY <1>1, <2>1
<1>4. QED
  BY <1>1, <1>2, <1>3

LEMMA CreateKeepsIInv ==
  ASSUME IInv, NEW a \in Accounts, NFTCreate(a)
  PROVE  IInv'
<1> DEFINE n == latestNonce[a] + 1
           t == [nonce |-> n, by |-> a, term |-> resets[a]]
           l == Len(created) + 1
<1>1. /\ createRoles \in [Accounts -> Nat] /\ latestNonce \in [Accounts -> Nat]
      /\ created \in Seq(Tokens) /\ sets \in [Accounts -> Nat] /\ resets \in [Accounts -> Nat]
  BY DEF IInv, TypeOK
<1>2. /\ createRoles[a] > 0 /\ latestNonce[a] < StartNonce(a) + Stride
      /\ created' = Append(created, t) /\ latestNonce' = [latestNonce EXCEPT ![a] = n]
      /\ UNCHANGED <<createRoles, sets, resets>>
  BY DEF NFTCreate, HasSpace
<1>3. /\ n \in Nat /\ t \in Tokens /\ t.nonce = n /\ t.by = a /\ t.term = resets[a]
      /\ StartNonce(a) \in Nat /\ Stride \in Nat
  BY <1>1, StartNonceType, SpaceAssumption DEF Tokens
<1>4. TypeOK'
  <2>1. created' \in Seq(Tokens)
    BY <1>1, <1>2, <1>3
  <2>2. latestNonce' \in [Accounts -> Nat]
    BY <1>1, <1>2, <1>3
  <2>3. QED
    BY <1>1, <1>2, <2>1, <2>2 DEF TypeOK
<1> HIDE DEF t
<1>5. /\ l \in Nat /\ \A i \in DOMAIN created : i \in Nat /\ i < l
      /\ DOMAIN created' = DOMAIN created \cup {l}
      /\ \A i \in DOMAIN created : created'[i] = created[i] /\ created[i] \in Tokens
      /\ created'[l] = t
  <2>1. /\ DOMAIN created = 1..Len(created) /\ Len(created) \in Nat
        /\ DOMAIN created' = 1..(Len(created) + 1)
        /\ \A i \in DOMAIN created : created'[i] = created[i] /\ created[i] \in Tokens
        /\ created'[Len(created) + 1] = t
    BY <1>1, <1>2, <1>3
  <2>2. QED
    BY <2>1
<1> HIDE DEF l
<1>6. /\ sets[a] > 0 /\ latestNonce[a] \in StartNonce(a)..(StartNonce(a) + Stride)
      /\ \A i \in DOMAIN created : created[i].by = a /\ created[i].term = resets[a]
                                    => created[i].nonce <= latestNonce[a]
  <2>1. createRoles[a] <= sets[a]
    BY DEF IInv, Creators
  <2>2. sets[a] > 0
    BY <1>1, <1>2, <2>1
  <2>3. QED
    BY <2>2 DEF IInv, Counters
<1>7. \A i \in DOMAIN created : /\ created[i].nonce \in Nat /\ created[i].by \in Accounts
                                /\ created[i].term \in Nat /\ created[i].term <= resets[created[i].by]
  BY <1>5 DEF Tokens, IInv, Counters
<1>8. Creators'
  BY <1>2, <1>3, <1>5, <1>6 DEF IInv, Creators
<1>9. Counters'
  <2>1. latestNonce'[a] = n /\ \A b \in Accounts : b # a => latestNonce'[b] = latestNonce[b]
    BY <1>1, <1>2
  <2>2. n \in StartNonce(a)..(StartNonce(a) + Stride)
    BY <1>1, <1>2, <1>3, <1>6
  <2>3. ASSUME NEW b \in Accounts, sets'[b] > 0
        PROVE  latestNonce'[b] \in StartNonce(b)..(StartNonce(b) + Stride)
    <3>1. CASE b = a
      BY <2>1, <2>2, <3>1
    <3>2. CASE b # a
      BY <1>2, <2>1, <2>3, <3>2 DEF IInv, Counters
    <3>3. QED
      BY <3>1, <3>2
  <2>4. ASSUME NEW i \in DOMAIN created'
        PROVE  /\ created'[i].term <= resets'[created'[i].by]
               /\ created'[i].term = resets'[created'[i].by]
                    => created'[i].nonce <= latestNonce'[created'[i].by]
    <3>1. CASE i = l
      <4>1. resets[a] \in Nat /\ n \in Nat
        BY <1>1, <1>3
      <4>2. QED
        BY <1>2, <1>3, <1>5, <2>1, <3>1, <4>1
    <3>2. CASE i \in DOMAIN created /\ created[i].by = a
      <4>1. created[i].term = resets[a] => created[i].nonce <= n
        BY <1>1, <1>6, <1>7, <3>2
      <4>2. QED
        BY <1>2, <1>5, <1>7, <2>1, <3>2, <4>1
    <3>3. CASE i \in DOMAIN created /\ created[i].by # a
      BY <1>2, <1>5, <1>7, <2>1, <3>3 DEF IInv, Counters
    <3>4. QED
      BY <1>5, <3>1, <3>2, <3>3
  <2>5. QED
    BY <2>3, <2>4 DEF Counters, StartNonce
<1>10. OneTerm'
  <2>1. \A i \in DOMAIN created : created[i].by = a /\ sets[a] = 1 => created[i].term = resets[a]
    BY <1>2 DEF IInv, OneTerm
  <2>2. QED
    BY <1>2, <1>3, <1>5, <2>1 DEF IInv, OneTerm
<1>11. n - StartNonce(a) \in 1..Stride
  BY <1>1, <1>2, <1>3, <1>6
<1>12. NonceInSpace'
  BY <1>3, <1>5, <1>11 DEF IInv, NonceInSpace, StartNonce
<1>13. \A i \in DOMAIN created :
         created[i].nonce = n =>
           /\ LastByte[created[i].by] = LastByte[a]
           /\ created[i].by = a => created[i].term < resets[a]
  <2> SUFFICES ASSUME NEW i \in DOMAIN created, created[i].nonce = n
               PROVE  /\ LastByte[created[i].by] = LastByte[a]
                      /\ created[i].by = a => created[i].term < resets[a]
    OBVIOUS
  <2>1. n - StartNonce(created[i].by) \in 1..Stride
    BY DEF IInv, NonceInSpace
  <2>2. LastByte[created[i].by] = LastByte[a]
    BY <1>3, <1>7, <1>11, <2>1, SameNonceSameByte
  <2>3. ASSUME created[i].by = a PROVE created[i].term < resets[a]
    <3>1. created[i].term # resets[a]
      BY <1>1, <1>6, <2>3
    <3>2. QED
      BY <1>1, <1>7, <2>3, <3>1
  <2>4. QED
    BY <2>2, <2>3
<1>14. NoncesRepeatOnlyIfPutBack'
  <2> SUFFICES ASSUME NEW i \in DOMAIN created', NEW j \in DOMAIN created',
                      i < j, created'[i].nonce = created'[j].nonce
               PROVE  /\ LastByte[created'[i].by] = LastByte[created'[j].by]
                      /\ created'[i].by = created'[j].by => created'[i].term < created'[j].term
    BY DEF NoncesRepeatOnlyIfPutBack
  <2>1. CASE j = l
    <3>1. i \in DOMAIN created
      BY <1>5, <2>1
    <3>2. QED
      BY <1>3, <1>5, <1>13, <2>1, <3>1
  <2>2. CASE j # l
    <3>1. i \in DOMAIN created /\ j \in DOMAIN created
      BY <1>5, <2>2
    <3>2. QED
      BY <1>5, <3>1 DEF IInv, NoncesRepeatOnlyIfPutBack
  <2>3. QED
    BY <2>1, <2>2
<1>15. QED
  BY <1>4, <1>8, <1>9, <1>10, <1>12, <1>14 DEF IInv

\* A counter put back starts a new term, in which there are no tokens yet.
LEMMA PutBackKeepsCounters ==
  ASSUME IInv, NEW a \in Accounts, PutBack(a), UNCHANGED created,
         \A b \in Accounts : b # a => sets'[b] = sets[b]
  PROVE  /\ Counters'
         /\ latestNonce' \in [Accounts -> Nat] /\ resets' \in [Accounts -> Nat]
<1>1. /\ latestNonce \in [Accounts -> Nat] /\ resets \in [Accounts -> Nat]
      /\ created \in Seq(Tokens) /\ StartNonce(a) \in Nat /\ Stride \in Nat
  BY StartNonceType, SpaceAssumption DEF IInv, TypeOK
<1>2. /\ latestNonce' = [latestNonce EXCEPT ![a] = StartNonce(a)]
      /\ resets' = [resets EXCEPT ![a] = resets[a] + 1] /\ created' = created
  BY DEF PutBack
<1>3. /\ latestNonce'[a] = StartNonce(a) /\ resets'[a] = resets[a] + 1 /\ resets[a] \in Nat
      /\ \A b \in Accounts : b # a => latestNonce'[b] = latestNonce[b] /\ resets'[b] = resets[b]
  BY <1>1, <1>2
<1>4. ASSUME NEW b \in Accounts, sets'[b] > 0
      PROVE  latestNonce'[b] \in StartNonce(b)..(StartNonce(b) + Stride)
  <2>1. CASE b = a
    BY <1>1, <1>3, <2>1
  <2>2. CASE b # a
    BY <1>3, <1>4, <2>2 DEF IInv, Counters
  <2>3. QED
    BY <2>1, <2>2
<1>5. ASSUME NEW i \in DOMAIN created
      PROVE  /\ created[i].term <= resets'[created[i].by]
             /\ created[i].term = resets'[created[i].by]
                  => created[i].nonce <= latestNonce'[created[i].by]
  <2>1. created[i] \in Tokens /\ created[i].term <= resets[created[i].by]
    BY <1>1 DEF IInv, Counters
  <2>2. CASE created[i].by = a
    BY <1>3, <2>1, <2>2 DEF Tokens
  <2>3. CASE created[i].by # a
    BY <1>3, <2>1, <2>3 DEF Tokens, IInv, Counters
  <2>4. QED
    BY <2>2, <2>3
<1>6. Counters'
  BY <1>2, <1>4, <1>5 DEF Counters, StartNonce
<1>7. QED
  BY <1>1, <1>2, <1>6

LEMMA StepIInv == IInv /\ [Next]_vars => IInv'
<1> SUFFICES ASSUME IInv, [Next]_vars PROVE IInv'
  OBVIOUS
<1>0. /\ createRoles \in [Accounts -> Nat] /\ created \in Seq(Tokens) /\ sets \in [Accounts -> Nat]
      /\ \A i \in DOMAIN created : created[i].by \in Accounts
  <2>1. /\ createRoles \in [Accounts -> Nat] /\ created \in Seq(Tokens) /\ sets \in [Accounts -> Nat]
    BY DEF IInv, TypeOK
  <2>2. \A i \in DOMAIN created : created[i] \in Tokens
    BY <2>1
  <2>3. QED
    BY <2>1, <2>2 DEF Tokens
<1>1. ASSUME NEW a \in Accounts, SetRoles(a) PROVE IInv'
  <2>1. /\ PutBack(a) /\ UNCHANGED created
        /\ createRoles' = [createRoles EXCEPT ![a] = @ + 1] /\ sets' = [sets EXCEPT ![a] = @ + 1]
    BY <1>1 DEF SetRoles
  <2>2. /\ sets'[a] = sets[a] + 1 /\ createRoles'[a] = createRoles[a] + 1
        /\ sets[a] \in Nat /\ createRoles[a] \in Nat
        /\ \A b \in Accounts : b # a => sets'[b] = sets[b] /\ createRoles'[b] = createRoles[b]
    BY <1>0, <2>1
  <2>3. Counters' /\ latestNonce' \in [Accounts -> Nat] /\ resets' \in [Accounts -> Nat]
    BY <2>1, <2>2, PutBackKeepsCounters
  <2>4. TypeOK'
    <3>1. createRoles' \in [Accounts -> Nat] /\ sets' \in [Accounts -> Nat]
      BY <1>0, <2>1
    <3>2. QED
      BY <1>0, <2>1, <2>3, <3>1 DEF TypeOK
  <2>5. Creators'
    <3>1. ASSUME NEW b \in Accounts PROVE createRoles'[b] <= sets'[b]
      BY <2>2, <3>1 DEF IInv, Creators
    <3>2. ASSUME NEW i \in DOMAIN created PROVE sets'[created[i].by] > 0
      BY <1>0, <2>2, <3>2 DEF IInv, Creators
    <3>3. QED
      BY <2>1, <3>1, <3>2 DEF Creators
  <2>6. OneTerm'
    <3>1. ASSUME NEW i \in DOMAIN created, sets'[created[i].by] = 1 PROVE created[i].by # a
      BY <2>2, <3>1 DEF IInv, Creators
    <3>2. \A b \in Accounts : b # a => resets'[b] = resets[b]
      BY <2>1 DEF PutBack, IInv, TypeOK
    <3>3. QED
      BY <1>0, <2>1, <2>2, <3>1, <3>2 DEF IInv, OneTerm
  <2>7. QED
    BY <2>1, <2>3, <2>4, <2>5, <2>6
    DEF IInv, NonceInSpace, NoncesRepeatOnlyIfPutBack, StartNonce
<1>2. ASSUME NEW a \in Accounts, UnSetRoles(a) PROVE IInv'
  <2>1. /\ PutBack(a) /\ UNCHANGED <<created, sets>>
        /\ createRoles' = [createRoles EXCEPT ![a] = IF @ > 0 THEN @ - 1 ELSE @]
    BY <1>2 DEF UnSetRoles
  <2>2. /\ createRoles'[a] = IF createRoles[a] > 0 THEN createRoles[a] - 1 ELSE createRoles[a]
        /\ createRoles[a] \in Nat /\ sets[a] \in Nat /\ createRoles[a] <= sets[a]
        /\ \A b \in Accounts : b # a => createRoles'[b] = createRoles[b]
    BY <1>0, <2>1 DEF IInv, Creators
  <2>3. Counters' /\ latestNonce' \in [Accounts -> Nat] /\ resets' \in [Accounts -> Nat]
    BY <2>1, PutBackKeepsCounters
  <2>4. TypeOK'
    <3>1. createRoles' \in [Accounts -> Nat]
      BY <1>0, <2>1
    <3>2. QED
      BY <1>0, <2>1, <2>3, <3>1 DEF TypeOK
  <2>5. Creators'
    <3>1. ASSUME NEW b \in Accounts PROVE createRoles'[b] <= sets[b]
      BY <2>2, <3>1 DEF IInv, Creators
    <3>2. QED
      BY <2>1, <3>1 DEF IInv, Creators
  <2>6. OneTerm'
    <3>1. sets[a] = 1 => ~ (createRoles'[a] > 0)
      BY <2>2
    <3>2. \A b \in Accounts : b # a => resets'[b] = resets[b]
      BY <2>1 DEF PutBack, IInv, TypeOK
    <3>3. ASSUME NEW i \in DOMAIN created, sets[created[i].by] = 1
          PROVE  /\ createRoles'[created[i].by] > 0 => created[i].term = resets'[created[i].by]
                 /\ \A j \in DOMAIN created :
                      created[j].by = created[i].by => created[j].term = created[i].term
      <4>1. created[i].by # a => createRoles'[created[i].by] = createRoles[created[i].by]
                                 /\ resets'[created[i].by] = resets[created[i].by]
        BY <1>0, <2>2, <3>2
      <4>2. QED
        BY <3>1, <3>3, <4>1 DEF IInv, OneTerm
    <3>4. QED
      BY <2>1, <3>3 DEF OneTerm
  <2>7. QED
    BY <2>1, <2>3, <2>4, <2>5, <2>6
    DEF IInv, NonceInSpace, NoncesRepeatOnlyIfPutBack, StartNonce
<1>3. ASSUME NEW a \in Accounts, UnSetCreateRole(a) PROVE IInv'
  <2>1. /\ UNCHANGED <<latestNonce, created, sets, resets>>
        /\ createRoles' = [createRoles EXCEPT ![a] = IF @ > 0 THEN @ - 1 ELSE @]
    BY <1>3 DEF UnSetCreateRole
  <2>2. \A b \in Accounts : createRoles'[b] \in Nat /\ createRoles'[b] <= createRoles[b]
                            /\ (createRoles'[b] > 0 => createRoles[b] > 0)
    BY <1>0, <2>1
  <2>3. createRoles' \in [Accounts -> Nat]
    BY <1>0, <2>1
  <2>4. TypeOK'
    BY <2>1, <2>3 DEF IInv, TypeOK
  <2>5. Creators'
    <3>1. ASSUME NEW b \in Accounts PROVE createRoles'[b] <= sets[b]
      BY <1>0, <2>2, <3>1 DEF IInv, Creators
    <3>2. QED
      BY <2>1, <3>1 DEF IInv, Creators
  <2>6. OneTerm'
    <3>1. \A i \in DOMAIN created : createRoles'[created[i].by] > 0 => createRoles[created[i].by] > 0
      BY <1>0, <2>2
    <3>2. QED
      BY <2>1, <3>1 DEF IInv, OneTerm
  <2>7. QED
    BY <2>1, <2>4, <2>5, <2>6
    DEF IInv, Counters, NonceInSpace, NoncesRepeatOnlyIfPutBack, StartNonce
<1>4. ASSUME NEW a \in Accounts, NFTCreate(a) PROVE IInv'
  BY <1>4, CreateKeepsIInv
<1>5. CASE UNCHANGED vars
  BY <1>5 DEF vars, IInv, TypeOK, Creators, Counters, OneTerm, NonceInSpace,
              NoncesRepeatOnlyIfPutBack, StartNonce
<1> QED
  BY <1>1, <1>2, <1>3, <1>4, <1>5 DEF Next

\* Who was given the roles once counts on from where it was, so that its nonces do not
\* repeat; and who ends in different bytes counts in different spaces.
LEMMA GivenOnceIsDistinct == IInv => DistinctNonces
<1> SUFFICES ASSUME IInv, GivenOnce, NEW i \in DOMAIN created, NEW j \in DOMAIN created,
                    i < j, created[i].nonce = created[j].nonce
             PROVE  FALSE
  <2>1. created \in Seq(Tokens) => \A i, j \in DOMAIN created : i \in Nat /\ j \in Nat
    OBVIOUS
  <2>2. IInv => created \in Seq(Tokens)
    BY DEF IInv, TypeOK
  <2>3. QED
    BY <2>1, <2>2 DEF DistinctNonces
<1> DEFINE a == created[i].by
           b == created[j].by
<1>1. /\ created[i] \in Tokens /\ created[j] \in Tokens /\ sets \in [Accounts -> Nat]
      /\ sets[a] > 0 /\ sets[b] > 0
  BY DEF IInv, TypeOK, Creators
<1>2. a \in Accounts /\ b \in Accounts /\ created[i].term \in Nat
  BY <1>1 DEF Tokens
<1>3. LastByte[a] = LastByte[b] /\ (a = b => created[i].term < created[j].term)
  BY DEF IInv, NoncesRepeatOnlyIfPutBack
<1>4. a = b /\ sets[a] = 1
  BY <1>1, <1>2, <1>3 DEF GivenOnce
<1>5. created[i].term = created[j].term
  BY <1>4 DEF IInv, OneTerm
<1>6. QED
  BY <1>2, <1>3, <1>4, <1>5

\* Counters and roles stay natural numbers and every token has a creator: unsetting a
\* role (dctRoles.go) never takes one that is not there.
THEOREM TypeCorrect == Spec => []TypeOK
<1>1. IInv => TypeOK
  BY DEF IInv
<1>2. QED
  BY <1>1, InitIInv, StepIInv, PTL DEF Spec

\* If DCTSC gives the roles to an address once at most and to no two addresses that end
\* alike, and no creator exhausts its space, then creators in different shards never
\* give out the same nonce.
THEOREM NoncesDistinct == Spec => []DistinctNonces
<1>1. QED
  BY GivenOnceIsDistinct, InitIInv, StepIInv, PTL DEF Spec

\* However often DCTSC sets and unsets the roles, only creators that end alike, or one
\* whose counter was put back in between, give out a nonce a second time.
THEOREM NoncesRepeatRarely == Spec => []NoncesRepeatOnlyIfPutBack
<1>1. IInv => NoncesRepeatOnlyIfPutBack
  BY DEF IInv
<1>2. QED
  BY <1>1, InitIInv, StepIInv, PTL DEF Spec
=============================================================================

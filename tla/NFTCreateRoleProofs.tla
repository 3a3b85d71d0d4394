------------------------- MODULE NFTCreateRoleProofs -------------------------
(***************************************************************************)
(* Theorems about NFTCreateRole for any accounts and shards: two for as    *)
(* long as DCTSC lets every move of the role end, two whatever it does.    *)
(***************************************************************************)
EXTENDS NFTCreateRole, FiniteSetTheorems, TLAPS

\* Role and nonce are with p, or with nobody when p is None.
At(p) ==
  /\ createRoles = [a \in Accounts |-> IF a = p THEN 1 ELSE 0]
  /\ latestNonce = [a \in Accounts |-> IF a = p THEN Len(created) ELSE 0]

NotGiven == owner = None /\ Quiet /\ created = <<>> /\ At(None)

Given ==
  /\ owner \in Accounts /\ orders = {[at |-> owner, next |-> None]} /\ roleMsgs = {}
  /\ created = <<>> /\ At(None)

Settled == owner \in Accounts /\ Quiet /\ At(owner)

Leaving(p) ==
  /\ owner \in Accounts /\ p # owner
  /\ orders = {[at |-> p, next |-> owner]} /\ roleMsgs = {} /\ At(p)

Arriving ==
  /\ owner \in Accounts /\ orders = {}
  /\ roleMsgs = {[to |-> owner, nonce |-> Len(created)]} /\ At(None)

\* The right to create is in one of five stages of its way.
Stage == NotGiven \/ Given \/ Settled \/ (\E p \in Accounts : Leaving(p)) \/ Arriving

Numbered == \A i \in DOMAIN created : created[i] = i

SInv == created \in Seq(Nat) /\ Numbered /\ Stage

LEMMA InitSInv == Init => SInv
  BY RoleAssumption DEF Init, SInv, Numbered, Stage, NotGiven, Quiet, At

\* A token is only created where the role is, with the next nonce.
LEMMA CreateKeepsSInv ==
  ASSUME SInv, NEW a \in Accounts, NFTCreate(a)
  PROVE  SInv'
<1>1. created \in Seq(Nat) /\ Len(created) \in Nat /\ a # None
  BY RoleAssumption DEF SInv
<1>2. /\ createRoles[a] > 0 /\ created' = Append(created, latestNonce[a] + 1)
      /\ latestNonce' = [latestNonce EXCEPT ![a] = latestNonce[a] + 1]
      /\ UNCHANGED <<createRoles, roleMsgs, owner, orders>>
  BY DEF NFTCreate, HasCreateRole
<1>3. ~At(None)
  BY <1>1, <1>2 DEF At
<1>4. ASSUME NEW p \in Accounts, At(p) PROVE a = p /\ At(p)' /\ latestNonce[a] = Len(created)
  <2>1. a = p /\ latestNonce[a] = Len(created)
    BY <1>1, <1>2, <1>4 DEF At
  <2>2. Len(created') = Len(created) + 1
    BY <1>1, <1>2, <2>1
  <2>3. latestNonce' = [b \in Accounts |-> IF b = p THEN Len(created') ELSE 0]
    BY <1>2, <1>4, <2>1, <2>2 DEF At
  <2>4. QED
    BY <1>2, <1>4, <2>1, <2>3 DEF At
<1>5. PICK p \in Accounts : At(p)
  BY <1>3 DEF SInv, Stage, NotGiven, Given, Settled, Leaving, Arriving
<1>6. created' \in Seq(Nat) /\ Numbered'
  <2>1. created' = Append(created, Len(created) + 1)
    BY <1>2, <1>4, <1>5
  <2>2. QED
    BY <1>1, <2>1 DEF SInv, Numbered
<1>7. Stage'
  <2>1. CASE Settled
    BY <1>2, <1>4, <2>1 DEF Settled, Stage, Quiet
  <2>2. ASSUME NEW q \in Accounts, Leaving(q) PROVE Stage'
    <3>1. At(q)'
      BY <1>4, <2>2 DEF Leaving
    <3>2. Leaving(q)'
      BY <1>2, <2>2, <3>1 DEF Leaving
    <3>3. QED
      BY <3>2 DEF Stage
  <2>3. QED
    BY <1>3, <2>1, <2>2 DEF SInv, Stage, NotGiven, Given, Arriving
<1>8. QED
  BY <1>6, <1>7 DEF SInv

LEMMA TransferKeepsSInv ==
  ASSUME SInv, NEW o \in orders, TransferAtCurrentOwner(o)
  PROVE  SInv'
<1>1. o.next # None
  BY DEF TransferAtCurrentOwner
<1>2. PICK p \in Accounts : Leaving(p)
  BY <1>1 DEF SInv, Stage, NotGiven, Given, Settled, Arriving, Quiet
<1>3. o.at = p /\ o.next = owner /\ owner \in Accounts /\ p # owner /\ p # None /\ owner # None
  BY <1>2, RoleAssumption DEF Leaving
<1>4. orders' = {} /\ created' = created /\ owner' = owner
  BY <1>2 DEF TransferAtCurrentOwner, Leaving
<1>5. At(p)
  BY <1>2 DEF Leaving
<1>6. CASE ShardOf[o.at] = ShardOf[o.next]
  <2>1. /\ createRoles' = WithRole(WithoutRole(createRoles, p), owner)
        /\ latestNonce' = [[latestNonce EXCEPT ![p] = 0] EXCEPT ![owner] = latestNonce[p]]
        /\ roleMsgs' = roleMsgs
    BY <1>3, <1>6 DEF TransferAtCurrentOwner
  <2>2. createRoles' = [a \in Accounts |-> IF a = owner THEN 1 ELSE 0]
    BY <1>3, <1>5, <2>1 DEF WithRole, WithoutRole, At
  <2>3. latestNonce' = [a \in Accounts |-> IF a = owner THEN Len(created) ELSE 0]
    BY <1>3, <1>5, <2>1 DEF At
  <2>4. Settled'
    BY <1>2, <1>3, <1>4, <2>1, <2>2, <2>3 DEF Settled, Quiet, At, Leaving
  <2>5. QED
    BY <1>4, <2>4 DEF SInv, Stage, Numbered
<1>7. CASE ShardOf[o.at] # ShardOf[o.next]
  <2>1. /\ createRoles' = WithoutRole(createRoles, p)
        /\ latestNonce' = [latestNonce EXCEPT ![p] = 0]
        /\ roleMsgs' = roleMsgs \cup {[to |-> owner, nonce |-> latestNonce[p]]}
    BY <1>3, <1>7 DEF TransferAtCurrentOwner
  <2>2. /\ createRoles' = [a \in Accounts |-> IF a = None THEN 1 ELSE 0]
        /\ latestNonce' = [a \in Accounts |-> IF a = None THEN Len(created) ELSE 0]
    <3>1. \A a \in Accounts : a # None
      BY RoleAssumption
    <3>2. createRoles' = [a \in Accounts |-> 0]
      BY <1>3, <1>5, <2>1 DEF WithoutRole, At
    <3>3. latestNonce' = [a \in Accounts |-> 0]
      BY <1>3, <1>5, <2>1 DEF At
    <3>4. QED
      BY <3>1, <3>2, <3>3
  <2>3. roleMsgs' = {[to |-> owner, nonce |-> Len(created)]}
    BY <1>2, <1>5, <2>1 DEF At, Leaving
  <2>4. Arriving'
    BY <1>3, <1>4, <2>2, <2>3 DEF Arriving, At
  <2>5. QED
    BY <1>4, <2>4 DEF SInv, Stage, Numbered
<1>8. QED
  BY <1>6, <1>7

LEMMA StepSInv == serialised' /\ SInv /\ [Next]_vars => SInv'
<1> SUFFICES ASSUME serialised', SInv, [Next]_vars PROVE SInv'
  OBVIOUS
<1>1. ASSUME NEW a \in Accounts, GiveRole(a) PROVE SInv'
  <2>1. NotGiven
    BY <1>1, RoleAssumption DEF GiveRole, SInv, Stage, Given, Settled, Leaving, Arriving
  <2>2. Given'
    BY <1>1, <2>1 DEF GiveRole, NotGiven, Given, Quiet, At
  <2>3. QED
    BY <1>1, <2>2 DEF GiveRole, SInv, Stage, Numbered
<1>2. ASSUME NEW a \in Accounts, MoveRole(a) PROVE SInv'
  <2>1. Settled
    BY <1>2 DEF MoveRole, SInv, Stage, NotGiven, Given, Leaving, Arriving, Quiet
  <2>3. \E p \in Accounts : Leaving(p)'
    BY <1>2, <2>1 DEF MoveRole, Settled, Leaving, Quiet, At
  <2>4. QED
    BY <1>2, <2>3 DEF MoveRole, SInv, Stage, Numbered
<1>3. ASSUME NEW a \in Accounts, NFTCreate(a) PROVE SInv'
  BY <1>3, CreateKeepsSInv
<1>4. ASSUME NEW o \in orders, SetRole(o) PROVE SInv'
  <2>1. Given
    BY <1>4, RoleAssumption
    DEF SetRole, SInv, Stage, NotGiven, Settled, Leaving, Arriving, Quiet
  <2>2. o.at = owner /\ orders' = {} /\ roleMsgs' = {} /\ created' = created /\ owner' = owner
    BY <1>4, <2>1 DEF SetRole, Given
  <2>3. At(owner)'
    BY <1>4, <2>1, <2>2, RoleAssumption DEF SetRole, Given, At
  <2>4. QED
    BY <2>1, <2>2, <2>3 DEF SInv, Stage, Given, Settled, Quiet, Numbered
<1>5. ASSUME NEW o \in orders, TransferAtCurrentOwner(o) PROVE SInv'
  BY <1>5, TransferKeepsSInv
<1>6. ASSUME NEW m \in roleMsgs, TransferAtNextOwner(m) PROVE SInv'
  <2>1. Arriving
    BY <1>6 DEF SInv, Stage, NotGiven, Given, Settled, Leaving, Quiet
  <2>2. m.to = owner /\ m.nonce = Len(created) /\ roleMsgs' = {} /\ UNCHANGED <<created, owner, orders>>
    BY <1>6, <2>1 DEF TransferAtNextOwner, Arriving
  <2>a. \A a \in Accounts : a # None
    BY RoleAssumption
  <2>b. /\ createRoles = [a \in Accounts |-> 0] /\ latestNonce = [a \in Accounts |-> 0]
        /\ owner \in Accounts
    BY <2>1, <2>a DEF Arriving, At
  <2>c. createRoles' = [a \in Accounts |-> IF a = owner THEN 1 ELSE 0]
    BY <1>6, <2>2, <2>b DEF TransferAtNextOwner, WithRole
  <2>d. latestNonce' = [a \in Accounts |-> IF a = owner THEN Len(created) ELSE 0]
    BY <1>6, <2>2, <2>b DEF TransferAtNextOwner
  <2>3. At(owner)'
    BY <2>2, <2>c, <2>d DEF At
  <2>4. QED
    BY <2>1, <2>2, <2>3 DEF SInv, Stage, Arriving, Settled, Quiet, Numbered
<1>7. CASE UNCHANGED vars
  BY <1>7 DEF vars, SInv, Stage, NotGiven, Given, Settled, Leaving, Arriving, Quiet, At, Numbered
<1> QED
  BY <1>1, <1>2, <1>3, <1>4, <1>5, <1>6, <1>7 DEF Next, Execute

IInv == serialised => SInv

\* Once a move was not waited for, that remains so.
LEMMA NotSerialisedAgain ==
  ASSUME [Next]_vars, serialised'
  PROVE  serialised
  BY DEF Next, vars, GiveRole, MoveRole, NFTCreate, Execute, SetRole, TransferAtCurrentOwner,
         TransferAtNextOwner

LEMMA StepIInv == IInv /\ [Next]_vars => IInv'
  BY StepSInv, NotSerialisedAgain DEF IInv

LEMMA InitIInv == Init => IInv
  BY InitSInv DEF IInv

\* Tokens are numbered 1, 2, 3, ... however often the role moves.
THEOREM NoncesConsecutive == Spec => []ConsecutiveNonces
<1>1. IInv => ConsecutiveNonces
  BY DEF IInv, SInv, Numbered, ConsecutiveNonces
<1>2. QED
  BY <1>1, StepIInv, InitIInv, PTL DEF Spec

LEMMA StageHasOneCreator == SInv => SingleCreator
<1> SUFFICES ASSUME SInv PROVE SingleCreator
  OBVIOUS
<1>1. Cardinality({}) = 0 /\ \A x : Cardinality({x}) = 1
  BY FS_EmptySet, FS_Singleton
<1>2. ASSUME At(None) PROVE Holders = {} /\ \A a \in Accounts : createRoles[a] <= 1
  BY <1>2, RoleAssumption DEF At, Holders, HasCreateRole
<1>3. ASSUME NEW p \in Accounts, At(p)
      PROVE  Holders = {p} /\ \A a \in Accounts : createRoles[a] <= 1
  BY <1>3 DEF At, Holders, HasCreateRole
<1>4. ASSUME Holders = {}, Cardinality(roleMsgs) \in {0, 1}, \A a \in Accounts : createRoles[a] <= 1
      PROVE  SingleCreator
  BY <1>1, <1>4 DEF SingleCreator
<1>5. ASSUME NEW p, Holders = {p}, roleMsgs = {}, \A a \in Accounts : createRoles[a] <= 1
      PROVE  SingleCreator
  <2>1. Cardinality(Holders) = 1 /\ Cardinality(roleMsgs) = 0
    BY <1>1, <1>5
  <2>2. QED
    BY <1>5, <2>1 DEF SingleCreator
<1>6. CASE NotGiven \/ Given
  <2>1. At(None) /\ roleMsgs = {}
    BY <1>6 DEF NotGiven, Given, Quiet
  <2>2. QED
    BY <1>1, <1>2, <1>4, <2>1
<1>7. CASE Settled
  BY <1>3, <1>5, <1>7 DEF Settled, Quiet
<1>8. ASSUME NEW p \in Accounts, Leaving(p) PROVE SingleCreator
  BY <1>3, <1>5, <1>8 DEF Leaving
<1>9. CASE Arriving
  <2>1. At(None) /\ Cardinality(roleMsgs) = 1
    BY <1>1, <1>9 DEF Arriving
  <2>2. QED
    BY <1>2, <1>4, <2>1
<1> QED
  BY <1>6, <1>7, <1>8, <1>9 DEF SInv, Stage

\* The right to create is never with two accounts, nor with one and under way.
THEOREM OneCreator == Spec => []SingleCreator
<1>1. IInv => SingleCreator
  BY StageHasOneCreator DEF IInv, SingleCreator
<1>2. QED
  BY <1>1, StepIInv, InitIInv, PTL DEF Spec

-----------------------------------------------------------------------------
(* Whatever DCTSC does                                                     *)

LEMMA RoleTypes ==
  ASSUME NEW roles \in [Accounts -> Nat], NEW a \in Accounts
  PROVE  /\ WithRole(roles, a) \in [Accounts -> Nat] /\ WithRole(roles, a)[a] > 0
         /\ WithoutRole(roles, a) \in [Accounts -> Nat]
  BY DEF WithRole, WithoutRole

LEMMA TransferKeepsTypes ==
  ASSUME TypeOK, NEW o \in orders, TransferAtCurrentOwner(o)
  PROVE  TypeOK'
<1>1. o.at \in Accounts /\ o.next \in Accounts /\ latestNonce[o.at] \in Nat
  BY DEF TypeOK, Orders, TransferAtCurrentOwner
<1>2. /\ orders' \subseteq Orders /\ created' \in Seq(Nat) /\ owner' \in Accounts \cup {None}
      /\ serialised' \in BOOLEAN
  BY DEF TransferAtCurrentOwner, TypeOK
<1>3. latestNonce' \in [Accounts -> Nat]
  <2>1. \/ latestNonce' = [[latestNonce EXCEPT ![o.at] = 0] EXCEPT ![o.next] = latestNonce[o.at]]
        \/ latestNonce' = [latestNonce EXCEPT ![o.at] = 0]
    BY DEF TransferAtCurrentOwner
  <2>2. latestNonce \in [Accounts -> Nat]
    BY DEF TypeOK
  <2>3. [latestNonce EXCEPT ![o.at] = 0] \in [Accounts -> Nat]
    BY <2>2
  <2>4. \A f \in [Accounts -> Nat] :
          [f EXCEPT ![o.next] = latestNonce[o.at]] \in [Accounts -> Nat]
    BY <1>1
  <2>5. QED
    BY <2>1, <2>3, <2>4
<1>4. roleMsgs' \subseteq Messages
  BY <1>1 DEF TransferAtCurrentOwner, TypeOK, Messages
<1>5. createRoles' \in [Accounts -> Nat]
  <2>1. /\ createRoles \in [Accounts -> Nat]
        /\ \/ createRoles' = WithRole(WithoutRole(createRoles, o.at), o.next)
           \/ createRoles' = WithoutRole(createRoles, o.at)
    BY Zenon DEF TransferAtCurrentOwner, TypeOK
  <2>2. QED
    BY <1>1, <2>1, RoleTypes
<1>6. QED
  BY <1>2, <1>3, <1>4, <1>5 DEF TypeOK

LEMMA StepTypes == TypeOK /\ [Next]_vars => TypeOK'
<1> SUFFICES ASSUME TypeOK, [Next]_vars PROVE TypeOK'
  OBVIOUS
<1>1. ASSUME NEW a \in Accounts, GiveRole(a) \/ MoveRole(a) PROVE TypeOK'
  <2>1. /\ UNCHANGED <<createRoles, latestNonce, roleMsgs, created>> /\ owner' = a
        /\ serialised' \in BOOLEAN
    BY <1>1 DEF GiveRole, MoveRole, TypeOK
  <2>2. orders' \subseteq Orders
    BY <1>1 DEF GiveRole, MoveRole, TypeOK, Orders
  <2>3. QED
    BY <2>1, <2>2 DEF TypeOK
<1>2. ASSUME NEW a \in Accounts, NFTCreate(a) PROVE TypeOK'
  BY <1>2 DEF NFTCreate, TypeOK
<1>3. ASSUME NEW o \in orders, SetRole(o) PROVE TypeOK'
  BY <1>3 DEF SetRole, TypeOK, Orders
<1>4. ASSUME NEW o \in orders, TransferAtCurrentOwner(o) PROVE TypeOK'
  BY <1>4, TransferKeepsTypes
<1>5. ASSUME NEW m \in roleMsgs, TransferAtNextOwner(m) PROVE TypeOK'
  <2>1. m.to \in Accounts /\ m.nonce \in Nat
    BY DEF TypeOK, Messages
  <2>2. createRoles' \in [Accounts -> Nat]
    BY <1>5, <2>1, RoleTypes DEF TransferAtNextOwner, TypeOK
  <2>3. QED
    BY <1>5, <2>1, <2>2 DEF TransferAtNextOwner, TypeOK
<1>6. CASE UNCHANGED vars
  BY <1>6 DEF vars, TypeOK
<1> QED
  BY <1>1, <1>2, <1>3, <1>4, <1>5, <1>6 DEF Next, Execute

\* Roles are never taken from an account that has none, and messages are well formed.
THEOREM TypeCorrect == Spec => []TypeOK
<1>1. Init => TypeOK
  BY DEF Init, TypeOK
<1>2. QED
  BY <1>1, StepTypes, PTL DEF Spec

LEMMA StepKeepsRole == TypeOK /\ RoleNotLost /\ [Next]_vars => RoleNotLost'
<1> SUFFICES ASSUME TypeOK, RoleNotLost, [Next]_vars PROVE RoleNotLost'
  OBVIOUS
<1> USE DEF RoleNotLost, Holders, HasCreateRole
<1>1. ASSUME NEW a \in Accounts, GiveRole(a) \/ MoveRole(a) PROVE RoleNotLost'
  <2>1. CASE GiveRole(a)
    <3>1. [at |-> a, next |-> None] \in orders'
      BY <2>1 DEF GiveRole
    <3>2. QED
      BY <3>1
  <2>2. CASE MoveRole(a)
    <3>1. owner # None /\ orders \subseteq orders' /\ UNCHANGED <<createRoles, roleMsgs>>
      BY <2>2 DEF MoveRole
    <3>2. QED
      BY <3>1
  <2>3. QED
    BY <1>1, <2>1, <2>2
<1>2. ASSUME NEW a \in Accounts, NFTCreate(a) PROVE RoleNotLost'
  BY <1>2 DEF NFTCreate
<1>3. ASSUME NEW o \in orders, SetRole(o) PROVE RoleNotLost'
  <2>1. o.at \in Accounts /\ createRoles'[o.at] > 0
    BY <1>3 DEF SetRole, TypeOK, Orders
  <2>2. QED
    BY <2>1
<1>4. ASSUME NEW o \in orders, TransferAtCurrentOwner(o) PROVE RoleNotLost'
  <2>1. o.at \in Accounts /\ o.next \in Accounts
    BY <1>4 DEF TypeOK, Orders, TransferAtCurrentOwner
  <2>2. createRoles'[o.next] > 0 \/ roleMsgs' # {}
    <3>1. \/ createRoles' = WithRole(WithoutRole(createRoles, o.at), o.next)
          \/ roleMsgs' # {}
      BY <1>4 DEF TransferAtCurrentOwner
    <3>2. QED
      BY <2>1, <3>1, RoleTypes DEF TypeOK
  <2>3. QED
    BY <2>1, <2>2
<1>5. ASSUME NEW m \in roleMsgs, TransferAtNextOwner(m) PROVE RoleNotLost'
  <2>1. m.to \in Accounts /\ createRoles'[m.to] > 0
    BY <1>5, RoleTypes DEF TransferAtNextOwner, TypeOK, Messages
  <2>2. QED
    BY <2>1
<1>6. CASE UNCHANGED vars
  BY <1>6 DEF vars
<1> QED
  BY <1>1, <1>2, <1>3, <1>4, <1>5, <1>6 DEF Next, Execute

\* Somebody has the role or will get it, however the moves overlap.
THEOREM RoleStays == Spec => []RoleNotLost
<1>1. Init => RoleNotLost
  BY DEF Init, RoleNotLost
<1>2. QED
  BY <1>1, StepKeepsRole, TypeCorrect, PTL DEF Spec
=============================================================================

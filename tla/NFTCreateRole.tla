---------------------------- MODULE NFTCreateRole ----------------------------
(***************************************************************************)
(* Who may create the NFTs of one collection, and with which nonce.  The   *)
(* nonce of the last token created is kept with the account that has the   *)
(* DCTRoleNFTCreate role.  When the DCT system contract moves the role,    *)
(* the old owner's shard takes role and nonce off the account and sends    *)
(* the nonce to the new owner, in a message when that one lives in another *)
(* shard (dctNFTCreateRoleTransfer.go, dctRoles.go, dctNFTCreate.go).      *)
(*                                                                         *)
(* DCTSC, on the metachain, remembers who it gave the role to last.        *)
(***************************************************************************)
EXTENDS Integers, Sequences, FiniteSets

CONSTANTS
  Accounts,
  ShardOf,     \* the shard of every account
  None,        \* DCTSC has not given the role to anybody
  MaxTokens,   \* bound on the tokens created
  MaxMoves     \* bound on the calls of DCTSC and the messages under way

ASSUME RoleAssumption ==
  /\ None \notin Accounts
  /\ MaxTokens \in Nat /\ MaxMoves \in Nat

VARIABLES
  createRoles,  \* how often every account's DCTRoles lists DCTRoleNFTCreate
  latestNonce,  \* the value under getNonceKey, 0 when there is none
  roleMsgs,     \* nonces on their way to a new owner
  created,      \* the nonces given to tokens, in the order of their creation
  owner,        \* who DCTSC says has the role
  orders,       \* calls of DCTSC on their way to the shards
  serialised    \* DCTSC let every move of the role end before the next

vars == <<createRoles, latestNonce, roleMsgs, created, owner, orders, serialised>>

Messages == [to : Accounts, nonce : Nat]
Orders == [at : Accounts, next : Accounts \cup {None}]

TypeOK ==
  /\ createRoles \in [Accounts -> Nat]
  /\ latestNonce \in [Accounts -> Nat]
  /\ roleMsgs \subseteq Messages
  /\ created \in Seq(Nat)
  /\ owner \in Accounts \cup {None}
  /\ orders \subseteq Orders
  /\ serialised \in BOOLEAN

Init ==
  /\ createRoles = [a \in Accounts |-> 0]
  /\ latestNonce = [a \in Accounts |-> 0]
  /\ roleMsgs = {}
  /\ created = <<>>
  /\ owner = None
  /\ orders = {}
  /\ serialised = TRUE

HasCreateRole(a) == createRoles[a] > 0

-----------------------------------------------------------------------------
(* DCTSC                                                                   *)

Quiet == orders = {} /\ roleMsgs = {}

\* The role is given once, to the first owner.
GiveRole(a) ==
  /\ owner = None
  /\ owner' = a
  /\ orders' = orders \cup {[at |-> a, next |-> None]}
  /\ UNCHANGED <<createRoles, latestNonce, roleMsgs, created, serialised>>

\* The role is moved from the owner to another account.
MoveRole(a) ==
  /\ owner # None /\ a # owner
  /\ Cardinality(orders) + Cardinality(roleMsgs) < MaxMoves
  /\ owner' = a
  /\ orders' = orders \cup {[at |-> owner, next |-> a]}
  /\ serialised' = (serialised /\ Quiet)
  /\ UNCHANGED <<createRoles, latestNonce, roleMsgs, created>>

-----------------------------------------------------------------------------
(* The built-in functions                                                  *)

\* DCTSetRole with DCTRoleNFTCreate: appended, whether it is listed or not.
SetRole(o) ==
  /\ o.next = None
  /\ createRoles' = [createRoles EXCEPT ![o.at] = @ + 1]
  /\ orders' = orders \ {o}
  /\ UNCHANGED <<latestNonce, roleMsgs, created, owner, serialised>>

\* MUTATION: a role that is not listed is taken off all the same.
WithoutRoleUnchecked(roles, a) == [roles EXCEPT ![a] = @ - 1]

\* deleteRoles takes off one occurrence, addCreateRoleToAccount adds the role
\* unless it is listed.
WithoutRole(roles, a) == [roles EXCEPT ![a] = IF @ > 0 THEN @ - 1 ELSE @]
WithRole(roles, a) == [roles EXCEPT ![a] = IF @ > 0 THEN @ ELSE 1]

\* MUTATION: the role is not taken off the old owner.
TransferAtCurrentOwnerKeepingRole(o) ==
  /\ o.next # None
  /\ IF ShardOf[o.at] = ShardOf[o.next]
     THEN /\ createRoles' = WithRole(createRoles, o.next)
          /\ latestNonce' = [latestNonce EXCEPT ![o.at] = 0, ![o.next] = latestNonce[o.at]]
          /\ UNCHANGED roleMsgs
     ELSE /\ latestNonce' = [latestNonce EXCEPT ![o.at] = 0]
          /\ roleMsgs' = roleMsgs \cup {[to |-> o.next, nonce |-> latestNonce[o.at]]}
          /\ UNCHANGED createRoles
  /\ orders' = orders \ {o}
  /\ UNCHANGED <<created, owner, serialised>>

\* executeTransferNFTCreateChangeAtCurrentOwner.  It does not ask whether the
\* account has the role.  A new owner in the same shard is served at once; the
\* output transfer that is made all the same is only executed in another shard.
TransferAtCurrentOwner(o) ==
  /\ o.next # None
  /\ LET nonce == latestNonce[o.at]
         nonces == [latestNonce EXCEPT ![o.at] = 0]
         roles == WithoutRole(createRoles, o.at)
     IN IF ShardOf[o.at] = ShardOf[o.next]
        THEN /\ createRoles' = WithRole(roles, o.next)
             /\ latestNonce' = [nonces EXCEPT ![o.next] = nonce]
             /\ UNCHANGED roleMsgs
        ELSE /\ createRoles' = roles
             /\ latestNonce' = nonces
             /\ roleMsgs' = roleMsgs \cup {[to |-> o.next, nonce |-> nonce]}
  /\ orders' = orders \ {o}
  /\ UNCHANGED <<created, owner, serialised>>

\* MUTATION: the nonce is saved, the role is not added.
TransferAtNextOwnerWithoutRole(m) ==
  /\ latestNonce' = [latestNonce EXCEPT ![m.to] = m.nonce]
  /\ roleMsgs' = roleMsgs \ {m}
  /\ UNCHANGED <<createRoles, created, owner, orders, serialised>>

\* executeTransferNFTCreateChangeAtNextOwner.
TransferAtNextOwner(m) ==
  /\ latestNonce' = [latestNonce EXCEPT ![m.to] = m.nonce]
  /\ createRoles' = WithRole(createRoles, m.to)
  /\ roleMsgs' = roleMsgs \ {m}
  /\ UNCHANGED <<created, owner, orders, serialised>>

\* MUTATION: the new nonce is not stored.
NFTCreateNotStored(a) ==
  /\ HasCreateRole(a)
  /\ Len(created) < MaxTokens
  /\ created' = Append(created, latestNonce[a] + 1)
  /\ UNCHANGED <<createRoles, latestNonce, roleMsgs, owner, orders, serialised>>

\* dctNFTCreate: a is the account with the role, the caller itself or, with
\* ExecOnDestByCaller, the account the caller names; role and nonce are a's.
NFTCreate(a) ==
  /\ HasCreateRole(a)
  /\ Len(created) < MaxTokens
  /\ created' = Append(created, latestNonce[a] + 1)
  /\ latestNonce' = [latestNonce EXCEPT ![a] = latestNonce[a] + 1]
  /\ UNCHANGED <<createRoles, roleMsgs, owner, orders, serialised>>

-----------------------------------------------------------------------------

Execute(o) == SetRole(o) \/ TransferAtCurrentOwner(o)

Next ==
  \/ \E a \in Accounts : GiveRole(a) \/ MoveRole(a) \/ NFTCreate(a)
  \/ \E o \in orders : Execute(o)
  \/ \E m \in roleMsgs : TransferAtNextOwner(m)

Spec == Init /\ [][Next]_vars

\* The node executes the calls that reached a shard.
FairSpec ==
  /\ Spec
  /\ WF_vars(\E o \in orders : Execute(o))
  /\ WF_vars(\E m \in roleMsgs : TransferAtNextOwner(m))

-----------------------------------------------------------------------------
(* Properties                                                              *)

Holders == {a \in Accounts : HasCreateRole(a)}

\* As long as DCTSC lets each move of the role end, the tokens of the collection are
\* numbered 1, 2, 3, ... without a gap or a repetition, whoever created them and
\* however often the role moved (latestNonce travels with the role).
ConsecutiveNonces == serialised => \A i \in DOMAIN created : created[i] = i

\* As long as DCTSC lets each move end, the right to create is in one place: with one
\* account or on its way to one.
SingleCreator ==
  serialised => /\ Cardinality(Holders) + Cardinality(roleMsgs) <= 1
                /\ \A a \in Accounts : createRoles[a] <= 1

\* The role is never lost, not even if DCTSC moves it on before it arrived.
RoleNotLost ==
  owner # None =>
    Holders # {} \/ roleMsgs # {} \/ (\E o \in orders : o.next = None)

\* An account that DCTSC made the owner gets the role in the end, unless DCTSC moves
\* it on before that.
NewOwnerCreates ==
  \A a \in Accounts :
    serialised /\ owner = a ~> HasCreateRole(a) \/ ~serialised
=============================================================================

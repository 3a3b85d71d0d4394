-------------------------- MODULE MultiShardNonces --------------------------
(***************************************************************************)
(* Creating NFTs of one collection from several shards at a time: every    *)
(* creator counts from a start of its own, computed from the last byte of  *)
(* its address (dctRoles.go, computeStartNonce), so that creators in       *)
(* shards that know nothing of each other give out different nonces.       *)
(* Setting and unsetting DCTRoleNFTCreateMultiShard both put the counter   *)
(* back to the start, whatever was created from there before.  DCTSC may   *)
(* set and unset the roles of any address, as often as it likes.           *)
(***************************************************************************)
EXTENDS Integers, Sequences

CONSTANTS
  Accounts,
  LastByte,   \* the last byte of every account's address
  Stride,     \* size of a creator's space: math.MaxUint64 / 256 in the code
  MaxResets,  \* bound on how often a counter is put back
  MaxTokens   \* bound on the tokens created

ASSUME SpaceAssumption ==
  /\ LastByte \in [Accounts -> 0..255]
  /\ Stride \in Nat \ {0}
  /\ MaxResets \in Nat
  /\ MaxTokens \in Nat

VARIABLES
  createRoles,  \* how often every account's DCTRoles lists DCTRoleNFTCreate
  latestNonce,  \* the value under getNonceKey
  created,      \* the tokens created: nonce, creator and term, see resets
  sets,         \* history: how often every account was given the roles
  resets        \* history: how often its counter was put back, the term it counts in

vars == <<createRoles, latestNonce, created, sets, resets>>

Tokens == [nonce : Nat, by : Accounts, term : Nat]

TypeOK ==
  /\ createRoles \in [Accounts -> Nat]
  /\ latestNonce \in [Accounts -> Nat]
  /\ created \in Seq(Tokens)
  /\ sets \in [Accounts -> Nat]
  /\ resets \in [Accounts -> Nat]

Init ==
  /\ createRoles = [a \in Accounts |-> 0]
  /\ latestNonce = [a \in Accounts |-> 0]
  /\ created = <<>>
  /\ sets = [a \in Accounts |-> 0]
  /\ resets = [a \in Accounts |-> 0]

\* MUTATION: the last byte is not scaled to the space of a creator.
StartNonceUnscaled(a) == LastByte[a]

\* computeStartNonce.
StartNonce(a) == Stride * LastByte[a]

\* saveLatestNonce, whether the roles are set or unset.
PutBack(a) ==
  /\ resets[a] < MaxResets
  /\ latestNonce' = [latestNonce EXCEPT ![a] = StartNonce(a)]
  /\ resets' = [resets EXCEPT ![a] = @ + 1]

\* DCTSetRole with DCTRoleNFTCreate and DCTRoleNFTCreateMultiShard: the roles are
\* appended without looking whether they are there.
SetRoles(a) ==
  /\ PutBack(a)
  /\ createRoles' = [createRoles EXCEPT ![a] = @ + 1]
  /\ sets' = [sets EXCEPT ![a] = @ + 1]
  /\ UNCHANGED created

\* MUTATION: the counter is put back and the role stays.
UnSetRolesKept(a) ==
  /\ PutBack(a)
  /\ UNCHANGED <<createRoles, created, sets>>

\* DCTUnSetRole with the same roles, one occurrence of each.
UnSetRoles(a) ==
  /\ PutBack(a)
  /\ createRoles' = [createRoles EXCEPT ![a] = IF @ > 0 THEN @ - 1 ELSE @]
  /\ UNCHANGED <<created, sets>>

\* MUTATION: the role is taken off without looking whether it is there.
UnSetCreateRoleUnchecked(a) ==
  /\ createRoles' = [createRoles EXCEPT ![a] = @ - 1]
  /\ UNCHANGED <<latestNonce, created, sets, resets>>

\* DCTUnSetRole with DCTRoleNFTCreate alone: the counter stays.
UnSetCreateRole(a) ==
  /\ createRoles' = [createRoles EXCEPT ![a] = IF @ > 0 THEN @ - 1 ELSE @]
  /\ UNCHANGED <<latestNonce, created, sets, resets>>

\* A creator does not use up its space: "it would need 14 million years".
HasSpace(a) == latestNonce[a] < StartNonce(a) + Stride

NFTCreate(a) ==
  /\ createRoles[a] > 0
  /\ HasSpace(a)
  /\ Len(created) < MaxTokens
  /\ created' = Append(created, [nonce |-> latestNonce[a] + 1, by |-> a, term |-> resets[a]])
  /\ latestNonce' = [latestNonce EXCEPT ![a] = latestNonce[a] + 1]
  /\ UNCHANGED <<createRoles, sets, resets>>

Next ==
  \E a \in Accounts :
    SetRoles(a) \/ UnSetRoles(a) \/ UnSetCreateRole(a) \/ NFTCreate(a)

Spec == Init /\ [][Next]_vars

-----------------------------------------------------------------------------

\* Every address was given the roles once at most, and no two that end alike.
GivenOnce ==
  /\ \A a \in Accounts : sets[a] <= 1
  /\ \A a, b \in Accounts : sets[a] > 0 /\ sets[b] > 0 /\ LastByte[a] = LastByte[b] => a = b

\* As long as DCTSC gives the roles to an address once at most and to no two that end
\* alike, no two tokens of the collection have the same nonce, although the creators'
\* shards do not talk to each other, whatever is unset and however often: a second token
\* with a nonce would overwrite the balance and the metadata of the first
\* (dctNFTCreate.go, SaveDCTNFTToken).
DistinctNonces ==
  GivenOnce =>
    \A i, j \in DOMAIN created : created[i].nonce = created[j].nonce => i = j

\* Whatever DCTSC sets, unsets and sets again: two tokens have the same nonce only if
\* their creators' addresses end alike, and two of one creator only if its counter was
\* put back between them (dctRoles.go:72-83, and nothing else, makes nonces repeat).
NoncesRepeatOnlyIfPutBack ==
  \A i, j \in DOMAIN created :
    i < j /\ created[i].nonce = created[j].nonce =>
      /\ LastByte[created[i].by] = LastByte[created[j].by]
      /\ created[i].by = created[j].by => created[i].term < created[j].term
=============================================================================

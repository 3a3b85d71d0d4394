------------------------ MODULE MultiTransferArguments ------------------------
(***************************************************************************)
(* How the lists of MultiTransfer travel: as arguments of the call in the  *)
(* shard of the sender and of the message to the shard of the destination. *)
(* Two readers must find the same list in them: the function itself        *)
(* (multiDCTNFTTransfer.go) and the parser that contracts and nodes use    *)
(* (parsers/dctTransferParser.go).  The value of an NFT is a number, or    *)
(* the whole token marshalled when the shard of the destination is to have *)
(* its metadata, and only the length of the argument tells which.          *)
(*                                                                         *)
(* An argument is [is, x]: what was written there, and its number of bytes *)
(* by Length.  Of a contract call after the transfer there is the function *)
(* and one argument at most.                                               *)
(***************************************************************************)
EXTENDS MultiTransfer

CONSTANTS
  BytesOf,           \* the bytes of every value
  MarshalledLength,  \* the bytes of a marshalled token
  AddressLength,
  MaxLengthForValueToOptTransfer

\* A marshalled token has the address of its creator.
ASSUME LengthAssumption ==
  /\ BytesOf \in [Amounts -> Nat]
  /\ MaxLengthForValueToOptTransfer \in Nat
  /\ MarshalledLength > MaxLengthForValueToOptTransfer
  /\ 1..MaxEntries \subseteq Amounts

Number(v) == [is |-> "number", x |-> v]
Address(a) == [is |-> "address", x |-> a]
Name(t) == [is |-> "name", x |-> t]
Marshalled(e) == [is |-> "token", x |-> e.val]
Call(f) == [is |-> "call", x |-> f]

NonceOf(t) == IF t \in NFTs THEN 1 ELSE 0

Length(arg) ==
  CASE arg.is = "number" -> BytesOf[arg.x]
    [] arg.is = "token" -> MarshalledLength
    [] arg.is = "address" -> AddressLength

\* The calls after a transfer: none, a function, a function with an argument.
CallsAfter == {<<>>, <<Call("function")>>, <<Call("function"), Call("argument")>>}

-----------------------------------------------------------------------------
(* Writing                                                                 *)

\* What a user writes: the destination, the number of transfers and the transfers.
CallArguments(b, list, call) ==
  <<Address(b), Number(Len(list))>>
    \o FlattenSeq([i \in DOMAIN list |->
         <<Name(list[i].token), Number(NonceOf(list[i].token)), Number(list[i].val)>>])
    \o call

\* MUTATION: a value of any length is sent as a number.
SentAsMarshalledDataIfNew(e, sent) == ~sent \/ e.val = 1

\* sendCrossShardAsMarshalledData.  sent: WasAlreadySentToDestinationShard.
SentAsMarshalledData(e, sent) ==
  ~sent \/ e.val = 1 \/ BytesOf[e.val] > MaxLengthForValueToOptTransfer

\* createDCTNFTOutputTransfers
MessageArguments(list, sent, call) ==
  <<Number(Len(list))>>
    \o FlattenSeq([i \in DOMAIN list |->
         <<Name(list[i].token), Number(NonceOf(list[i].token)),
           IF list[i].token \in NFTs /\ SentAsMarshalledData(list[i], sent[list[i].token])
           THEN Marshalled(list[i]) ELSE Number(list[i].val)>>])
    \o call

-----------------------------------------------------------------------------
(* Reading.  A transfer is read as a name, a nonce and a value; a value    *)
(* that was written as one thing and is read as another is no value.       *)

Garbage == -1
AsNumber(arg) == IF arg.is = "number" THEN arg.x ELSE Garbage
AsToken(arg) == IF arg.is = "token" THEN arg.x ELSE Garbage

\* What the shard of the destination makes of a value.
ValueAtDestination(nonce, arg) ==
  IF nonce.x > 0 /\ Length(arg) > MaxLengthForValueToOptTransfer
  THEN AsToken(arg) ELSE AsNumber(arg)

\* So many transfers from argument start on, of the call or of the message.
Transfers(args, start, count, ofCall) ==
  [i \in 1..count |->
     LET j == start + 3 * (i - 1)
     IN  [token |-> args[j].x,
          val |-> IF ofCall THEN AsNumber(args[j+2]) ELSE ValueAtDestination(args[j+1], args[j+2])]]

\* ProcessBuiltinFunction where the destination lives
ReadAtDestination(b, args) ==
  LET count == AsNumber(args[1])
      minNumOfArguments == 3 * count + 1
  IN  [to |-> b,
       list |-> Transfers(args, 2, count, FALSE),
       call |-> SubSeq(args, minNumOfArguments + 1, Len(args))]

\* processDCTNFTMultiTransferOnSenderShard
ReadAtSender(args) ==
  LET count == AsNumber(args[2])
      minNumOfArguments == 3 * count + 2
  IN  [to |-> args[1].x,
       list |-> Transfers(args, 3, count, TRUE),
       call |-> SubSeq(args, minNumOfArguments + 1, Len(args))]

\* parseMultiDCTNFTTransfer.  An address that is a number of 64 bits would be taken for
\* the number of transfers; no account of Accounts has such an address.
ParseMultiDCTNFTTransfer(rcvAddr, args) ==
  LET isFirstArgumentAnAddress ==
        Length(args[1]) = AddressLength /\ args[1].is = "address"
      startIndex == IF isFirstArgumentAnAddress THEN 3 ELSE 2
      numOfTransfer == AsNumber(args[startIndex - 1])
  IN  [to |-> IF isFirstArgumentAnAddress THEN args[1].x ELSE rcvAddr,
       list |-> Transfers(args, startIndex, numOfTransfer, isFirstArgumentAnAddress),
       call |-> SubSeq(args, 3 * numOfTransfer + startIndex, Len(args))]

-----------------------------------------------------------------------------
(* Properties                                                              *)

\* The parser finds in the call, in the message and in the return just the transfers
\* that the function moves, their destination and the call after them, whichever NFTs
\* were sent to that shard before and however long the values are.
ParserReadsTransfers ==
  \A m \in inFlight, sent \in [NFTs -> BOOLEAN], call \in CallsAfter :
    LET args == MessageArguments(m.list, sent, call)
        moved == [to |-> m.to, list |-> m.list, call |-> call]
    IN  /\ ReadAtDestination(m.to, args) = moved
        /\ ParseMultiDCTNFTTransfer(m.to, args) = moved
        /\ ~m.ret =>
             LET ofCall == CallArguments(m.to, m.list, call)
             IN  /\ ReadAtSender(ofCall) = moved
                 /\ ParseMultiDCTNFTTransfer(m.from, ofCall) = moved
=============================================================================

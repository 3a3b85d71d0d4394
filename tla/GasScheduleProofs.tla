-------------------------- MODULE GasScheduleProofs --------------------------
(***************************************************************************)
(* Theorems about GasSchedule: for any number of goroutines, functions and *)
(* edits of the container, no call uses the costs of two schedules.        *)
(***************************************************************************)
EXTENDS GasSchedule, FiniteSetTheorems, TLAPS

\* The change has a function in its hand from NextFunction to SetBaseCost.
HasFunction == change.at \in {"lock", "first", "second"} <=> change.fn # None

\* The lock: nobody reads the costs of the function whose costs are set.
Exclusion == change.at \in {"first", "second"} => Readers(change.fn) = {}

\* But for the function whose first field is set, both costs are from one schedule; its
\* first field is from the last.
CostsAgree ==
  /\ \A o \in Objects :
       ~(change.at = "second" /\ change.fn = o) => funcCost[o] = baseCost[o]
  /\ change.at = "second" => funcCost[change.fn] = schedule

\* What a call has seen is what its function still charges.
SeenIsCharged ==
  \A x \in Executors :
    /\ call[x].at = "checked" => call[x].seen = {funcCost[call[x].fn]}
    /\ call[x].at # "checked" => call[x].seen = {} \/ \E n \in Nat : call[x].seen = {n}

GInv == TypeOK /\ HasFunction /\ Exclusion /\ CostsAgree /\ SeenIsCharged

LEMMA InitGInv == Init => GInv
<1> SUFFICES ASSUME Init PROVE GInv
  OBVIOUS
<1>1. TypeOK
  BY GasAssumption DEF Init, TypeOK, Changes, Calls
<1>2. HasFunction /\ Exclusion /\ CostsAgree /\ SeenIsCharged
  BY DEF Init, HasFunction, Exclusion, CostsAgree, SeenIsCharged
<1>3. QED
  BY <1>1, <1>2 DEF GInv

\* Steps that change neither the costs nor the calls.
LEMMA ChangeKeepsGInv ==
  ASSUME GInv, UNCHANGED <<container, funcCost, baseCost, call>>, schedule' \in Nat,
         change' \in Changes, HasFunction', Exclusion', change.at # "second", change'.at # "second"
  PROVE  GInv'
<1>1. TypeOK'
  BY DEF GInv, TypeOK
<1>2. CostsAgree' /\ SeenIsCharged'
  BY DEF GInv, CostsAgree, SeenIsCharged
<1>3. QED
  BY <1>1, <1>2 DEF GInv

LEMMA KeysFound == ASSUME TypeOK, NEW k \in Keys PROVE container[k] \in Objects
  BY DEF TypeOK, Keys

LEMMA LoopKeepsGInv ==
  ASSUME GInv, StartChange \/ EndChange \/ AcquireLock
                 \/ \E k \in Names : NextFunction(k) \/ FunctionGone(k)
  PROVE  GInv'
<1> USE DEF HasFunction, Exclusion
<1>0. change \in Changes /\ schedule \in Nat /\ HasFunction /\ None \notin Objects
  BY GasAssumption DEF GInv, TypeOK
<1>1. CASE StartChange
  <2>1. change' \in Changes /\ schedule' \in Nat
    <3>1. change' = [change EXCEPT !.at = "loop", !.todo = Keys] /\ schedule' = schedule + 1
      BY <1>1 DEF StartChange
    <3>2. Keys \subseteq Names
      BY DEF Keys
    <3>3. change' = [at |-> "loop", todo |-> Keys, fn |-> change.fn] /\ change.fn \in Objects \cup {None}
      BY <1>0, <3>1 DEF Changes
    <3>4. QED
      BY <1>0, <3>1, <3>2, <3>3 DEF Changes
  <2>2. QED
    BY <1>0, <1>1, <2>1, ChangeKeepsGInv DEF StartChange, Changes
<1>2. CASE EndChange
  BY <1>0, <1>2, ChangeKeepsGInv DEF EndChange, Changes
<1>3. CASE AcquireLock
  <2>1. Readers(change.fn)' = {}
    BY <1>0, <1>3 DEF AcquireLock, Changes, Readers
  <2>2. QED
    BY <1>0, <1>3, <2>1, ChangeKeepsGInv DEF AcquireLock, Changes
<1>4. ASSUME NEW k \in Names, NextFunction(k) PROVE GInv'
  <2>1. container[k] \in Objects
    BY <1>4, KeysFound DEF NextFunction, GInv
  <2>2. change' = [at |-> "lock", todo |-> change.todo \ {k}, fn |-> container[k]]
    BY <1>4 DEF NextFunction
  <2>3. change' \in Changes
    BY <1>0, <2>1, <2>2 DEF Changes
  <2>4. QED
    BY <1>0, <1>4, <2>1, <2>2, <2>3, ChangeKeepsGInv DEF NextFunction
<1>5. ASSUME NEW k \in Names, FunctionGone(k) PROVE GInv'
  BY <1>0, <1>5, ChangeKeepsGInv DEF FunctionGone, Changes
<1>6. QED
  BY <1>1, <1>2, <1>3, <1>4, <1>5

\* The two fields are set while nobody reads them.
LEMMA SettersKeepGInv ==
  ASSUME GInv, SetFuncCost \/ SetBaseCost
  PROVE  GInv'
<1> DEFINE o == change.fn
<1>0. /\ change \in Changes /\ schedule \in Nat /\ None \notin Objects
      /\ funcCost \in [Objects -> Nat] /\ baseCost \in [Objects -> Nat]
      /\ call \in [Executors -> Calls]
  BY GasAssumption DEF GInv, TypeOK
<1>1. change.at \in {"first", "second"} /\ o \in Objects
  BY <1>0 DEF GInv, HasFunction, SetFuncCost, SetBaseCost, Changes
<1>2. \A x \in Executors : call[x].at = "checked" => call[x].fn # o /\ call[x].fn \in Objects
  BY <1>0, <1>1 DEF GInv, Exclusion, Readers, Calls
<1>3. CASE SetFuncCost
  <2>1. /\ funcCost' = [funcCost EXCEPT ![o] = schedule]
        /\ change' = [change EXCEPT !.at = "second"]
        /\ UNCHANGED <<container, schedule, baseCost, call>>
    BY <1>3 DEF SetFuncCost
  <2>2. TypeOK'
    <3>1. funcCost' \in [Objects -> Nat]
      BY <1>0, <2>1
    <3>2. change' \in Changes
      BY <1>0, <2>1 DEF Changes
    <3>3. QED
      BY <2>1, <3>1, <3>2 DEF GInv, TypeOK
  <2>3. change'.at = "second" /\ change'.fn = o
    BY <1>0, <2>1 DEF Changes
  <2>4. HasFunction' /\ Exclusion'
    BY <1>0, <1>1, <2>1, <2>3 DEF GInv, HasFunction, Exclusion, Readers
  <2>5. CostsAgree'
    <3>1. \A p \in Objects : funcCost[p] = baseCost[p]
      BY <1>3 DEF GInv, CostsAgree, SetFuncCost
    <3>2. funcCost'[o] = schedule /\ \A p \in Objects : p # o => funcCost'[p] = funcCost[p]
      BY <1>0, <1>1, <2>1
    <3>3. QED
      BY <2>1, <2>3, <3>1, <3>2 DEF CostsAgree
  <2>6. SeenIsCharged'
    BY <1>0, <1>2, <2>1 DEF GInv, SeenIsCharged
  <2>7. QED
    BY <2>2, <2>4, <2>5, <2>6 DEF GInv
<1>4. CASE SetBaseCost
  <2>1. /\ baseCost' = [baseCost EXCEPT ![o] = schedule]
        /\ change' = [change EXCEPT !.at = "loop", !.fn = None]
        /\ UNCHANGED <<container, schedule, funcCost, call>>
        /\ change.at = "second"
    BY <1>4 DEF SetBaseCost
  <2>2. TypeOK'
    <3>1. baseCost' \in [Objects -> Nat]
      BY <1>0, <2>1
    <3>2. change' \in Changes
      BY <1>0, <2>1 DEF Changes
    <3>3. QED
      BY <2>1, <3>1, <3>2 DEF GInv, TypeOK
  <2>3. change'.at = "loop" /\ change'.fn = None
    BY <1>0, <2>1 DEF Changes
  <2>4. HasFunction' /\ Exclusion'
    BY <2>3 DEF HasFunction, Exclusion
  <2>5. CostsAgree'
    BY <1>0, <2>1, <2>3 DEF GInv, CostsAgree
  <2>6. SeenIsCharged'
    BY <2>1 DEF GInv, SeenIsCharged
  <2>7. QED
    BY <2>2, <2>4, <2>5, <2>6 DEF GInv
<1>5. QED
  BY <1>3, <1>4
\* A call keeps the read lock from its first look at the costs to its last.
LEMMA CallsKeepGInv ==
  ASSUME GInv, NEW x \in Executors,
         CheckGas(x) \/ ChargeGas(x) \/ \E k \in Names : FindFunction(x, k)
  PROVE  GInv'
<1>0. /\ call \in [Executors -> Calls] /\ funcCost \in [Objects -> Nat]
      /\ UNCHANGED <<container, schedule, funcCost, baseCost, change>>
  BY DEF GInv, TypeOK, CheckGas, ChargeGas, FindFunction
<1>1. SUFFICES ASSUME NEW c \in Calls, call' = [call EXCEPT ![x] = c],
                      c.at = "checked" => c.fn # change.fn /\ c.seen = {funcCost[c.fn]},
                      c.at # "checked" => c.seen = {} \/ \E n \in Nat : c.seen = {n}
               PROVE  GInv'
  <2>1. CASE CheckGas(x)
    <3> DEFINE c == [at |-> "checked", fn |-> call[x].fn, seen |-> {funcCost[call[x].fn]}]
    <3>1. call[x].fn \in Objects /\ call[x] \in Calls
      BY <1>0, <2>1 DEF CheckGas, Calls
    <3>2. c \in Calls
      BY <1>0, <3>1 DEF Calls
    <3>3. call' = [call EXCEPT ![x] = c]
      BY <2>1 DEF CheckGas
    <3>4. c.fn # change.fn
      BY <2>1 DEF CheckGas
    <3>5. QED
      BY <1>1, <3>2, <3>3, <3>4
  <2>2. CASE ChargeGas(x)
    <3> DEFINE o == call[x].fn
               c == [at |-> "idle", fn |-> None, seen |-> call[x].seen \cup {funcCost[o], baseCost[o]}]
    <3>1. o \in Objects /\ call[x].at = "checked"
      BY <1>0, <2>2 DEF ChargeGas, Calls
    <3>2. x \in Readers(o)
      BY <3>1 DEF Readers
    <3>3. funcCost[o] = baseCost[o] /\ call[x].seen = {funcCost[o]} /\ funcCost[o] \in Nat
      BY <1>0, <3>1, <3>2 DEF GInv, CostsAgree, Exclusion, SeenIsCharged
    <3>4. c.seen = {funcCost[o]}
      BY <3>3
    <3>5. c \in Calls /\ call' = [call EXCEPT ![x] = c]
      BY <2>2, <3>3, <3>4 DEF ChargeGas, Calls
    <3>6. QED
      BY <1>1, <3>3, <3>4, <3>5
  <2>3. ASSUME NEW k \in Names, FindFunction(x, k) PROVE GInv'
    <3> DEFINE c == [at |-> "found", fn |-> container[k], seen |-> {}]
    <3>1. c \in Calls
      BY <2>3, KeysFound DEF FindFunction, Calls, GInv
    <3>2. call' = [call EXCEPT ![x] = c]
      BY <2>3 DEF FindFunction
    <3>3. QED
      BY <1>1, <3>1, <3>2
  <2>4. QED
    BY <2>1, <2>2, <2>3
<1>2. TypeOK'
  BY <1>0, <1>1 DEF GInv, TypeOK
<1>3. \A y \in Executors : call'[y] = IF y = x THEN c ELSE call[y]
  BY <1>0, <1>1
<1>4. Exclusion'
  BY <1>0, <1>1, <1>3 DEF GInv, Exclusion, Readers
<1>5. SeenIsCharged'
  BY <1>0, <1>1, <1>3 DEF GInv, SeenIsCharged
<1>6. HasFunction' /\ CostsAgree'
  BY <1>0 DEF GInv, HasFunction, CostsAgree
<1>7. QED
  BY <1>2, <1>4, <1>5, <1>6 DEF GInv

\* An edit of the container sets the costs of an object that nobody has.
LEMMA EditsKeepGInv ==
  ASSUME GInv, NEW k \in Names,
         \/ Remove(k)
         \/ \E o \in Objects, made \in 0..schedule : Add(k, o, made) \/ Replace(k, o, made)
  PROVE  GInv'
<1>0. /\ container \in [Names -> Objects \cup {None}] /\ schedule \in Nat
      /\ funcCost \in [Objects -> Nat] /\ baseCost \in [Objects -> Nat]
      /\ call \in [Executors -> Calls]
  BY DEF GInv, TypeOK
<1>1. CASE Remove(k)
  <2>1. container' = [container EXCEPT ![k] = None]
        /\ UNCHANGED <<schedule, funcCost, baseCost, change, call>>
    BY <1>1 DEF Remove
  <2>2. TypeOK'
    BY <1>0, <2>1 DEF GInv, TypeOK
  <2>3. QED
    BY <2>1, <2>2 DEF GInv, HasFunction, Exclusion, Readers, CostsAgree, SeenIsCharged
<1>2. ASSUME NEW o \in Objects, NEW made \in 0..schedule, PutObject(k, o, made) PROVE GInv'
  <2>1. /\ container' = [container EXCEPT ![k] = o]
        /\ funcCost' = [funcCost EXCEPT ![o] = made]
        /\ baseCost' = [baseCost EXCEPT ![o] = made]
        /\ UNCHANGED <<schedule, change, call>>
        /\ o # change.fn /\ \A x \in Executors : call[x].fn # o
    BY <1>2 DEF PutObject, Fresh
  <2>2. TypeOK'
    BY <1>0, <2>1 DEF GInv, TypeOK
  <2>3. funcCost'[o] = baseCost'[o]
        /\ \A p : p # o /\ p \in Objects => funcCost'[p] = funcCost[p] /\ baseCost'[p] = baseCost[p]
    BY <1>0, <2>1
  <2>4. CostsAgree'
    <3>1. change.at = "second" => change.fn \in Objects
      BY DEF GInv, TypeOK, HasFunction, Changes
    <3>2. QED
      BY <2>1, <2>3, <3>1 DEF GInv, CostsAgree
  <2>5. SeenIsCharged'
    BY <1>0, <2>1, <2>3 DEF GInv, SeenIsCharged, Calls
  <2>6. HasFunction' /\ Exclusion'
    BY <2>1 DEF GInv, HasFunction, Exclusion, Readers
  <2>7. QED
    BY <2>2, <2>4, <2>5, <2>6 DEF GInv
<1>3. QED
  BY <1>1, <1>2 DEF Add, Replace

LEMMA StepGInv == GInv /\ [Next]_vars => GInv'
<1> SUFFICES ASSUME GInv, [Next]_vars PROVE GInv'
  OBVIOUS
<1>1. CASE StartChange \/ ChangeSchedule
  BY <1>1, LoopKeepsGInv, SettersKeepGInv DEF ChangeSchedule
<1>2. ASSUME NEW x \in Executors, Execute(x) \/ \E k \in Names : FindFunction(x, k) PROVE GInv'
  BY <1>2, CallsKeepGInv DEF Execute
<1>3. ASSUME NEW k \in Edited,
             \/ Remove(k)
             \/ \E o \in Objects, made \in 0..schedule : Add(k, o, made) \/ Replace(k, o, made)
      PROVE  GInv'
  BY <1>3, EditsKeepGInv, GasAssumption
<1>4. CASE UNCHANGED vars
  BY <1>4 DEF vars, GInv, TypeOK, HasFunction, Exclusion, Readers, CostsAgree, SeenIsCharged
<1>5. QED
  BY <1>1, <1>2, <1>3, <1>4 DEF Next

\* Whatever is edited and however calls and changes overlap, a change has a function of
\* the container in its hand when it asks for a lock, and costs are schedules
\* (creator.go, mutexMap.go).
THEOREM TypeCorrect == Spec => []TypeOK
<1>1. GInv => TypeOK
  BY DEF GInv
<1>2. QED
  BY <1>1, InitGInv, StepGInv, PTL DEF Spec

LEMMA SeenOne == GInv => OneSchedulePerCall
<1> SUFFICES ASSUME GInv, NEW x \in Executors PROVE Cardinality(call[x].seen) <= 1
  BY DEF OneSchedulePerCall
<1>1. call[x].seen = {} \/ \E n : call[x].seen = {n}
  BY DEF GInv, SeenIsCharged
<1>2. Cardinality({}) = 0 /\ \A n : Cardinality({n}) = 1
  BY FS_EmptySet, FS_Singleton
<1>3. Cardinality(call[x].seen) = 0 \/ Cardinality(call[x].seen) = 1
  BY <1>1, <1>2, Zenon
<1>4. QED
  BY <1>3

\* The lock of every function keeps its calls from the costs of two schedules, for any
\* number of executors and objects (mutExecution).
THEOREM NoMixedCosts == Spec => []OneSchedulePerCall
  BY SeenOne, InitGInv, StepGInv, PTL DEF Spec

-----------------------------------------------------------------------------
(* What a change reaches                                                   *)

\* Nobody takes a key that is not edited away from the object it was made with.
Kept == \A k \in Names \ Edited : container[k] = Initial[k]

\* While a change is on, every such function is still in the list of keys, or in the
\* hand of the change, or has the costs of the last schedule.
Reached ==
  change.at # "idle" =>
    \A k \in Names \ Edited :
      \/ k \in change.todo
      \/ change.at # "loop" /\ change.fn = container[k]
      \/ funcCost[container[k]] = schedule /\ baseCost[container[k]] = schedule

RInv == Kept /\ Reached

LEMMA InitRInv == Init => RInv
  BY DEF Init, RInv, Kept, Reached

LEMMA KeptAreKeys ==
  ASSUME Kept, NEW k \in Names \ Edited
  PROVE  k \in Keys /\ container[k] \in Objects
  BY GasAssumption DEF Kept, Keys

\* The loop takes a function out of the list only into its hand.
LEMMA LoopKeepsReached ==
  ASSUME GInv, RInv, StartChange \/ EndChange \/ AcquireLock
                       \/ \E k \in Names : NextFunction(k) \/ FunctionGone(k)
  PROVE  Reached'
<1>0. change \in Changes /\ RInv
  BY DEF GInv, TypeOK
<1>1. CASE StartChange
  <2>1. change'.todo = Keys /\ change'.at = "loop"
    BY <1>0, <1>1 DEF StartChange, Changes
  <2>2. QED
    BY <2>1, KeptAreKeys DEF RInv, Reached
<1>2. CASE EndChange
  BY <1>0, <1>2 DEF EndChange, Changes, Reached
<1>3. CASE AcquireLock
  <2>1. change'.at = "first" /\ change'.todo = change.todo /\ change'.fn = change.fn
    BY <1>0, <1>3 DEF AcquireLock, Changes
  <2>2. QED
    BY <1>3, <2>1 DEF AcquireLock, RInv, Reached
<1>4. ASSUME NEW k \in Names, NextFunction(k) PROVE Reached'
  <2>1. /\ change' = [at |-> "lock", todo |-> change.todo \ {k}, fn |-> container[k]]
        /\ change.at = "loop" /\ UNCHANGED <<container, schedule, funcCost, baseCost>>
    BY <1>4 DEF NextFunction
  <2>2. QED
    BY <2>1 DEF RInv, Reached
<1>5. ASSUME NEW k \in Names, FunctionGone(k) PROVE Reached'
  BY <1>0, <1>5 DEF FunctionGone, Changes, Reached
<1>6. QED
  BY <1>1, <1>2, <1>3, <1>4, <1>5

\* The function leaves the hand of the change with both costs of the last schedule.
LEMMA SettersKeepReached ==
  ASSUME GInv, RInv, SetFuncCost \/ SetBaseCost
  PROVE  Reached'
<1> DEFINE o == change.fn
<1>0. /\ change \in Changes /\ None \notin Objects
      /\ funcCost \in [Objects -> Nat] /\ baseCost \in [Objects -> Nat]
      /\ \A k \in Names \ Edited : container[k] \in Objects
  BY GasAssumption, KeptAreKeys DEF GInv, RInv, TypeOK
<1>1. change.at \in {"first", "second"} /\ o \in Objects
  BY <1>0 DEF GInv, HasFunction, SetFuncCost, SetBaseCost, Changes
<1>2. CASE SetFuncCost
  <2>1. /\ funcCost' = [funcCost EXCEPT ![o] = schedule]
        /\ change'.at = "second" /\ change'.todo = change.todo /\ change'.fn = o
        /\ UNCHANGED <<container, schedule, baseCost>> /\ change.at = "first"
    BY <1>0, <1>2 DEF SetFuncCost, Changes
  <2>2. \A p \in Objects : funcCost'[p] = IF p = o THEN schedule ELSE funcCost[p]
    BY <1>0, <1>1, <2>1
  <2>3. QED
    BY <1>0, <2>1, <2>2 DEF RInv, Reached
<1>3. CASE SetBaseCost
  <2>1. /\ baseCost' = [baseCost EXCEPT ![o] = schedule]
        /\ change'.at = "loop" /\ change'.todo = change.todo
        /\ UNCHANGED <<container, schedule, funcCost>> /\ change.at = "second"
    BY <1>0, <1>3 DEF SetBaseCost, Changes
  <2>2. \A p \in Objects : baseCost'[p] = IF p = o THEN schedule ELSE baseCost[p]
    BY <1>0, <1>1, <2>1
  <2>3. funcCost[o] = schedule
    BY <2>1 DEF GInv, CostsAgree
  <2>4. QED
    BY <1>0, <2>1, <2>2, <2>3 DEF RInv, Reached
<1>4. QED
  BY <1>2, <1>3

\* An edit touches other keys, and sets the costs of an object that no key has.
LEMMA EditsKeepRInv ==
  ASSUME GInv, RInv, NEW k \in Edited,
         \/ Remove(k)
         \/ \E o \in Objects, made \in 0..schedule : Add(k, o, made) \/ Replace(k, o, made)
  PROVE  RInv'
<1>0. /\ container \in [Names -> Objects \cup {None}] /\ k \in Names
      /\ funcCost \in [Objects -> Nat] /\ baseCost \in [Objects -> Nat]
  BY GasAssumption DEF GInv, TypeOK
<1>1. CASE Remove(k)
  <2>1. \A j \in Names \ Edited : container'[j] = container[j]
    BY <1>0, <1>1 DEF Remove
  <2>2. UNCHANGED <<schedule, funcCost, baseCost, change>>
    BY <1>1 DEF Remove
  <2>3. QED
    BY <2>1, <2>2 DEF RInv, Kept, Reached
<1>2. ASSUME NEW o \in Objects, NEW made \in 0..schedule, PutObject(k, o, made) PROVE RInv'
  <2>1. /\ container' = [container EXCEPT ![k] = o]
        /\ funcCost' = [funcCost EXCEPT ![o] = made]
        /\ baseCost' = [baseCost EXCEPT ![o] = made]
        /\ UNCHANGED <<schedule, change>> /\ o \notin Range(container)
    BY <1>2 DEF PutObject, Fresh
  <2>2. \A j \in Names \ Edited :
          container'[j] = container[j] /\ container[j] # o /\ container[j] \in Objects
    BY <1>0, <2>1, KeptAreKeys DEF RInv, Range
  <2>3. \A j \in Names \ Edited : /\ funcCost'[container[j]] = funcCost[container[j]]
                                 /\ baseCost'[container[j]] = baseCost[container[j]]
    BY <1>0, <2>1, <2>2
  <2>4. QED
    BY <2>1, <2>2, <2>3 DEF RInv, Kept, Reached
<1>3. QED
  BY <1>1, <1>2 DEF Add, Replace

LEMMA StepRInv == GInv /\ RInv /\ [Next]_vars => RInv'
<1> SUFFICES ASSUME GInv, RInv, [Next]_vars PROVE RInv'
  OBVIOUS
<1>1. CASE StartChange \/ ChangeSchedule
  <2>1. UNCHANGED container
    BY <1>1 DEF StartChange, ChangeSchedule, NextFunction, FunctionGone, EndChange, AcquireLock,
                SetFuncCost, SetBaseCost
  <2>2. Reached'
    BY <1>1, LoopKeepsReached, SettersKeepReached DEF ChangeSchedule
  <2>3. QED
    BY <2>1, <2>2 DEF RInv, Kept
<1>2. ASSUME NEW x \in Executors, Execute(x) \/ \E k \in Names : FindFunction(x, k) PROVE RInv'
  <2>1. UNCHANGED <<container, schedule, funcCost, baseCost, change>>
    BY <1>2 DEF Execute, CheckGas, ChargeGas, FindFunction
  <2>2. QED
    BY <2>1 DEF RInv, Kept, Reached
<1>3. ASSUME NEW k \in Edited,
             \/ Remove(k)
             \/ \E o \in Objects, made \in 0..schedule : Add(k, o, made) \/ Replace(k, o, made)
      PROVE  RInv'
  BY <1>3, EditsKeepRInv
<1>4. CASE UNCHANGED vars
  BY <1>4 DEF vars, RInv, Kept, Reached
<1>5. QED
  BY <1>1, <1>2, <1>3, <1>4 DEF Next

\* Only these two steps end a change.
LEMMA ChangeEndsHere ==
  ASSUME GInv, [Next]_vars, change.at # "idle", change'.at = "idle"
  PROVE  EndChange \/ \E k \in Names : FunctionGone(k)
<1>0. change \in Changes
  BY DEF GInv, TypeOK
<1>1. ~StartChange
  BY DEF StartChange
<1>2. ~AcquireLock /\ ~SetFuncCost /\ ~SetBaseCost
  BY <1>0 DEF AcquireLock, SetFuncCost, SetBaseCost, Changes
<1>3. \A k \in Names : ~NextFunction(k)
  BY DEF NextFunction
<1>4. ~(UNCHANGED change)
  OBVIOUS
<1>5. QED
  BY <1>1, <1>2, <1>3, <1>4
  DEF Next, vars, ChangeSchedule, Execute, CheckGas, ChargeGas, FindFunction, Remove, Add, Replace,
      PutObject

\* A change that meets no key which is gone gives every function that nobody replaced
\* both costs of the last schedule, for any number of functions, goroutines and edits
\* meanwhile (GasScheduleChange, creator.go).
THEOREM ChangeReaches == Spec => ChangeReachesAll
<1>1. ASSUME GInv, RInv, [Next]_vars PROVE ChangeReachesStep
  <2> SUFFICES ASSUME change.at # "idle", change'.at = "idle", change.todo \subseteq Keys,
                      NEW k \in Names \ Edited
               PROVE  {funcCost'[container[k]], baseCost'[container[k]]} = {schedule}
    BY DEF ChangeReachesStep
  <2>1. EndChange
    BY <1>1, ChangeEndsHere DEF FunctionGone
  <2>2. funcCost[container[k]] = schedule /\ baseCost[container[k]] = schedule
    BY <1>1, <2>1 DEF EndChange, RInv, Reached
  <2>3. UNCHANGED <<funcCost, baseCost>>
    BY <2>1 DEF EndChange
  <2>4. QED
    BY <2>2, <2>3
<1>2. GInv /\ RInv /\ [Next]_vars => [ChangeReachesStep]_vars
  BY <1>1
<1>3. QED
  BY <1>2, InitGInv, StepGInv, InitRInv, StepRInv, PTL DEF Spec, ChangeReachesAll

=============================================================================

----------------------------- MODULE GasSchedule -----------------------------
(***************************************************************************)
(* The container of built-in functions when the gas schedule changes while *)
(* functions are executed (creator.go, container.go, container/mutexMap.go *)
(* and the locking of every function, here that of dctNFTCreate.go).       *)
(*                                                                         *)
(* One goroutine runs GasScheduleChange: it takes the keys of the          *)
(* container, looks every function up again and sets its costs under the   *)
(* function's write lock.  Others look a function up and execute it under  *)
(* its read lock, reading the costs when they check the gas and again when *)
(* they charge it.  A third may edit the container.  An access to the map  *)
(* holds its mutex throughout and is one step here.  A waiting writer of a *)
(* sync.RWMutex stops new readers.                                         *)
(***************************************************************************)
EXTENDS Integers, FiniteSets, Functions

CONSTANTS
  Names,       \* keys of the container
  Objects,     \* function objects
  Initial,     \* the object that CreateBuiltInFunctionContainer adds per key
  None,        \* no object
  Executors,   \* goroutines that execute functions
  Edited,      \* keys that somebody adds, replaces and removes
  MaxChanges   \* bound on the changes of the schedule

ASSUME GasAssumption ==
  /\ None \notin Objects
  /\ Initial \in [Names -> Objects] /\ IsInjective(Initial)
  /\ Edited \subseteq Names
  /\ MaxChanges \in Nat

VARIABLES
  container,  \* functionContainer.objects
  schedule,   \* builtInFuncCreator.gasConfig: the number of the last schedule
  funcCost,   \* the schedule that every object's funcGasCost is from
  baseCost,   \* the schedule that every object's gasConfig is from
  change,     \* where GasScheduleChange is
  call        \* where every executor is

vars == <<container, schedule, funcCost, baseCost, change, call>>

\* at: between changes, in the loop over the keys, waiting for the lock of fn, about
\* to set the first or the second of its fields.
Changes == [at : {"idle", "loop", "lock", "first", "second"},
            todo : SUBSET Names, fn : Objects \cup {None}]

\* at: not executing, with the function looked up, with its gas checked.  seen: the
\* schedules that the costs used in this call are from.
Calls == [at : {"idle"}, fn : {None}, seen : SUBSET Nat]
           \cup [at : {"found", "checked"}, fn : Objects, seen : SUBSET Nat]

TypeOK ==
  /\ container \in [Names -> Objects \cup {None}]
  /\ schedule \in Nat
  /\ funcCost \in [Objects -> Nat]
  /\ baseCost \in [Objects -> Nat]
  /\ change \in Changes
  /\ call \in [Executors -> Calls]

Init ==
  /\ container = Initial
  /\ schedule = 0
  /\ funcCost = [o \in Objects |-> 0]
  /\ baseCost = [o \in Objects |-> 0]
  /\ change = [at |-> "idle", todo |-> {}, fn |-> None]
  /\ call = [x \in Executors |-> [at |-> "idle", fn |-> None, seen |-> {}]]

Keys == {k \in Names : container[k] # None}

Readers(o) == {x \in Executors : call[x].fn = o /\ call[x].at = "checked"}

-----------------------------------------------------------------------------
(* GasScheduleChange                                                       *)

StartChange ==
  /\ change.at = "idle"
  /\ schedule < MaxChanges
  /\ schedule' = schedule + 1
  /\ change' = [change EXCEPT !.at = "loop", !.todo = Keys]
  /\ UNCHANGED <<container, funcCost, baseCost, call>>

\* The function is found: SetNewGasConfig asks for its lock.
NextFunction(k) ==
  /\ change.at = "loop"
  /\ k \in change.todo \cap Keys
  /\ change' = [at |-> "lock", todo |-> change.todo \ {k}, fn |-> container[k]]
  /\ UNCHANGED <<container, schedule, funcCost, baseCost, call>>

\* The key is gone: the whole change returns.
FunctionGone(k) ==
  /\ change.at = "loop"
  /\ k \in change.todo \ Keys
  /\ change' = [change EXCEPT !.at = "idle", !.todo = {}]
  /\ UNCHANGED <<container, schedule, funcCost, baseCost, call>>

EndChange ==
  /\ change.at = "loop"
  /\ change.todo = {}
  /\ change' = [change EXCEPT !.at = "idle"]
  /\ UNCHANGED <<container, schedule, funcCost, baseCost, call>>

\* MUTATION: the fields are set under the read lock.
AcquireLockShared ==
  /\ change.at = "lock"
  /\ change' = [change EXCEPT !.at = "first"]
  /\ UNCHANGED <<container, schedule, funcCost, baseCost, call>>

AcquireLock ==
  /\ change.at = "lock"
  /\ Readers(change.fn) = {}
  /\ change' = [change EXCEPT !.at = "first"]
  /\ UNCHANGED <<container, schedule, funcCost, baseCost, call>>

SetFuncCost ==
  /\ change.at = "first"
  /\ funcCost' = [funcCost EXCEPT ![change.fn] = schedule]
  /\ change' = [change EXCEPT !.at = "second"]
  /\ UNCHANGED <<container, schedule, baseCost, call>>

\* MUTATION: the loop ends after one function.
SetBaseCostAndStop ==
  /\ change.at = "second"
  /\ baseCost' = [baseCost EXCEPT ![change.fn] = schedule]
  /\ change' = [at |-> "idle", todo |-> {}, fn |-> None]
  /\ UNCHANGED <<container, schedule, funcCost, call>>

\* The second field, and Unlock.
SetBaseCost ==
  /\ change.at = "second"
  /\ baseCost' = [baseCost EXCEPT ![change.fn] = schedule]
  /\ change' = [change EXCEPT !.at = "loop", !.fn = None]
  /\ UNCHANGED <<container, schedule, funcCost, call>>

-----------------------------------------------------------------------------
(* Executing a function                                                    *)

\* MUTATION: it is not looked at whether the key is there.
FindFunctionUnchecked(x, k) ==
  /\ call[x].at = "idle"
  /\ call' = [call EXCEPT ![x] = [at |-> "found", fn |-> container[k], seen |-> {}]]
  /\ UNCHANGED <<container, schedule, funcCost, baseCost, change>>

FindFunction(x, k) ==
  /\ call[x].at = "idle"
  /\ k \in Keys
  /\ call' = [call EXCEPT ![x] = [at |-> "found", fn |-> container[k], seen |-> {}]]
  /\ UNCHANGED <<container, schedule, funcCost, baseCost, change>>

\* MUTATION: a reader passes a writer that waits.
CheckGasBesideWriter(x) ==
  /\ call[x].at = "found"
  /\ ~(change.fn = call[x].fn /\ change.at \in {"first", "second"})
  /\ call' = [call EXCEPT ![x].at = "checked", ![x].seen = {funcCost[call[x].fn]}]
  /\ UNCHANGED <<container, schedule, funcCost, baseCost, change>>

\* MUTATION: calls of a function exclude each other, and those that wait form no queue.
CheckGasAlone(x) ==
  /\ call[x].at = "found"
  /\ change.fn # call[x].fn
  /\ Readers(call[x].fn) = {}
  /\ call' = [call EXCEPT ![x].at = "checked", ![x].seen = {funcCost[call[x].fn]}]
  /\ UNCHANGED <<container, schedule, funcCost, baseCost, change>>

\* RLock and the first comparison of the gas provided with funcGasCost.
CheckGas(x) ==
  /\ call[x].at = "found"
  /\ change.fn # call[x].fn
  /\ call' = [call EXCEPT ![x] =
                [at |-> "checked", fn |-> @.fn, seen |-> {funcCost[@.fn]}]]
  /\ UNCHANGED <<container, schedule, funcCost, baseCost, change>>

\* The gas to use, what remains of it, and RUnlock.  Without enough gas the call ends
\* here too.
ChargeGas(x) ==
  LET o == call[x].fn IN
  /\ call[x].at = "checked"
  /\ call' = [call EXCEPT ![x] =
                [at |-> "idle", fn |-> None, seen |-> @.seen \cup {funcCost[o], baseCost[o]}]]
  /\ UNCHANGED <<container, schedule, funcCost, baseCost, change>>

-----------------------------------------------------------------------------
(* Editing the container: the new object was made with some earlier costs  *)

Fresh(o) ==
  /\ o \notin Range(container)
  /\ o # change.fn
  /\ \A x \in Executors : call[x].fn # o

PutObject(k, o, made) ==
  /\ Fresh(o)
  /\ container' = [container EXCEPT ![k] = o]
  /\ funcCost' = [funcCost EXCEPT ![o] = made]
  /\ baseCost' = [baseCost EXCEPT ![o] = made]
  /\ UNCHANGED <<schedule, change, call>>

Add(k, o, made) == k \notin Keys /\ PutObject(k, o, made)

Replace(k, o, made) == k \in Keys /\ PutObject(k, o, made)

Remove(k) ==
  /\ k \in Keys
  /\ container' = [container EXCEPT ![k] = None]
  /\ UNCHANGED <<schedule, funcCost, baseCost, change, call>>

-----------------------------------------------------------------------------

ChangeSchedule ==
  \/ \E k \in Names : NextFunction(k) \/ FunctionGone(k)
  \/ EndChange \/ AcquireLock \/ SetFuncCost \/ SetBaseCost

Execute(x) == CheckGas(x) \/ ChargeGas(x)

Next ==
  \/ StartChange \/ ChangeSchedule
  \/ \E x \in Executors : Execute(x) \/ \E k \in Names : FindFunction(x, k)
  \/ \E k \in Edited :
       \/ Remove(k)
       \/ \E o \in Objects, made \in 0..schedule : Add(k, o, made) \/ Replace(k, o, made)

Spec == Init /\ [][Next]_vars

\* A goroutine that can go on goes on; nobody has to start a change or a call.
FairSpec == Spec /\ WF_vars(ChangeSchedule) /\ \A x \in Executors : WF_vars(Execute(x))

-----------------------------------------------------------------------------
(* Properties                                                              *)

\* A call never mixes two schedules: the gas it was checked against is the gas it is
\* charged, so what remains of it cannot fall below zero (mutExecution).
OneSchedulePerCall == \A x \in Executors : Cardinality(call[x].seen) <= 1

\* "Gas schedule is changed, thus all contracts must be updated" (GasScheduleChange):
\* after a change every function that nobody replaced charges the costs of the last
\* schedule.
ContractsUpdated ==
  change.at = "idle" =>
    \A k \in Names \ Edited : {funcCost[container[k]], baseCost[container[k]]} = {schedule}

ChangeReachesStep ==
  change.at # "idle" /\ change'.at = "idle" =>
    \/ ~(change.todo \subseteq Keys)
    \/ \A k \in Names \ Edited :
         {funcCost'[container[k]], baseCost'[container[k]]} = {schedule}

\* A change that meets no key which is gone reaches every function that nobody
\* replaced, whatever is added, replaced or removed and called meanwhile.
ChangeReachesAll == [][ChangeReachesStep]_vars

\* A change ends although calls keep coming: they cannot keep the lock of a function
\* from GasScheduleChange for ever.
ChangeEnds == change.at # "idle" ~> change.at = "idle"

\* A call that found its function ends, even if the function is removed or its costs
\* are changed meanwhile.
CallsEnd == \A x \in Executors : call[x].at # "idle" ~> call[x].at = "idle"
=============================================================================

------------------------- MODULE PluginInstanceProofs -------------------------
(***************************************************************************)
(* The safety properties of PluginInstance hold for any number of calls,   *)
(* connections, activations and releases, and it implements the gate of    *)
(* InstanceContract.                                                       *)
(***************************************************************************)
EXTENDS PluginInstanceContract, TLAPS

-----------------------------------------------------------------------------
(* The inductive invariant. *)

\* The published pool is open and the last one opened, and the Instance is
\* active while there is one.
Published ==
  /\ lifecycle = "active" <=> prepared # 0
  /\ prepared # 0 => prepared \in Pool /\ pools[prepared] = "open"
  /\ prepared # 0 => prepared = activations

\* No pool but the published one is open, and one at most is closing:
\* deactivate closed every earlier one before it returned.
PoolsInTurn ==
  /\ \A p \in Pool : pools[p] = "open" => p = prepared
  /\ \A p \in Pool : pools[p] = "closing" => lifecycle = "closing"
  /\ \A p, q \in Pool : pools[p] = "closing" /\ pools[q] = "closing" => p = q

\* A call has a pool while it is in flight, a connection only of a pool that still runs
\* (close() waited for every other one), and waits for none it does not need.
CallsOnPools ==
  \A c \in Call :
    /\ IF pc[c] = "idle" THEN pool[c] = 0 ELSE pool[c] \in Pool
    /\ pc[c] = "querying" => pools[pool[c]] \in {"open", "closing"}
    /\ pc[c] \in Waiting \cup {"posting"} => left[c] > 0

\* From its verification on, the schema holds the authored migrations for as
\* long as anything relies on it.
SchemaKept ==
  lifecycle \in {"verified", "active", "closing"} => schema >= Authored

IInv == TypeOK /\ Published /\ PoolsInTurn /\ CallsOnPools /\ SchemaKept

LEMMA InitInv == Init => IInv
  BY SizesAssumption, SMT
     DEF Init, IInv, TypeOK, Published, PoolsInTurn, CallsOnPools, SchemaKept, Pool, Operation, Waiting

-----------------------------------------------------------------------------
(* The steps of the Instance and of the schema operator leave calls alone. *)

\* activate before it publishes, and its failure, change nothing calls see.
LEMMA ActivationInv ==
  ASSUME IInv, ActivationFails \/ Activate \/ DatabaseUrlResolved \/ SigningKeyResolved \/ Verify
  PROVE  IInv'
<1> USE SizesAssumption DEF IInv, TypeOK, Published, PoolsInTurn, CallsOnPools, SchemaKept, Pool, calls
<1>1. CASE ActivationFails
  BY <1>1 DEF ActivationFails
<1>2. CASE Activate
  BY <1>2 DEF Activate
<1>3. CASE DatabaseUrlResolved
  BY <1>3 DEF DatabaseUrlResolved
<1>4. CASE SigningKeyResolved
  BY <1>4 DEF SigningKeyResolved
<1>5. CASE Verify
  BY <1>5 DEF Verify, SchemaIsExact
<1>6. QED
  BY <1>1, <1>2, <1>3, <1>4, <1>5

\* Nothing was open or closing, so the new pool is the only one.
LEMMA PublishInv == ASSUME IInv, Publish PROVE IInv'
<1> USE SizesAssumption DEF IInv, Publish, Pool
<1>1. activations + 1 \in Pool /\ \A p \in Pool : pools[p] \notin {"open", "closing"}
  BY DEF TypeOK, Published, PoolsInTurn
<1>2. TypeOK'
  BY <1>1 DEF TypeOK, calls
<1>3. Published' /\ PoolsInTurn'
  BY <1>1 DEF TypeOK, Published, PoolsInTurn
<1>4. CallsOnPools'
  BY <1>1 DEF TypeOK, CallsOnPools, calls
<1>5. QED
  BY <1>2, <1>3, <1>4 DEF SchemaKept

LEMMA DeactivateInv == ASSUME IInv, Deactivate PROVE IInv'
<1> USE SizesAssumption DEF IInv, Deactivate, Pool
<1>1. prepared \in Pool /\ pools[prepared] = "open"
  BY DEF Published
<1>2. TypeOK'
  BY <1>1 DEF TypeOK, calls
<1>3. Published' /\ PoolsInTurn'
  BY <1>1 DEF TypeOK, Published, PoolsInTurn
<1>4. CallsOnPools'
  BY <1>1 DEF TypeOK, CallsOnPools, calls
<1>5. QED
  BY <1>2, <1>3, <1>4 DEF SchemaKept

\* close() returns only when the pool has every connection back.
LEMMA DeactivatedInv == ASSUME IInv, Deactivated PROVE IInv'
<1> USE SizesAssumption DEF IInv, Pool
<1>1. PICK p \in Pool : /\ pools[p] = "closing"
                        /\ CloseReturns(p)
                        /\ pools' = [pools EXCEPT ![p] = "closed"]
  BY DEF Deactivated
<1>2. /\ lifecycle = "closing" /\ lifecycle' = "inactive"
      /\ UNCHANGED <<activations, prepared, schema, calls>>
  BY DEF Deactivated
<1>3. \A q \in Pool : q # p => pools'[q] = pools[q] /\ pools[q] # "closing"
  BY <1>1 DEF TypeOK, PoolsInTurn
<1>4. TypeOK'
  BY <1>1, <1>2 DEF TypeOK, calls
<1>5. Published' /\ PoolsInTurn'
  BY <1>1, <1>2, <1>3 DEF TypeOK, Published, PoolsInTurn
<1>6. \A c \in Call : pc[c] = "querying" => pool[c] # p
  BY <1>1 DEF CloseReturns, Holders, ConnectionSteps
<1>7. CallsOnPools'
  BY <1>2, <1>3, <1>6 DEF CallsOnPools, calls
<1>8. QED
  BY <1>2, <1>4, <1>5, <1>7 DEF SchemaKept

\* The operator only ever adds migrations.
LEMMA OperatorInv == ASSUME IInv, Operator PROVE IInv'
<1> USE SizesAssumption DEF IInv
<1>1. PICK release \in Release : Setup(release) \/ Upgrade(release)
  BY DEF Operator
<1>2. UNCHANGED <<instance, calls>> /\ schema' \in Nat
  BY <1>1 DEF Setup, Upgrade
<1>3. schema # 0 => schema' >= schema
  BY <1>1 DEF Setup, Upgrade, TypeOK
<1>4. SchemaKept'
  BY <1>2, <1>3 DEF SchemaKept, TypeOK, instance
<1>5. QED
  BY <1>2, <1>4 DEF TypeOK, Published, PoolsInTurn, CallsOnPools, instance, calls

-----------------------------------------------------------------------------
(* The steps of a call leave the Instance and the schema alone. *)

LEMMA StepInv == ASSUME IInv, NEW c \in Call, Step(c) PROVE IInv'
<1> USE SizesAssumption DEF IInv
<1>1. UNCHANGED <<instance, schema>>
  BY DEF Step, Start, Acquire, AcquireRefused, Continue, Answer, HttpAnswer, Fail, Finish
<1>2. Published' /\ PoolsInTurn' /\ SchemaKept'
  BY <1>1 DEF Published, PoolsInTurn, SchemaKept, instance
<1>3. SUFFICES TypeOK' /\ CallsOnPools'
  BY <1>2
<1> USE <1>1 DEF instance, TypeOK, CallsOnPools, Waiting
<1>4. CASE \E op \in Operation : Start(c, op)
  <2>1. PICK op \in Operation : Start(c, op)
    BY <1>4
  <2>2. prepared \in Pool /\ Connections(op) \in Nat \ {0}
    BY <2>1 DEF Start, Published, Connections
  <2>3. QED
    BY <2>1, <2>2 DEF Start, Pool
<1>5. CASE Acquire(c)
  BY <1>5 DEF Acquire
<1>6. CASE AcquireRefused(c) \/ Answer(c) \/ Fail(c)
  BY <1>6 DEF AcquireRefused, Answer, Fail, Finish, Operation
<1>7. CASE Continue(c)
  BY <1>7 DEF Continue
<1>8. CASE HttpAnswer(c)
  BY <1>8 DEF HttpAnswer
<1>9. QED
  BY <1>4, <1>5, <1>6, <1>7, <1>8 DEF Step

LEMMA NextInv == ASSUME IInv, [Next]_vars PROVE IInv'
<1>1. CASE UNCHANGED vars
  BY <1>1 DEF IInv, TypeOK, Published, PoolsInTurn, CallsOnPools, SchemaKept, vars, instance, calls
<1>2. CASE Lifecycle
  BY <1>2, ActivationInv, PublishInv, DeactivateInv, DeactivatedInv DEF Lifecycle
<1>3. QED
  BY <1>1, <1>2, OperatorInv, StepInv DEF Next

\* The inductive invariant holds in every reachable state.
THEOREM Invariance == Spec => []IInv
  BY InitInv, NextInv, PTL DEF Spec

-----------------------------------------------------------------------------
(* What it implies. *)

\* Lifecycle, pools, schema and calls stay well typed.
THEOREM TypeCorrect == Spec => []TypeOK
<1>1. IInv => TypeOK
  BY DEF IInv
<1>2. QED
  BY <1>1, Invariance, PTL

\* Where a connection is held: on the published pool, or on the one closing.
LEMMA HeldOnRunningPool ==
  ASSUME IInv, NEW c \in Call, pc[c] \in ConnectionSteps
  PROVE  \/ lifecycle = "active" /\ pool[c] = prepared
         \/ lifecycle = "closing"
<1>1. pool[c] \in Pool /\ pools[pool[c]] \in {"open", "closing"}
  BY DEF IInv, CallsOnPools, ConnectionSteps
<1>2. pool[c] # 0
  BY <1>1 DEF Pool
<1>3. QED
  BY <1>1, <1>2 DEF IInv, Published, PoolsInTurn

\* After deactivate no call of the Instance touches the database.
THEOREM Quiet == Spec => []QuietWhenInactive
<1>1. IInv => QuietWhenInactive
  BY HeldOnRunningPool DEF QuietWhenInactive
<1>2. QED
  BY <1>1, Invariance, PTL

\* Calls that outlived their activation have no part in the next one.
THEOREM EarlierPoolsAreDrained == Spec => []NoConnectionOfAnEarlierPool
<1>1. IInv => NoConnectionOfAnEarlierPool
  BY HeldOnRunningPool DEF NoConnectionOfAnEarlierPool
<1>2. QED
  BY <1>1, Invariance, PTL

\* Every statement finds the authored migrations installed.
THEOREM SchemaIsThere == Spec => []StatementsFindTheirSchema
<1>1. IInv => StatementsFindTheirSchema
  BY HeldOnRunningPool DEF StatementsFindTheirSchema, IInv, SchemaKept
<1>2. QED
  BY <1>1, Invariance, PTL

-----------------------------------------------------------------------------
(* It implements the contract: initial states map to initial states, and   *)
(* each step is a step of the gate or leaves the gate alone.               *)

LEMMA InitMaps == Init => Contract!Init
  BY SizesAssumption
     DEF Init, Contract!Init, Gate, Connected, ConnectionSteps

\* What activate does before it publishes is invisible at the gate, which is
\* shut all along.
LEMMA ActivationMaps ==
  ASSUME IInv, ActivationFails \/ Activate \/ DatabaseUrlResolved \/ SigningKeyResolved \/ Verify
  PROVE  UNCHANGED Contract!state
<1>1. Gate' = Gate
  BY DEF Gate, ActivationFails, Activate, DatabaseUrlResolved, SigningKeyResolved, Verify
<1>2. UNCHANGED <<activations, schema, calls>>
  BY DEF ActivationFails, Activate, DatabaseUrlResolved, SigningKeyResolved, Verify
<1>3. QED
  BY <1>1, <1>2 DEF Contract!state, Connected, calls

\* Nobody has a connection when the new pool is published.
LEMMA PublishMaps == ASSUME IInv, Publish PROVE Contract!Open
<1>1. lifecycle = "verified" /\ lifecycle' = "active" /\ activations' = activations + 1
  BY DEF Publish
<1>2. UNCHANGED <<schema, calls>>
  BY DEF Publish
<1>3. Connected = {}
  BY <1>1, HeldOnRunningPool DEF Connected
<1>4. schema >= Authored
  BY <1>1 DEF IInv, SchemaKept
<1>5. QED
  BY <1>1, <1>2, <1>3, <1>4 DEF Contract!Open, Gate, Connected, calls

LEMMA DeactivateMaps == ASSUME IInv, Deactivate PROVE Contract!Drain
  BY DEF Deactivate, Contract!Drain, Gate, Connected, calls

\* The pool close() waited for is the only one that had connections out.
LEMMA DeactivatedMaps == ASSUME IInv, Deactivated PROVE Contract!Shut
<1>1. PICK p \in Pool : pools[p] = "closing" /\ CloseReturns(p)
  BY DEF Deactivated
<1>2. /\ lifecycle = "closing" /\ lifecycle' = "inactive"
      /\ UNCHANGED <<activations, prepared, schema, calls>>
  BY DEF Deactivated
<1>3. ASSUME NEW c \in Connected PROVE FALSE
  <2>1. pool[c] \in Pool /\ pools[pool[c]] \in {"open", "closing"}
    BY <1>3 DEF Connected, IInv, CallsOnPools, ConnectionSteps
  <2>2. pool[c] # 0 /\ prepared = 0
    BY <1>2, <2>1 DEF Pool, IInv, Published
  <2>3. pool[c] = p
    BY <1>1, <2>1, <2>2 DEF IInv, PoolsInTurn
  <2>4. QED
    BY <1>1, <1>3, <2>3 DEF CloseReturns, Holders, Connected
<1>4. Connected = {}
  BY <1>3
<1>5. QED
  BY <1>2, <1>4 DEF Contract!Shut, Gate, Connected, calls

\* A release without migrations leaves the schema as it is.
LEMMA OperatorMaps ==
  ASSUME IInv, Operator
  PROVE  Contract!Migrate \/ UNCHANGED Contract!state
<1>1. PICK release \in Release : Setup(release) \/ Upgrade(release)
  BY DEF Operator
<1>2. UNCHANGED <<instance, calls>> /\ Gate' = Gate /\ Connected' = Connected
  BY <1>1 DEF Setup, Upgrade, Gate, Connected, instance, calls
<1>3. schema' > schema \/ schema' = schema
  BY <1>1, SizesAssumption DEF Setup, Upgrade, IInv, TypeOK
<1>4. QED
  BY <1>2, <1>3 DEF Contract!Migrate, Contract!state, instance, calls

-----------------------------------------------------------------------------

\* A call that does not end keeps its ticket; only Acquire and Continue move it
\* through the gate.

LEMMA StartMaps ==
  ASSUME IInv, NEW c \in Call, NEW op \in Operation, Start(c, op)
  PROVE  Contract!Begin(c)
<1>1. pc[c] = "idle" /\ pool[c] = 0 /\ lifecycle = "active" /\ prepared = activations
  BY DEF Start, IInv, Published, CallsOnPools
<1>2. UNCHANGED <<instance, schema>> /\ Gate' = Gate
  BY DEF Start, Gate, instance
<1>3. Connected' = Connected
  BY <1>1 DEF Start, Connected, ConnectionSteps, IInv, TypeOK
<1>4. QED
  BY <1>1, <1>2, <1>3 DEF Start, Contract!Begin, Gate, instance

\* The pool that hands out a connection is the published one, and whoever has
\* a connection has one of that pool.
LEMMA AcquireMaps ==
  ASSUME IInv, NEW c \in Call, Acquire(c)
  PROVE  Contract!Enter(c)
<1>1. pc[c] \in Waiting /\ pools[pool[c]] = "open"
  BY DEF Acquire
<1>2. pool[c] \in Pool
  BY <1>1 DEF IInv, CallsOnPools, Waiting
<1>3. pool[c] = prepared /\ prepared # 0 /\ lifecycle = "active" /\ prepared = activations
  BY <1>1, <1>2 DEF IInv, Published, PoolsInTurn, Pool
<1>4. Holders(prepared) = Connected
  BY <1>3, HeldOnRunningPool DEF Holders, Connected
<1>5. c \notin Connected /\ Cardinality(Connected) < PoolSize
  BY <1>1, <1>3, <1>4 DEF Acquire, Connected, ConnectionSteps, Waiting
<1>6. schema >= Authored
  BY <1>3 DEF IInv, SchemaKept
<1>7. UNCHANGED <<instance, schema, pool>> /\ Gate' = Gate
  BY DEF Acquire, Gate, instance
<1>8. Connected' = Connected \cup {c}
  BY DEF Acquire, Connected, ConnectionSteps, IInv, TypeOK
<1>9. Contract!Cardinality(Connected) = Cardinality(Connected)
  BY DEF Contract!Cardinality, Cardinality
<1>10. QED
  BY <1>3, <1>5, <1>6, <1>7, <1>8, <1>9 DEF Contract!Enter, Gate, instance

LEMMA ContinueMaps ==
  ASSUME IInv, NEW c \in Call, Continue(c)
  PROVE  Contract!Leave(c)
<1>1. UNCHANGED <<instance, schema, pool>> /\ Gate' = Gate
  BY DEF Continue, Gate, instance
<1>2. c \in Connected
  BY DEF Continue, Connected, ConnectionSteps
<1>3. Connected' = Connected \ {c}
  BY DEF Continue, Connected, ConnectionSteps, IInv, TypeOK
<1>4. QED
  BY <1>1, <1>2, <1>3 DEF Contract!Leave, instance

LEMMA HttpAnswerMaps ==
  ASSUME IInv, NEW c \in Call, HttpAnswer(c)
  PROVE  UNCHANGED Contract!state
<1>1. UNCHANGED <<instance, schema, pool>> /\ Gate' = Gate
  BY DEF HttpAnswer, Gate, instance
<1>2. Connected' = Connected
  BY DEF HttpAnswer, Connected, ConnectionSteps, IInv, TypeOK
<1>3. QED
  BY <1>1, <1>2 DEF Contract!state, instance

\* Refused, answered or failed: the call was in flight and is no more.
LEMMA FinishMaps ==
  ASSUME IInv, NEW c \in Call, AcquireRefused(c) \/ Answer(c) \/ Fail(c)
  PROVE  Contract!End(c)
<1>1. Finish(c) /\ pc[c] # "idle"
  BY DEF AcquireRefused, Answer, Fail, Waiting
<1>2. pool[c] # 0
  BY <1>1 DEF IInv, CallsOnPools, Pool
<1>3. UNCHANGED <<instance, schema>> /\ Gate' = Gate
  BY <1>1 DEF Finish, Gate, instance
<1>4. Connected' = Connected \ {c}
  BY <1>1 DEF Finish, Connected, ConnectionSteps, IInv, TypeOK
<1>5. QED
  BY <1>1, <1>2, <1>3, <1>4 DEF Finish, Contract!End, instance

LEMMA NextMaps ==
  ASSUME IInv, [Next]_vars
  PROVE  Contract!Next \/ UNCHANGED Contract!state
<1>1. CASE UNCHANGED vars
  BY <1>1 DEF vars, instance, calls, Contract!state, Gate, Connected
<1>2. CASE Lifecycle
  BY <1>2, ActivationMaps, PublishMaps, DeactivateMaps, DeactivatedMaps
     DEF Lifecycle, Contract!Next
<1>3. CASE Operator
  BY <1>3, OperatorMaps DEF Contract!Next
<1>4. ASSUME NEW c \in Call, Step(c)
      PROVE  Contract!Next \/ UNCHANGED Contract!state
  BY <1>4, StartMaps, AcquireMaps, ContinueMaps, HttpAnswerMaps, FinishMaps
     DEF Step, Contract!Next
<1>5. QED
  BY <1>1, <1>2, <1>3, <1>4 DEF Next

\* The Instance implements its contract: the database is used only in the
\* activation a call began in, by no more calls than there are connections, on
\* a schema that has what they need, and deactivate returns when all have left.
THEOREM InstanceContractKept == Spec => ImplementsInstanceContract
<1>1. IInv /\ [Next]_vars => [Contract!Next]_(Contract!state)
  BY NextMaps
<1>2. QED
  BY <1>1, InitMaps, Invariance, PTL DEF Spec, ImplementsInstanceContract, Contract!Spec
=============================================================================

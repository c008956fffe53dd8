---------------------------- MODULE PluginInstance ----------------------------
(***************************************************************************)
(* One Plugin Instance: its activation and deactivation, the calls it      *)
(* admits, and the connection pool they share.                             *)
(*                                                                         *)
(* The Instance runs on one thread, so what happens between two awaits is  *)
(* one step. Everything else may happen at an await: a deactivation during *)
(* a POST, a schema upgrade during an activation, another call between two *)
(* queries. A call clones the prepared state once, at its start, and works *)
(* on that clone whatever happens to the Instance.                         *)
(*                                                                         *)
(* External: the Kernel (when activate, deactivate and the handlers run),  *)
(* the sqlx pool, lenso_postgres_kit, the Secrets and HTTP providers.      *)
(***************************************************************************)
EXTENDS Integers, FiniteSets

CONSTANTS
  Call,               \* invocations that may be in flight together
  PoolSize,           \* connections of a pool
  Authored,           \* version of the last authored migration
  Release,            \* versions the operator's releases carry
  MaxActivations      \* bound of the model on successful activations

ASSUME SizesAssumption ==
  PoolSize \in Nat \ {0} /\ Authored \in Nat \ {0} /\ Release \subseteq Nat /\ MaxActivations \in Nat

VARIABLES
  lifecycle,   \* where activate or deactivate is
  activations, \* pools published so far; each activation numbers its own
  prepared,    \* the pool in `prepared`, 0 for None
  pools,       \* state of each pool
  schema,      \* installed migrations, 0 when the schema is missing
  pc,          \* where each call is
  operation,   \* what it was called for
  pool,        \* the pool of its clone, 0 when it has none
  left         \* connections it has still to take

instance == <<lifecycle, activations, prepared, pools>>
calls    == <<pc, operation, pool, left>>
vars     == <<instance, schema, calls>>

-----------------------------------------------------------------------------
(* What the variables hold. *)

Pool == 1..MaxActivations

Operation == {"enqueue", "dispatch", "inspect", "replay"}

Waiting == {"acquiring", "reacquiring"}

\* Fault: the transaction of the claim stays open during the POST.
ConnectionStepsAcrossPost == {"querying", "posting"}

\* Fault: a call keeps its connection until it has the next one.
ConnectionStepsAcrossQueries == {"querying", "reacquiring"}

\* Steps of a call that have a connection checked out: one transaction, or
\* one statement on the pool, and nothing across them.
ConnectionSteps == {"querying"}

Holders(p) == {c \in Call : pool[c] = p /\ pc[c] \in ConnectionSteps}

-----------------------------------------------------------------------------
(* activate and deactivate. *)

\* activate returns an error: nothing is published, what it opened is dropped.
ActivationFails ==
  /\ lifecycle \in {"resolving_url", "resolving_key", "preparing", "verified"}
  /\ lifecycle' = "inactive"
  /\ UNCHANGED <<activations, prepared, pools, schema, calls>>

Activate ==
  /\ lifecycle = "inactive"
  /\ lifecycle' = "resolving_url"
  /\ UNCHANGED <<activations, prepared, pools, schema, calls>>

\* resolve_secret of the database URL, then of the signing key.
DatabaseUrlResolved ==
  /\ lifecycle = "resolving_url"
  /\ lifecycle' = "resolving_key"
  /\ UNCHANGED <<activations, prepared, pools, schema, calls>>

\* A key of fewer than 32 bytes is refused before anything is connected.
SigningKeyResolved ==
  /\ lifecycle = "resolving_key"
  /\ \E key \in {"short", "long"} :
       lifecycle' = IF key = "short" THEN "inactive" ELSE "preparing"
  /\ UNCHANGED <<activations, prepared, pools, schema, calls>>

\* Fault: any managed schema will do.
SchemaIsManaged == schema # 0

\* prepare verifies that exactly the authored migrations are installed.
SchemaIsExact == schema = Authored

Verify ==
  /\ lifecycle = "preparing"
  /\ lifecycle' = IF SchemaIsExact THEN "verified" ELSE "inactive"
  /\ UNCHANGED <<activations, prepared, pools, schema, calls>>

\* prepare has returned; `prepared` is replaced in the same step.
Publish ==
  /\ lifecycle = "verified"
  /\ activations < MaxActivations
  /\ lifecycle' = "active"
  /\ activations' = activations + 1
  /\ prepared' = activations + 1
  /\ pools' = [pools EXCEPT ![activations + 1] = "open"]
  /\ UNCHANGED <<schema, calls>>

\* Fault: the pool is not closed.
DeactivateLeavingOpen ==
  /\ lifecycle = "active"
  /\ prepared' = 0
  /\ lifecycle' = "inactive"
  /\ UNCHANGED <<activations, pools, schema, calls>>

\* take() empties `prepared` before close() is awaited.
Deactivate ==
  /\ lifecycle = "active"
  /\ prepared' = 0
  /\ pools' = [pools EXCEPT ![prepared] = "closing"]
  /\ lifecycle' = "closing"
  /\ UNCHANGED <<activations, schema, calls>>

\* Fault: close() is not awaited.
CloseReturnsAtOnce(p) == TRUE

\* close() returns when every connection of the pool has been given back.
CloseReturns(p) == Holders(p) = {}

Deactivated ==
  /\ lifecycle = "closing"
  /\ \E p \in Pool :
       /\ pools[p] = "closing"
       /\ CloseReturns(p)
       /\ pools' = [pools EXCEPT ![p] = "closed"]
  /\ lifecycle' = "inactive"
  /\ UNCHANGED <<activations, prepared, schema, calls>>

-----------------------------------------------------------------------------
(* The operator: the only one who changes the schema, at any time. *)

Setup(release) ==
  /\ schema = 0
  /\ schema' = release
  /\ UNCHANGED <<instance, calls>>

Upgrade(release) ==
  /\ schema \in 1..(release - 1)
  /\ schema' = release
  /\ UNCHANGED <<instance, calls>>

-----------------------------------------------------------------------------
(* The calls. *)

\* Connections a call takes, one after the other: insert_or_get; claim_due and
\* record_outcome; the two queries of load; load and begin_replay.
Connections(op) ==
  CASE op = "enqueue" -> 1
    [] op = "dispatch" -> 2
    [] op = "inspect" -> 2
    [] OTHER -> 3

\* The handler passes its checks of caller and request and clones `prepared`;
\* with none it answers "not active" and nothing has happened.
Start(c, op) ==
  /\ pc[c] = "idle"
  /\ prepared # 0
  /\ pc' = [pc EXCEPT ![c] = "acquiring"]
  /\ operation' = [operation EXCEPT ![c] = op]
  /\ pool' = [pool EXCEPT ![c] = prepared]
  /\ left' = [left EXCEPT ![c] = Connections(op)]
  /\ UNCHANGED <<instance, schema>>

\* The call ends, with a response or a runtime failure.
Finish(c) ==
  /\ pc' = [pc EXCEPT ![c] = "idle"]
  /\ operation' = [operation EXCEPT ![c] = "enqueue"]
  /\ pool' = [pool EXCEPT ![c] = 0]
  /\ left' = [left EXCEPT ![c] = 0]
  /\ UNCHANGED <<instance, schema>>

\* Fault: the pool is read from `prepared` at every query, not cloned once.
AcquireFromPrepared(c) ==
  /\ pc[c] \in Waiting
  /\ prepared # 0
  /\ Cardinality(Holders(prepared)) < PoolSize
  /\ pc' = [pc EXCEPT ![c] = "querying"]
  /\ pool' = [pool EXCEPT ![c] = prepared]
  /\ left' = [left EXCEPT ![c] = left[c] - 1]
  /\ UNCHANGED <<instance, schema, operation>>

\* The pool hands a connection to a waiting call.
Acquire(c) ==
  /\ pc[c] \in Waiting
  /\ pools[pool[c]] = "open"
  /\ Cardinality(Holders(pool[c])) < PoolSize
  /\ pc' = [pc EXCEPT ![c] = "querying"]
  /\ left' = [left EXCEPT ![c] = left[c] - 1]
  /\ UNCHANGED <<instance, schema, operation, pool>>

\* A closed pool refuses it: the call ends with a runtime failure.
AcquireRefused(c) ==
  /\ pc[c] \in Waiting
  /\ pools[pool[c]] # "open"
  /\ Finish(c)

\* Fault: a call goes on after its last statement.
ContinueForEver(c) ==
  /\ pc[c] = "querying"
  /\ pc' = [pc EXCEPT ![c] = "reacquiring"]
  /\ UNCHANGED <<instance, schema, operation, pool, left>>

\* The transaction or statement is done, its connection back in the pool, and
\* the call goes on: dispatch posts, unless the endpoint changed.
Continue(c) ==
  /\ pc[c] = "querying"
  /\ left[c] > 0
  /\ \E step \in IF operation[c] = "dispatch" THEN {"posting", "reacquiring"}
                 ELSE {"reacquiring"} :
       pc' = [pc EXCEPT ![c] = step]
  /\ UNCHANGED <<instance, schema, operation, pool, left>>

\* It was the last one, or there is nothing more to do: no due delivery, no
\* such delivery, not a dead letter.
Answer(c) ==
  /\ pc[c] = "querying"
  /\ Finish(c)

HttpAnswer(c) ==
  /\ pc[c] = "posting"
  /\ pc' = [pc EXCEPT ![c] = "reacquiring"]
  /\ UNCHANGED <<instance, schema, operation, pool, left>>

\* The call is cancelled, its acquire times out or its connection fails.
Fail(c) ==
  /\ pc[c] # "idle"
  /\ Finish(c)

-----------------------------------------------------------------------------
(* The specification. *)

Init ==
  /\ lifecycle = "inactive"
  /\ activations = 0
  /\ prepared = 0
  /\ pools = [p \in Pool |-> "unopened"]
  /\ schema \in {0} \cup Release
  /\ pc = [c \in Call |-> "idle"]
  /\ operation = [c \in Call |-> "enqueue"]
  /\ pool = [c \in Call |-> 0]
  /\ left = [c \in Call |-> 0]

Lifecycle ==
  \/ Activate \/ DatabaseUrlResolved \/ SigningKeyResolved \/ Verify \/ Publish
  \/ ActivationFails \/ Deactivate \/ Deactivated

Operator == \E release \in Release : Setup(release) \/ Upgrade(release)

Step(c) ==
  \/ \E op \in Operation : Start(c, op)
  \/ Acquire(c) \/ AcquireRefused(c) \/ Continue(c) \/ Answer(c) \/ HttpAnswer(c) \/ Fail(c)

Next == Lifecycle \/ Operator \/ \E c \in Call : Step(c)

Spec == Init /\ [][Next]_vars

\* PostgreSQL answers every statement, the pool serves its waiters in turn,
\* and the future of close() is polled. Nothing is asked of the receiver of a
\* POST, of the Kernel or of the callers.
Fairness ==
  /\ \A c \in Call : /\ WF_vars(Continue(c) \/ Answer(c))
                     /\ SF_vars(Acquire(c))
                     /\ WF_vars(AcquireRefused(c))
  /\ WF_vars(Deactivated)

-----------------------------------------------------------------------------
(* Properties. *)

TypeOK ==
  /\ lifecycle \in {"inactive", "resolving_url", "resolving_key", "preparing", "verified",
                    "active", "closing"}
  /\ activations \in 0..MaxActivations
  /\ prepared \in 0..MaxActivations
  /\ pools \in [Pool -> {"unopened", "open", "closing", "closed"}]
  /\ schema \in Nat
  /\ pc \in [Call -> {"idle", "querying", "posting"} \cup Waiting]
  /\ operation \in [Call -> Operation]
  /\ pool \in [Call -> 0..MaxActivations]
  /\ left \in [Call -> Nat]

\* Once deactivate has returned, no call touches the database, however many
\* were in flight and wherever they were, until the next activation is done:
\* calls that outlive their Instance find their own pool closed, never the
\* pool of a later activation.
QuietWhenInactive ==
  lifecycle \notin {"active", "closing"} =>
    \A c \in Call : pc[c] \notin ConnectionSteps

\* A call that works on the pool of an earlier activation never has a
\* connection: closing was complete before the Instance came back.
NoConnectionOfAnEarlierPool ==
  \A c \in Call : pc[c] \in ConnectionSteps /\ lifecycle = "active" => pool[c] = prepared

\* No statement runs on a schema that lacks an authored migration: it was
\* verified before the pool was published and the operator only adds.
StatementsFindTheirSchema ==
  \A c \in Call : pc[c] \in ConnectionSteps => schema >= Authored

\* deactivate returns although receivers may never answer the POSTs in
\* flight: a dispatch has no connection while it posts.
DeactivationEnds == lifecycle = "closing" ~> lifecycle = "inactive"

\* A call that waits for a connection gets one or is refused, even when as
\* many calls wait as there are connections and every POST hangs: no call
\* waits for a connection while it has one.
NoCallStarves == \A c \in Call : pc[c] \in Waiting ~> pc[c] \notin Waiting
=============================================================================

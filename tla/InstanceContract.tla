--------------------------- MODULE InstanceContract ---------------------------
(***************************************************************************)
(* What one Plugin Instance promises about its database, without pools,    *)
(* handlers, secrets or the order in which calls take their connections: a *)
(* gate that is opened and shut, one period after the other. A call gets a *)
(* ticket for the period it began in and goes in and out with it; nobody   *)
(* goes in with another ticket, while the gate is being shut, or in excess *)
(* of the size; it is shut when nobody is inside any more.                 *)
(***************************************************************************)
EXTENDS Naturals, FiniteSets

CONSTANTS Call,       \* the calls
          Size,       \* how many may be inside together
          Authored    \* the migrations whoever is inside relies on

VARIABLES gate,       \* is the database open to calls?
          period,     \* periods begun so far
          ticket,     \* the period each call began in, 0 for none
          inside,     \* the calls that use the database right now
          schema      \* migrations installed

state == <<gate, period, ticket, inside, schema>>

Init ==
  /\ gate = "shut"
  /\ period = 0
  /\ ticket = [c \in Call |-> 0]
  /\ inside = {}
  /\ schema \in Nat

\* Open the gate, for a new period and on a schema that has what it needs.
Open ==
  /\ gate = "shut" /\ inside = {} /\ schema >= Authored
  /\ gate' = "open" /\ period' = period + 1
  /\ UNCHANGED <<ticket, inside, schema>>

\* Nobody is let in from now on.
Drain ==
  /\ gate = "open"
  /\ gate' = "draining"
  /\ UNCHANGED <<period, ticket, inside, schema>>

Shut ==
  /\ gate = "draining" /\ inside = {}
  /\ gate' = "shut"
  /\ UNCHANGED <<period, ticket, inside, schema>>

\* Migrations are added, never taken away.
Migrate ==
  /\ schema' > schema
  /\ UNCHANGED <<gate, period, ticket, inside>>

Begin(c) ==
  /\ gate = "open" /\ ticket[c] = 0
  /\ ticket' = [ticket EXCEPT ![c] = period]
  /\ UNCHANGED <<gate, period, inside, schema>>

Enter(c) ==
  /\ gate = "open" /\ ticket[c] = period /\ schema >= Authored
  /\ c \notin inside /\ Cardinality(inside) < Size
  /\ inside' = inside \cup {c}
  /\ UNCHANGED <<gate, period, ticket, schema>>

\* The call goes on outside, at a POST or between two statements.
Leave(c) ==
  /\ c \in inside
  /\ inside' = inside \ {c}
  /\ UNCHANGED <<gate, period, ticket, schema>>

\* The call ends, at whatever point, in whatever period.
End(c) ==
  /\ ticket[c] # 0
  /\ ticket' = [ticket EXCEPT ![c] = 0]
  /\ inside' = inside \ {c}
  /\ UNCHANGED <<gate, period, schema>>

Next ==
  \/ Open \/ Drain \/ Shut \/ Migrate
  \/ \E c \in Call : Begin(c) \/ Enter(c) \/ Leave(c) \/ End(c)

Spec == Init /\ [][Next]_state
=============================================================================

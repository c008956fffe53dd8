-------------------------- MODULE CapabilityAnswers --------------------------
(***************************************************************************)
(* The way of one answer from the Plugin to its caller. A handler answers  *)
(* with a response, a Domain error or a runtime failure. The answer passes *)
(* clients, Plugins that provide the same Capability by forwarding to      *)
(* another provider of it, and, between processes, a JSON codec. Peers are *)
(* built against different descriptors: an error code one peer knows as a  *)
(* variant is Unknown to another, but there is no Unknown for responses,   *)
(* whose enums are closed and whose members are all required.              *)
(*                                                                         *)
(* External: the Kernel, which moves answers between Plugins and processes *)
(* and turns a decoding error into a runtime failure.                      *)
(***************************************************************************)
EXTENDS Naturals

CONSTANTS
  Peer,     \* processes an answer may enter
  Code,     \* error codes of any descriptor
  Knows,    \* [Peer -> codes that are variants of its generated error type]
  Payload,  \* payloads of an error object
  None,     \* no code, no payload, no status
  Field,    \* further fields of an error object
  Status,   \* values of the enum in a response, of any descriptor
  Statuses, \* [Peer -> variants of its generated enum]
  Member,   \* members of a response, of any descriptor
  Members,  \* [Peer -> members of its generated response type]
  MaxHops   \* bound of the model on the number of hops

ASSUME CodesAssumption ==
  /\ None \notin Code \cup Payload
  /\ Knows \in [Peer -> SUBSET Code]
ASSUME ResponsesAssumption ==
  /\ Statuses \in [Peer -> SUBSET Status]
  /\ Members \in [Peer -> SUBSET Member]
ASSUME HopsAssumption == MaxHops \in Nat

VARIABLES
  answer,  \* what was answered, as its author meant it
  native,  \* Result<Result<Response, DomainError>, RuntimeFailure> of a provider
  flat,    \* Result<Response, InvocationError> of a client
  holder,  \* who has the answer
  route,   \* peers whose decoder it went through
  hops

vars == <<answer, native, flat, holder, route, hops>>

-----------------------------------------------------------------------------
(* The types and their codecs. *)

\* A variant has its code and nothing else; Unknown has what it was read from.
DomainError == [variant : BOOLEAN, code : Code, payload : Payload \cup {None}, extra : SUBSET Field]

Variant(code) == [variant |-> TRUE, code |-> code, payload |-> None, extra |-> {}]

UnknownDomainError(code, payload, extra) ==
  [variant |-> FALSE, code |-> code, payload |-> payload, extra |-> extra]

\* JSON values of an error; an object without a string code has none.
Wire ==
  [json : {"string"}, code : Code, payload : {None}, extra : {{}}]
    \cup [json : {"object"}, code : Code \cup {None}, payload : Payload \cup {None}, extra : SUBSET Field]
    \cup [json : {"other"}, code : {None}, payload : {None}, extra : {{}}]

WellFormed(wire) == wire.json \in {"string", "object"} /\ wire.code # None

Serialize(error) ==
  [json |-> IF error.variant THEN "string" ELSE "object",
   code |-> error.code, payload |-> error.payload, extra |-> error.extra]

NoError == [variant |-> FALSE, code |-> None, payload |-> None, extra |-> {}]

\* A response, or its JSON object: the value of its enum and what else it has.
Response   == [status : Status, members : SUBSET Member]
NoResponse == [status |-> None, members |-> {}]

Ok(response)  == [layer |-> "response", error |-> NoError, response |-> response]
Domain(error) == [layer |-> "domain", error |-> error, response |-> NoResponse]
Runtime       == [layer |-> "runtime", error |-> NoError, response |-> NoResponse]

\* What process p can hold as a response.
Held(p) == [status : Statuses[p], members : {Members[p]}]

\* Fault: a nullable member without deserialize_required reads as null when absent.
DecodeResponseDefaulting(p, sent) ==
  IF sent.status \in Statuses[p]
  THEN Ok([status |-> sent.status, members |-> Members[p]])
  ELSE Runtime

\* The derived Deserialize of a response: a value that is no variant, or a member
\* that is missing, is a decoding error; a member p does not know is dropped.
DecodeResponse(p, sent) ==
  IF sent.status \in Statuses[p] /\ Members[p] \subseteq sent.members
  THEN Ok([status |-> sent.status, members |-> Members[p]])
  ELSE Runtime

\* Fault: a string that is no variant is a decoding error.
DeserializeStrictly(known, wire) ==
  CASE wire.json = "string" /\ wire.code \in known -> Domain(Variant(wire.code))
    [] wire.json = "object" /\ wire.code # None ->
         Domain(UnknownDomainError(wire.code, wire.payload, wire.extra))
    [] OTHER -> Runtime

\* Fault: an object is read as the variant its code names.
DeserializeByCode(known, wire) ==
  CASE WellFormed(wire) /\ wire.code \in known -> Domain(Variant(wire.code))
    [] WellFormed(wire) /\ wire.code \notin known ->
         Domain(UnknownDomainError(wire.code, wire.payload, wire.extra))
    [] OTHER -> Runtime

\* Fault: an object needs no code.
DeserializeAnyObject(known, wire) ==
  CASE wire.json = "string" /\ wire.code \in known -> Domain(Variant(wire.code))
    [] wire.json = "string" /\ wire.code \in Code \ known ->
         Domain(UnknownDomainError(wire.code, None, {}))
    [] wire.json = "object" -> Domain(UnknownDomainError(wire.code, wire.payload, wire.extra))
    [] OTHER -> Runtime

\* Only strings are read as variants; an object is always Unknown.
Deserialize(known, wire) ==
  CASE wire.json = "string" /\ wire.code \in known -> Domain(Variant(wire.code))
    [] wire.json = "string" /\ wire.code \in Code \ known ->
         Domain(UnknownDomainError(wire.code, None, {}))
    [] wire.json = "object" /\ wire.code # None ->
         Domain(UnknownDomainError(wire.code, wire.payload, wire.extra))
    [] OTHER -> Runtime

-----------------------------------------------------------------------------
(* The three layers, nested as providers return them and flat as clients do. *)

Native == [outer : {"ok", "err"}, inner : {"ok", "err"},
           error : DomainError \cup {NoError}, response : Response \cup {NoResponse}]
Flat   == [layer : {"response", "domain", "runtime"},
           error : DomainError \cup {NoError}, response : Response \cup {NoResponse}]

\* The client: map_err(Runtime), then map_err(Domain).
Invocation(result) ==
  IF result.outer = "err" THEN Runtime
  ELSE IF result.inner = "err" THEN Domain(result.error)
  ELSE Ok(result.response)

\* A Plugin returns what its client returned as its own result.
IntoResult(result) ==
  [outer |-> IF result.layer = "runtime" THEN "err" ELSE "ok",
   inner |-> IF result.layer = "domain" THEN "err" ELSE "ok",
   error |-> result.error,
   response |-> result.response]

-----------------------------------------------------------------------------
(* The specification. *)

\* The Plugin's handler for an operation of its own.
PluginAnswers(p) ==
  /\ holder = "asked"
  /\ \E flow \in {Runtime} \cup {Domain(Variant(code)) : code \in Knows[p]}
                         \cup {Ok(response) : response \in Held(p)} :
       /\ answer' = flow
       /\ native' = IntoResult(flow)
  /\ holder' = "provider"
  /\ UNCHANGED <<flat, route, hops>>

\* The endpoint was asked for an operation it has not, or with a request of
\* another type: no handler runs.
EndpointRefuses ==
  /\ holder = "asked"
  /\ answer' = Runtime
  /\ native' = IntoResult(Runtime)
  /\ holder' = "provider"
  /\ UNCHANGED <<flat, route, hops>>

\* What a JSON value says, to a reader that knows every code.
Meant(wire) ==
  IF WellFormed(wire)
  THEN Domain(IF wire.json = "string" THEN Variant(wire.code)
              ELSE UnknownDomainError(wire.code, wire.payload, wire.extra))
  ELSE Runtime

\* A provider in another process, of a descriptor unknown here, sends p any JSON
\* for an error, or a response of whatever status and members.
ForeignAnswers(p) ==
  /\ holder = "asked"
  /\ \/ \E wire \in Wire :
          /\ answer' = Meant(wire)
          /\ native' = IntoResult(Deserialize(Knows[p], wire))
     \/ \E sent \in Response :
          /\ answer' = Ok(sent)
          /\ native' = IntoResult(DecodeResponse(p, sent))
  /\ holder' = "provider"
  /\ route' = {p}
  /\ UNCHANGED <<flat, hops>>

\* The answer reaches a client of the same process, typed or boxed.
ClientReceives ==
  /\ holder = "provider"
  /\ flat' = Invocation(native)
  /\ holder' = "client"
  /\ UNCHANGED <<answer, native, route, hops>>

\* The Plugin of that client provides the Capability and returns the result.
Forward ==
  /\ holder = "client"
  /\ hops < MaxHops
  /\ native' = IntoResult(flat)
  /\ holder' = "provider"
  /\ hops' = hops + 1
  /\ UNCHANGED <<answer, flat, route>>

\* What p reads of a result that another process encoded.
Reread(p, result) ==
  CASE result.outer = "err" -> Runtime
    [] result.outer = "ok" /\ result.inner = "err" -> Deserialize(Knows[p], Serialize(result.error))
    [] result.outer = "ok" /\ result.inner = "ok"  -> DecodeResponse(p, result.response)

\* The answer enters process p as JSON.
EnterProcess(p) ==
  /\ holder = "provider"
  /\ hops < MaxHops
  /\ native' = IntoResult(Reread(p, native))
  /\ route' = route \cup {p}
  /\ hops' = hops + 1
  /\ UNCHANGED <<answer, flat, holder>>

\* The next call is made once its caller has the answer.
Ask ==
  /\ holder = "client"
  /\ answer' = Runtime /\ native' = IntoResult(Runtime) /\ flat' = Runtime
  /\ holder' = "asked" /\ route' = {} /\ hops' = 0

Init ==
  /\ answer = Runtime /\ native = IntoResult(Runtime) /\ flat = Runtime
  /\ holder = "asked" /\ route = {} /\ hops = 0

Next ==
  \/ \E p \in Peer : PluginAnswers(p) \/ ForeignAnswers(p) \/ EnterProcess(p)
  \/ EndpointRefuses \/ ClientReceives \/ Forward \/ Ask

Spec == Init /\ [][Next]_vars

-----------------------------------------------------------------------------
(* Properties. *)

TypeOK ==
  /\ answer \in Flat /\ flat \in Flat
  /\ native \in Native
  /\ holder \in {"asked", "provider", "client"}
  /\ route \subseteq Peer
  /\ hops \in 0..MaxHops

\* A Domain error stays one, with its code, its payload and its further
\* fields, and a runtime failure stays one: retry policies of callers rest on
\* the layer, operators on the code, whatever old peers are on the way.
FailureSurvives ==
  holder = "client" /\ answer.layer # "response" =>
    /\ flat.layer = answer.layer
    /\ flat.error.code = answer.error.code
    /\ flat.error.payload = answer.error.payload
    /\ flat.error.extra = answer.error.extra

\* What is left of a response after the decoders of rt.
Kept(sent, rt) == {m \in sent.members : \A p \in rt : m \in Members[p]}

\* Some decoder of rt has no variant for the status, or wants a member that was
\* not sent or that a decoder of rt dropped.
Unreadable(sent, rt) ==
  \E p \in rt : sent.status \notin Statuses[p] \/ ~(Members[p] \subseteq Kept(sent, rt))

\* A response arrives as it was answered, without the members some decoder did not
\* know, or it does not arrive: then some decoder could not have it, and the caller
\* has a runtime failure of an operation that took effect. Never is a status
\* exchanged, a missing member read as null, or a response taken for a Domain error.
ResponseArrivesOrFails ==
  holder = "client" /\ answer.layer = "response" =>
    \/ /\ flat.layer = "response"
       /\ flat.response.status = answer.response.status
       /\ flat.response.members = Kept(answer.response, route)
       /\ \A p \in route : answer.response.status \in Statuses[p]
    \/ flat.layer = "runtime" /\ Unreadable(answer.response, route)

\* The caller matches on a variant exactly when every decoder on the way knew
\* it: one old peer, and all newer ones behind it see Unknown, so a caller
\* must treat Unknown with a code it knows as that code.
VariantWhileKnown ==
  holder = "client" /\ flat.layer = "domain" =>
    (flat.error.variant <=>
       answer.error.variant /\ \A p \in route : answer.error.code \in Knows[p])
=============================================================================

----------------------- MODULE CapabilityAnswersProofs -----------------------
(***************************************************************************)
(* The properties of CapabilityAnswers hold for any descriptors, any       *)
(* number of peers and a way of any length.                                *)
(***************************************************************************)
EXTENDS CapabilityAnswers, TLAPS

-----------------------------------------------------------------------------
(* What one hop preserves. *)

\* An error as it is built: a variant carries nothing but its code.
Plain(error) == error.variant => error.payload = None /\ error.extra = {}

\* An answer of one of the three layers; a Domain answer has an error and a
\* response a response.
Answer ==
  {r \in Flat : /\ r.layer = "domain" => r.error \in DomainError /\ Plain(r.error)
                /\ r.layer # "domain" => r.error = NoError
                /\ r.layer = "response" => r.response \in Response
                /\ r.layer # "response" => r.response = NoResponse}

\* The response a, as told to someone who got it as r through the decoders of rt.
TellsResponse(r, a, rt) ==
  \/ /\ r.layer = "response"
     /\ r.response.status = a.response.status
     /\ r.response.members = Kept(a.response, rt)
     /\ \A p \in rt : a.response.status \in Statuses[p]
  \/ r.layer = "runtime" /\ Unreadable(a.response, rt)

\* The failure a, likewise.
TellsFailure(r, a, rt) ==
  /\ r.layer = a.layer
  /\ r.error.code = a.error.code
  /\ r.error.payload = a.error.payload
  /\ r.error.extra = a.error.extra
  /\ r.layer = "domain" =>
       (r.error.variant <=> a.error.variant /\ \A p \in rt : a.error.code \in Knows[p])

Tells(r, a, rt) ==
  /\ a.layer = "response" => TellsResponse(r, a, rt)
  /\ a.layer # "response" => TellsFailure(r, a, rt)

\* A client undoes what a provider's return did.
LEMMA ClientUndoesProvider ==
  ASSUME NEW r \in Answer
  PROVE  IntoResult(r) \in Native /\ Invocation(IntoResult(r)) = r
<1>1. /\ r \in [layer : {"response", "domain", "runtime"},
                error : DomainError \cup {NoError}, response : Response \cup {NoResponse}]
      /\ r.layer # "domain" => r.error = NoError
      /\ r.layer # "response" => r.response = NoResponse
  BY DEF Answer, Flat
<1>2. r = [layer |-> r.layer, error |-> r.error, response |-> r.response]
  BY <1>1
<1>3. IntoResult(r) \in Native
  BY <1>1 DEF IntoResult, Native
<1>4. /\ IntoResult(r).outer = IF r.layer = "runtime" THEN "err" ELSE "ok"
      /\ IntoResult(r).inner = IF r.layer = "domain" THEN "err" ELSE "ok"
      /\ IntoResult(r).error = r.error /\ IntoResult(r).response = r.response
  BY DEF IntoResult
<1>5. CASE r.layer = "response"
  <2>1. Invocation(IntoResult(r)) = Ok(r.response)
    BY <1>4, <1>5 DEF Invocation
  <2>2. QED
    BY <1>1, <1>2, <1>3, <1>5, <2>1 DEF Ok
<1>6. CASE r.layer = "domain"
  <2>1. Invocation(IntoResult(r)) = Domain(r.error)
    BY <1>4, <1>6 DEF Invocation
  <2>2. QED
    BY <1>1, <1>2, <1>3, <1>6, <2>1 DEF Domain
<1>7. CASE r.layer = "runtime"
  <2>1. Invocation(IntoResult(r)) = Runtime
    BY <1>4, <1>7 DEF Invocation
  <2>2. QED
    BY <1>1, <1>2, <1>3, <1>7, <2>1 DEF Runtime
<1>8. QED
  BY <1>1, <1>5, <1>6, <1>7

LEMMA VariantIsError ==
  ASSUME NEW code \in Code
  PROVE  Variant(code) \in DomainError /\ Plain(Variant(code))
  BY DEF Variant, DomainError, Plain

LEMMA UnknownIsError ==
  ASSUME NEW code \in Code, NEW payload \in Payload \cup {None}, NEW extra \in SUBSET Field
  PROVE  /\ UnknownDomainError(code, payload, extra) \in DomainError
         /\ Plain(UnknownDomainError(code, payload, extra))
  BY DEF UnknownDomainError, DomainError, Plain

LEMMA DomainIsAnswer ==
  ASSUME NEW error \in DomainError, Plain(error)
  PROVE  Domain(error) \in Answer
  BY DEF Domain, Answer, Flat

LEMMA ResponseIsAnswer ==
  ASSUME NEW response \in Response
  PROVE  Ok(response) \in Answer
  BY DEF Ok, Answer, Flat

LEMMA RuntimeIsAnswer == Runtime \in Answer
  BY DEF Runtime, Answer, Flat

\* What a decoder makes of a JSON value.
LEMMA DecodedAnswer ==
  ASSUME NEW wire \in Wire, NEW p \in Peer
  PROVE  /\ Deserialize(Knows[p], wire) \in Answer
         /\ Meant(wire) \in Answer
         /\ Tells(Deserialize(Knows[p], wire), Meant(wire), {p})
<1> USE CodesAssumption
<1>1. /\ wire.json \in {"string", "object", "other"} /\ wire.code \in Code \cup {None}
      /\ wire.payload \in Payload \cup {None} /\ wire.extra \in SUBSET Field
      /\ wire.json = "string" => wire.code \in Code
      /\ wire.json = "other" => wire.code = None
  BY DEF Wire
<1>2. Knows[p] \subseteq Code
  OBVIOUS
<1>3. CASE wire.json = "string"
  <2>1. wire.code \in Code /\ None \in Payload \cup {None} /\ {} \in SUBSET Field
    BY <1>1, <1>3
  <2>2. Meant(wire) = Domain(Variant(wire.code))
    BY <2>1, <1>3 DEF Meant, WellFormed
  <2>3. Deserialize(Knows[p], wire) =
          Domain(IF wire.code \in Knows[p] THEN Variant(wire.code)
                 ELSE UnknownDomainError(wire.code, None, {}))
    BY <2>1, <1>3 DEF Deserialize
  <2>4. Deserialize(Knows[p], wire) \in Answer /\ Meant(wire) \in Answer
    BY <2>1, <2>2, <2>3, VariantIsError, UnknownIsError, DomainIsAnswer
  <2>5. QED
    BY <2>2, <2>3, <2>4 DEF Tells, TellsFailure, Domain, Variant, UnknownDomainError
<1>4. CASE wire.json = "object" /\ wire.code # None
  <2>1. wire.code \in Code
    BY <1>1, <1>4
  <2>2. Meant(wire) = Domain(UnknownDomainError(wire.code, wire.payload, wire.extra))
    BY <1>4 DEF Meant, WellFormed
  <2>3. Deserialize(Knows[p], wire) = Meant(wire)
    BY <1>4, <2>2 DEF Deserialize
  <2>4. Meant(wire) \in Answer
    BY <1>1, <2>1, <2>2, UnknownIsError, DomainIsAnswer
  <2>5. QED
    BY <2>2, <2>3, <2>4 DEF Tells, TellsFailure, Domain, UnknownDomainError
<1>5. CASE wire.json # "string" /\ (wire.json = "object" => wire.code = None)
  <2>1. Meant(wire) = Runtime /\ Deserialize(Knows[p], wire) = Runtime
    BY <1>1, <1>5 DEF Meant, WellFormed, Deserialize
  <2>2. QED
    BY <2>1, RuntimeIsAnswer DEF Tells, TellsFailure, Runtime
<1>6. QED
  BY <1>3, <1>4, <1>5

\* An error that enters another process is the same error there, and stays a
\* variant if the decoder knows it.
LEMMA ReencodedError ==
  ASSUME NEW error \in DomainError, Plain(error), NEW p \in Peer,
         NEW there, there = Deserialize(Knows[p], Serialize(error))
  PROVE  /\ there \in Answer
         /\ there.layer = "domain"
         /\ there.error.code = error.code
         /\ there.error.payload = error.payload
         /\ there.error.extra = error.extra
         /\ there.error.variant <=> (error.variant /\ error.code \in Knows[p])
<1> USE CodesAssumption
<1> DEFINE wire == Serialize(error)
<1>1. /\ error.code \in Code /\ error.payload \in Payload \cup {None}
      /\ error.extra \in SUBSET Field /\ error.variant \in BOOLEAN
  BY DEF DomainError
<1>2. error.code # None
  BY <1>1
<1>3. CASE error.variant
  <2>1. wire \in Wire /\ Meant(wire) = Domain(Variant(error.code))
    BY <1>1, <1>2, <1>3 DEF Serialize, Wire, Meant, WellFormed, Plain
  <2>2. Tells(there, Meant(wire), {p}) /\ there \in Answer
    BY <2>1, DecodedAnswer
  <2>3. /\ Meant(wire).layer = "domain" /\ Meant(wire).error.variant
        /\ Meant(wire).error.code = error.code
        /\ Meant(wire).error.payload = None /\ Meant(wire).error.extra = {}
    BY <2>1 DEF Domain, Variant
  <2>4. error.payload = None /\ error.extra = {}
    BY <1>3 DEF Plain
  <2>5. QED
    BY <1>3, <2>2, <2>3, <2>4 DEF Tells, TellsFailure
<1>4. CASE ~error.variant
  <2>1. /\ wire \in Wire
        /\ Meant(wire) = Domain(UnknownDomainError(error.code, error.payload, error.extra))
    BY <1>1, <1>2, <1>4 DEF Serialize, Wire, Meant, WellFormed
  <2>2. Tells(there, Meant(wire), {p}) /\ there \in Answer
    BY <2>1, DecodedAnswer
  <2>3. /\ Meant(wire).layer = "domain" /\ ~Meant(wire).error.variant
        /\ Meant(wire).error.code = error.code
        /\ Meant(wire).error.payload = error.payload /\ Meant(wire).error.extra = error.extra
    BY <2>1 DEF Domain, UnknownDomainError
  <2>4. QED
    BY <1>4, <2>2, <2>3 DEF Tells, TellsFailure
<1>5. QED
  BY <1>1, <1>3, <1>4

\* A response that enters another process, after the decoders of rt.
LEMMA RereadResponse ==
  ASSUME NEW sent \in Response, NEW rt \in SUBSET Peer, NEW p \in Peer,
         NEW held \in Response,
         held.status = sent.status, held.members = Kept(sent, rt),
         \A q \in rt : sent.status \in Statuses[q],
         NEW there, there = DecodeResponse(p, held)
  PROVE  there \in Answer /\ TellsResponse(there, Ok(sent), rt \cup {p})
<1> USE ResponsesAssumption
<1>1. Kept(sent, rt \cup {p}) = Kept(sent, rt) \cap Members[p]
  BY DEF Kept
<1>2. Ok(sent).response = sent
  BY DEF Ok
<1>3. CASE sent.status \in Statuses[p] /\ Members[p] \subseteq Kept(sent, rt)
  <2> DEFINE read == [status |-> sent.status, members |-> Members[p]]
  <2>1. read \in Response
    BY DEF Response
  <2>2. there = Ok(read)
    BY <1>3 DEF DecodeResponse
  <2>3. there \in Answer
    BY <2>1, <2>2, ResponseIsAnswer
  <2>4. /\ there.layer = "response"
        /\ there.response.status = sent.status /\ there.response.members = Members[p]
    BY <2>2 DEF Ok
  <2>5. there.response.members = Kept(sent, rt \cup {p})
    BY <1>1, <1>3, <2>4
  <2>6. \A q \in rt \cup {p} : sent.status \in Statuses[q]
    BY <1>3
  <2>7. QED
    BY <1>2, <2>3, <2>4, <2>5, <2>6 DEF TellsResponse
<1>4. CASE ~(sent.status \in Statuses[p] /\ Members[p] \subseteq Kept(sent, rt))
  <2>1. there = Runtime
    BY <1>4 DEF DecodeResponse
  <2>2. Unreadable(sent, rt \cup {p})
    BY <1>1, <1>4 DEF Unreadable
  <2>3. QED
    BY <1>2, <2>1, <2>2, RuntimeIsAnswer DEF TellsResponse, Runtime
<1>5. QED
  BY <1>3, <1>4

-----------------------------------------------------------------------------
(* The inductive invariant: whoever has the answer has the answer given. *)

IInv ==
  /\ TypeOK
  /\ answer \in Answer
  /\ flat \in Answer
  /\ \E r \in Answer :
       /\ native = IntoResult(r)
       /\ holder = "provider" => Tells(r, answer, route)
  /\ holder = "client" => Tells(flat, answer, route)
  /\ holder = "asked" => route = {}

\* Nobody has touched it yet.
LEMMA UntouchedTells ==
  ASSUME NEW a \in Answer
  PROVE  Tells(a, a, {})
<1>1. CASE a.layer = "response"
  <2>1. a.response.members = Kept(a.response, {})
    BY <1>1 DEF Answer, Response, Kept
  <2>2. QED
    BY <1>1, <2>1 DEF Tells, TellsResponse
<1>2. CASE a.layer # "response"
  BY <1>2 DEF Tells, TellsFailure, Answer, DomainError
<1>3. QED
  BY <1>1, <1>2

\* One hop into process p.
LEMMA HopTells ==
  ASSUME NEW r \in Answer, NEW a \in Answer, NEW rt \in SUBSET Peer, NEW p \in Peer,
         Tells(r, a, rt)
  PROVE  /\ Reread(p, IntoResult(r)) \in Answer
         /\ Tells(Reread(p, IntoResult(r)), a, rt \cup {p})
<1> DEFINE there == Reread(p, IntoResult(r))
<1>1. /\ IntoResult(r).outer = IF r.layer = "runtime" THEN "err" ELSE "ok"
      /\ IntoResult(r).inner = IF r.layer = "domain" THEN "err" ELSE "ok"
      /\ IntoResult(r).error = r.error /\ IntoResult(r).response = r.response
  BY DEF IntoResult
<1>2. CASE r.layer = "domain"
  <2>1. r.error \in DomainError /\ Plain(r.error) /\ a.layer = "domain"
    BY <1>2 DEF Answer, Tells, TellsResponse, TellsFailure
  <2>2. there = Deserialize(Knows[p], Serialize(r.error))
    BY <1>1, <1>2 DEF Reread
  <2>3. QED
    BY <1>2, <2>1, <2>2, ReencodedError DEF Tells, TellsFailure
<1>3. CASE r.layer = "response"
  <2>1. /\ r.response \in Response /\ a.layer = "response" /\ a.response \in Response
        /\ TellsResponse(r, a, rt)
    BY <1>3 DEF Answer, Tells, TellsFailure
  <2>2. there = DecodeResponse(p, r.response)
    BY <1>1, <1>3 DEF Reread
  <2>3. Ok(a.response).response = a.response
    BY DEF Ok
  <2>4. there \in Answer /\ TellsResponse(there, Ok(a.response), rt \cup {p})
    <3>1. /\ r.response.status = a.response.status
          /\ r.response.members = Kept(a.response, rt)
          /\ \A q \in rt : a.response.status \in Statuses[q]
      BY <1>3, <2>1 DEF TellsResponse
    <3>2. QED
      BY <2>1, <2>2, <3>1, RereadResponse
  <2>5. QED
    BY <2>1, <2>3, <2>4 DEF Tells, TellsResponse
<1>4. CASE r.layer = "runtime"
  <2>1. there = Runtime /\ there \in Answer
    BY <1>1, <1>4, RuntimeIsAnswer DEF Reread
  <2>2. r = Runtime
    BY <1>4 DEF Answer, Flat, Runtime
  <2>3. CASE a.layer = "response"
    <3>1. Unreadable(a.response, rt)
      BY <1>4, <2>3 DEF Tells, TellsResponse
    <3>2. Kept(a.response, rt \cup {p}) \subseteq Kept(a.response, rt)
      BY DEF Kept
    <3>3. Unreadable(a.response, rt \cup {p})
      BY <3>1, <3>2 DEF Unreadable
    <3>4. QED
      BY <2>1, <2>3, <3>3 DEF Tells, TellsResponse, Runtime
  <2>4. CASE a.layer # "response"
    BY <1>4, <2>1, <2>2, <2>4 DEF Tells, TellsFailure, Runtime
  <2>5. QED
    BY <2>3, <2>4
<1>5. QED
  BY <1>2, <1>3, <1>4 DEF Answer, Flat

LEMMA InitInv == Init => IInv
<1> SUFFICES ASSUME Init PROVE IInv
  OBVIOUS
<1>1. Runtime \in Answer /\ Runtime \in Flat /\ IntoResult(Runtime) \in Native
  BY RuntimeIsAnswer, ClientUndoesProvider DEF Answer
<1>2. QED
  BY <1>1, HopsAssumption DEF Init, IInv, TypeOK

LEMMA NextInv == ASSUME IInv, [Next]_vars PROVE IInv'
<1> USE HopsAssumption DEF IInv
<1>1. ASSUME NEW p \in Peer, PluginAnswers(p) PROVE IInv'
  <2>1. PICK flow \in {Runtime} \cup {Domain(Variant(code)) : code \in Knows[p]}
                                  \cup {Ok(response) : response \in Held(p)} :
          answer' = flow /\ native' = IntoResult(flow)
    BY <1>1 DEF PluginAnswers
  <2>2. holder' = "provider" /\ route' = {} /\ UNCHANGED <<flat, hops>>
    BY <1>1 DEF PluginAnswers
  <2>3. flow \in Answer
    <3>1. \A code \in Knows[p] : Domain(Variant(code)) \in Answer
      BY VariantIsError, DomainIsAnswer, CodesAssumption
    <3>2. Held(p) \subseteq Response
      BY ResponsesAssumption DEF Held, Response
    <3>3. QED
      BY <3>1, <3>2, RuntimeIsAnswer, ResponseIsAnswer
  <2>4. flow \in Flat /\ IntoResult(flow) \in Native
    BY <2>3, ClientUndoesProvider DEF Answer
  <2>5. Tells(flow, flow, {})
    BY <2>3, UntouchedTells
  <2>6. QED
    BY <2>1, <2>2, <2>3, <2>4, <2>5 DEF TypeOK
<1>2. CASE EndpointRefuses
  <2>1. /\ answer' = Runtime /\ native' = IntoResult(Runtime) /\ holder' = "provider" /\ route' = {}
        /\ UNCHANGED <<flat, hops>>
    BY <1>2 DEF EndpointRefuses
  <2>2. Runtime \in Answer /\ Runtime \in Flat /\ IntoResult(Runtime) \in Native
    BY RuntimeIsAnswer, ClientUndoesProvider DEF Answer
  <2>3. Tells(Runtime, Runtime, {})
    BY RuntimeIsAnswer, UntouchedTells
  <2>4. QED
    BY <2>1, <2>2, <2>3 DEF TypeOK
<1>3. ASSUME NEW p \in Peer, ForeignAnswers(p) PROVE IInv'
  <2>1. /\ holder' = "provider" /\ route' = {p} /\ UNCHANGED <<flat, hops>>
        /\ p \in Peer
    BY <1>3 DEF ForeignAnswers
  <2>2. PICK a \in Answer, r \in Answer :
          answer' = a /\ native' = IntoResult(r) /\ Tells(r, a, {p})
    <3>1. CASE \E wire \in Wire : /\ answer' = Meant(wire)
                                  /\ native' = IntoResult(Deserialize(Knows[p], wire))
      BY <3>1, DecodedAnswer
    <3>2. CASE \E sent \in Response : /\ answer' = Ok(sent)
                                      /\ native' = IntoResult(DecodeResponse(p, sent))
      <4>1. PICK sent \in Response :
              answer' = Ok(sent) /\ native' = IntoResult(DecodeResponse(p, sent))
        BY <3>2
      <4>2. sent.members = Kept(sent, {})
        BY DEF Kept, Response
      <4>3. DecodeResponse(p, sent) \in Answer /\ TellsResponse(DecodeResponse(p, sent), Ok(sent), {p})
        BY <4>2, RereadResponse
      <4>4. Ok(sent) \in Answer /\ Ok(sent).layer = "response"
        BY ResponseIsAnswer DEF Ok
      <4>5. QED
        BY <4>1, <4>3, <4>4 DEF Tells
    <3>3. QED
      BY <1>3, <3>1, <3>2 DEF ForeignAnswers
  <2>3. a \in Flat /\ IntoResult(r) \in Native
    BY ClientUndoesProvider DEF Answer
  <2>4. QED
    BY <2>1, <2>2, <2>3 DEF TypeOK
<1>4. CASE ClientReceives
  <2>1. PICK r \in Answer : native = IntoResult(r) /\ Tells(r, answer, route)
    BY <1>4 DEF ClientReceives
  <2>2. flat' = r
    BY <1>4, <2>1, ClientUndoesProvider DEF ClientReceives
  <2>3. QED
    BY <1>4, <2>1, <2>2 DEF ClientReceives, TypeOK, Answer
<1>5. CASE Forward
  <2>1. native' = IntoResult(flat) /\ IntoResult(flat) \in Native /\ Tells(flat, answer, route)
    BY <1>5, ClientUndoesProvider DEF Forward
  <2>2. hops' \in 0..MaxHops
    BY <1>5 DEF Forward, TypeOK
  <2>3. QED
    BY <1>5, <2>1, <2>2 DEF Forward, TypeOK
<1>6. ASSUME NEW p \in Peer, EnterProcess(p) PROVE IInv'
  <2>1. PICK r \in Answer : native = IntoResult(r) /\ Tells(r, answer, route)
    BY <1>6 DEF EnterProcess
  <2>2. /\ holder' = "provider" /\ route' = route \cup {p} /\ hops' \in 0..MaxHops
        /\ UNCHANGED <<answer, flat>>
    BY <1>6 DEF EnterProcess, TypeOK
  <2>3. PICK there \in Answer :
          native' = IntoResult(there) /\ Tells(there, answer, route \cup {p})
    BY <1>6, <2>1, HopTells DEF EnterProcess, TypeOK
  <2>4. QED
    BY <2>2, <2>3, ClientUndoesProvider DEF TypeOK
<1>7. CASE Ask
  <2>1. Runtime \in Answer /\ Runtime \in Flat /\ IntoResult(Runtime) \in Native
    BY RuntimeIsAnswer, ClientUndoesProvider DEF Answer
  <2>2. QED
    BY <1>7, <2>1 DEF Ask, TypeOK
<1>8. CASE UNCHANGED vars
  BY <1>8 DEF vars, TypeOK
<1>9. QED
  BY <1>1, <1>2, <1>3, <1>4, <1>5, <1>6, <1>7, <1>8 DEF Next

\* The inductive invariant holds in every reachable state.
THEOREM Invariance == Spec => []IInv
  BY InitInv, NextInv, PTL DEF Spec

-----------------------------------------------------------------------------
(* What it implies. *)

\* Answers stay well typed on their way.
THEOREM TypeCorrect == Spec => []TypeOK
<1>1. IInv => TypeOK
  BY DEF IInv
<1>2. QED
  BY <1>1, Invariance, PTL

\* The caller is told of a failure in its layer, with its code and details.
THEOREM FailuresSurvive == Spec => []FailureSurvives
<1>1. IInv => FailureSurvives
  BY DEF IInv, FailureSurvives, Tells, TellsFailure
<1>2. QED
  BY <1>1, Invariance, PTL

\* The caller is told a response as it was answered, but for members old peers do
\* not know, or gets a runtime failure because some peer on the way could not read it.
THEOREM ResponsesArriveOrFail == Spec => []ResponseArrivesOrFails
<1>1. IInv => ResponseArrivesOrFails
  BY DEF IInv, ResponseArrivesOrFails, Tells, TellsResponse
<1>2. QED
  BY <1>1, Invariance, PTL

\* The caller sees a variant exactly when every decoder on the way knew it.
THEOREM VariantsWhileKnown == Spec => []VariantWhileKnown
<1>1. IInv => VariantWhileKnown
  BY DEF IInv, VariantWhileKnown, Tells, TellsResponse, TellsFailure
<1>2. QED
  BY <1>1, Invariance, PTL
=============================================================================

--------------------------- MODULE MCConfiguration ---------------------------
(***************************************************************************)
(* A small instance of Configuration for TLC: a typical configuration with *)
(* one thing about it changed, over all references of up to ReferenceBytes *)
(* bytes, all pairs of a few delays, and the edges of every range.         *)
(***************************************************************************)
EXTENDS Configuration

CONSTANTS ReferenceBytes,  \* bound of the model on the bytes of a reference
          Delays           \* candidate values of the two delays

Words(bytes, n) == UNION {[1..k -> bytes] : k \in 0..n}

Typical ==
  [schema_valid |-> TRUE, database_url_secret |-> <<"word">>, signing_secret |-> <<"word", "/", "word">>,
   endpoint_url |-> [parses |-> TRUE, scheme |-> "https", parts |-> {"host"}], queue_name |-> <<"word">>,
   max_attempts |-> 5, max_payload_bytes |-> 1, lease_seconds |-> 1,
   retry_base_seconds |-> 5, retry_max_seconds |-> 300,
   producer_instances |-> <<<<"word">>>>, admin_instances |-> <<<<"word">>, <<"word", "word">>>>]

Edges(limit) == {-1, 0, 1, limit, limit + 1}

Endpoints == [parses : BOOLEAN, scheme : {"http", "https", "file"}, parts : SUBSET UrlPart]

Candidates ==
  {[Typical EXCEPT !.database_url_secret = r] : r \in Words({"word", ".", "/", "other"}, ReferenceBytes)}
    \cup {[Typical EXCEPT !.signing_secret = r] : r \in Words({"word", ".", "/", ":"}, 3)}
    \cup {[Typical EXCEPT !.retry_base_seconds = b, !.retry_max_seconds = m] : b, m \in Delays}
    \cup {[Typical EXCEPT !.max_attempts = n] : n \in Edges(AttemptLimit)}
    \cup {[Typical EXCEPT !.max_payload_bytes = n] : n \in Edges(MaxPayloadBytes)}
    \cup {[Typical EXCEPT !.lease_seconds = n] : n \in Edges(MaxLeaseSeconds)}
    \cup {[Typical EXCEPT !.endpoint_url = e, !.schema_valid = s] : e \in Endpoints, s \in BOOLEAN}
    \cup {[Typical EXCEPT !.queue_name = q] : q \in Words(Byte, 2)}
    \cup {[Typical EXCEPT !.admin_instances = a, !.producer_instances = p] :
            a, p \in Words({<<>>, <<"word">>, <<"word", ":">>, <<"other">>}, 2)}
=============================================================================

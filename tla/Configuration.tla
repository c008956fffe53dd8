----------------------------- MODULE Configuration -----------------------------
(***************************************************************************)
(* What an Instance accepts as its configuration. The resolved plan gives  *)
(* any values (deserializing does not check them), validate_config decides *)
(* before the Plugin is constructed, and the rest of the code unwraps what *)
(* it takes for validated.                                                 *)
(*                                                                         *)
(* External: Url::parse (an endpoint is what it makes of the string) and   *)
(* the check of the schema name by lenso_postgres_kit.                     *)
(***************************************************************************)
EXTENDS RetryBackoff, Sequences, FiniteSets

CONSTANTS
  Resolved,           \* configurations the resolved plan may hold
  MaxReferenceBytes,  \* 256 in the code
  MaxPayloadBytes,    \* 2^20 in the code
  MaxLeaseSeconds,    \* 3600 in the code
  MaxRetrySeconds,    \* 86400 in the code
  AttemptLimit        \* 100 in config.rs and in the migration

ASSUME LimitsAssumption ==
  /\ {MaxReferenceBytes, MaxPayloadBytes, MaxLeaseSeconds, MaxRetrySeconds, AttemptLimit} \subseteq Nat \ {0}
  /\ MaxRetrySeconds <= 2^(IntWidth - 2)

\* Classes of bytes: "word" stands for letters, digits, "_" and "-".
Byte == {"word", ".", ":", "/", "other"}

ASSUME ResolvedAssumption ==
  \A c \in Resolved : c.database_url_secret \in Seq(Byte) /\ c.signing_secret \in Seq(Byte)

VARIABLES config, instance

vars == <<config, instance>>

-----------------------------------------------------------------------------
(* Names and references, as sequences of classes of bytes. *)

ValidName(value) ==
  /\ value # <<>> /\ Len(value) <= MaxReferenceBytes
  /\ \A i \in DOMAIN value : value[i] \in {"word", ".", ":"}

\* value[i..j] lies between two slashes, or between a slash and an end.
Between(value, i, j) ==
  /\ i = 1 \/ value[i - 1] = "/"
  /\ j = Len(value) \/ value[j + 1] = "/"
  /\ \A k \in i..j : value[k] # "/"

\* value.split('/')
Split(value) ==
  UNION {{SubSeq(value, i, j) : j \in {k \in (i - 1)..Len(value) : Between(value, i, k)}} :
           i \in 1..(Len(value) + 1)}

\* Fault: an empty segment within the reference is not looked for.
ValidSecretReferenceEmptySegment(value) ==
  /\ value # <<>> /\ Len(value) <= MaxReferenceBytes
  /\ value[1] # "/" /\ value[Len(value)] # "/"
  /\ \A segment \in Split(value) : segment # <<".">> /\ segment # <<".", ".">>
  /\ \A i \in DOMAIN value : value[i] \in {"word", ".", "/"}

ValidSecretReference(value) ==
  /\ value # <<>> /\ Len(value) <= MaxReferenceBytes
  /\ value[1] # "/" /\ value[Len(value)] # "/"
  /\ \A i \in 1..(Len(value) - 1) : ~(value[i] = "/" /\ value[i + 1] = "/")
  /\ \A segment \in Split(value) : segment # <<".">> /\ segment # <<".", ".">>
  /\ \A i \in DOMAIN value : value[i] \in {"word", ".", "/"}

\* Parts of a URL beside its scheme.
UrlPart == {"host", "username", "password", "query", "fragment"}

FixedEndpoint(endpoint) ==
  /\ endpoint.parses
  /\ endpoint.scheme \in {"http", "https"}
  /\ endpoint.parts \cap UrlPart = {"host"}

ValidCallers(values) ==
  /\ values # <<>> /\ \A i \in DOMAIN values : ValidName(values[i])
  /\ Cardinality({values[i] : i \in DOMAIN values}) = Len(values)

-----------------------------------------------------------------------------
(* OutboundWebhookConfig::validate. *)

\* Fault: each delay is checked, not their order.
ValidRetryUnordered(c) ==
  c.retry_base_seconds \in 1..MaxRetrySeconds /\ c.retry_max_seconds \in 1..MaxRetrySeconds

ValidRetry(c) ==
  /\ c.retry_base_seconds \in 1..MaxRetrySeconds
  /\ c.retry_max_seconds \in c.retry_base_seconds..MaxRetrySeconds

ValidSecrets(c) ==
  /\ ValidSecretReference(c.database_url_secret) /\ ValidSecretReference(c.signing_secret)
  /\ c.database_url_secret # c.signing_secret

\* Every check but that of the secret references.
ValidElsewhere(c) ==
  /\ c.schema_valid
  /\ FixedEndpoint(c.endpoint_url)
  /\ ValidName(c.queue_name)
  /\ c.max_attempts \in 1..AttemptLimit
  /\ c.max_payload_bytes \in 1..MaxPayloadBytes
  /\ c.lease_seconds \in 1..MaxLeaseSeconds
  /\ ValidRetry(c)
  /\ ValidCallers(c.producer_instances) /\ ValidCallers(c.admin_instances)

Validate(c) == ValidSecrets(c) /\ ValidElsewhere(c)

Init == config \in Resolved /\ instance = "resolved"

\* The Kernel calls validate before it constructs the Plugin.
ValidateConfig ==
  /\ instance = "resolved"
  /\ instance' = IF Validate(config) THEN "constructed" ELSE "refused"
  /\ UNCHANGED config

Next == ValidateConfig

Spec == Init /\ [][Next]_vars

-----------------------------------------------------------------------------
(* Properties. *)

\* "Retry delay is bounded exponential backoff": of every Instance that runs, and
\* for every attempt number a row may have, rows of Instances with other limits
\* included, the clamped shift and the saturating product give the delay that
\* doubling by hand from the configured base gives; no attempt number wraps it
\* round to a short, negative or unbounded delay.
AcceptedDelaysDouble ==
  instance = "constructed" =>
    LET delay(n) == RetryDelaySeconds(n, config.retry_base_seconds, config.retry_max_seconds) IN
    /\ delay(1) = config.retry_base_seconds
    /\ \A n \in 1..(AttemptLimit - 1) : delay(n + 1) = AtMost(2 * delay(n), config.retry_max_seconds)

\* Names that may stand between slashes, of up to n bytes.
Segment(n) ==
  (UNION {[1..k -> {"word", "."}] : k \in 1..n}) \ {<<".">>, <<".", ".">>}

\* Relative paths of up to n bytes: a segment, or one followed by such a path.
RelativePath[n \in Nat] ==
  Segment(n) \cup
    UNION {{s \o <<"/">> \o path : s \in Segment(k), path \in RelativePath[n - 1 - k]} :
             k \in 1..(n - 1)}

\* The checks of a secret reference, made one by one on its bytes, admit the
\* relative paths and nothing else: no absolute path, no empty segment, no
\* step up; and no path is refused.
SecretReferencesArePaths ==
  instance # "resolved" /\ ValidElsewhere(config) =>
    (instance = "constructed" <=>
       /\ config.database_url_secret \in RelativePath[MaxReferenceBytes]
       /\ config.signing_secret \in RelativePath[MaxReferenceBytes]
       /\ config.database_url_secret # config.signing_secret)
=============================================================================

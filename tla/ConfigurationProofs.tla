------------------------- MODULE ConfigurationProofs -------------------------
(***************************************************************************)
(* What validate_config accepts, and the delays computed from it, for any  *)
(* limits, any width of integers and any resolved configurations.          *)
(***************************************************************************)
EXTENDS Configuration, TLAPS, FiniteSetTheorems, SequenceTheorems, WellFoundedInduction

-----------------------------------------------------------------------------
(* Induction over the naturals, as the search for a least counterexample,  *)
(* and powers of two, as numbers of subsets.                               *)

LEMMA LeastNat ==
  ASSUME NEW T, T \subseteq Nat, T # {}
  PROVE  \E x \in T : \A y \in T : x <= y
<1> DEFINE R == OpToRel(<, Nat)
<1>1. IsWellFoundedOn(R, Nat)
  BY NatLessThanWellFounded
<1>2. PICK x \in T : \A y \in T : ~(<<y, x>> \in R)
  <2> HIDE DEF R
  <2> QED BY <1>1, WFMin
<1>3. \A y \in T : ~(y < x)
  BY <1>2 DEF OpToRel
<1> QED BY <1>3

LEMMA TwoNat ==
  ASSUME NEW n \in Nat
  PROVE  /\ IsFiniteSet(SUBSET (1..n)) /\ Cardinality(SUBSET (1..n)) = 2^n
         /\ 2^n \in Nat
<1>1. IsFiniteSet(1..n) /\ Cardinality(1..n) = n
  BY FS_Interval
<1>2. IsFiniteSet(SUBSET (1..n)) /\ Cardinality(SUBSET (1..n)) = 2^n
  BY <1>1, FS_SUBSET
<1> QED BY <1>2, FS_CardinalityType

\* The subsets of 1..(n + 1) are those of 1..n, each without and with n + 1.
LEMMA TwoStep ==
  ASSUME NEW n \in Nat
  PROVE  2^(n + 1) = 2 * 2^n
<1> DEFINE S == SUBSET (1..n)
           T == {x \cup {n + 1} : x \in S}
           f == [x \in S |-> x \cup {n + 1}]
<1>1. SUBSET (1..(n + 1)) = S \cup T
  <2>1. ASSUME NEW z \in SUBSET (1..(n + 1)), z \notin S PROVE z \in T
    <3>1. n + 1 \in z
      <4>1. PICK e \in z : e \notin 1..n
        BY <2>1
      <4> QED BY <2>1, <4>1
    <3>2. z \ {n + 1} \in S
      BY <2>1
    <3>3. z = (z \ {n + 1}) \cup {n + 1}
      BY <3>1
    <3> QED BY <3>2, <3>3
  <2>2. ASSUME NEW x \in S PROVE x \in SUBSET (1..(n + 1)) /\ x \cup {n + 1} \in SUBSET (1..(n + 1))
    <3>1. 1..n \subseteq 1..(n + 1) /\ n + 1 \in 1..(n + 1)
      OBVIOUS
    <3> QED BY <3>1
  <2>3. S \subseteq SUBSET (1..(n + 1)) /\ T \subseteq SUBSET (1..(n + 1))
    <3> HIDE DEF S
    <3> QED BY <2>2
  <2> HIDE DEF S, T
  <2> QED BY <2>1, <2>3
<1>2. S \cap T = {}
  <2>1. n + 1 \notin 1..n
    OBVIOUS
  <2> QED BY <2>1
<1>3. ExistsBijection(S, T)
  <2>1. f \in [S -> T] /\ \A y \in T : \E x \in S : f[x] = y
    OBVIOUS
  <2>2. ASSUME NEW x \in S, NEW y \in S, f[x] = f[y] PROVE x = y
    <3>1. x \cup {n + 1} = y \cup {n + 1}
      BY <2>2
    <3>2. n + 1 \notin x /\ n + 1 \notin y
      OBVIOUS
    <3> QED BY <3>1, <3>2
  <2>3. f \in Bijection(S, T)
    <3> HIDE DEF f, S, T
    <3> QED BY <2>1, <2>2 DEF Bijection, Injection, Surjection, IsInjective
  <2> QED BY <2>3 DEF ExistsBijection
<1>4. IsFiniteSet(S) /\ Cardinality(S) = 2^n /\ 2^n \in Nat
  BY TwoNat
<1>5. IsFiniteSet(T) /\ Cardinality(T) = 2^n
  <2> HIDE DEF S, T, f
  <2> QED BY <1>3, <1>4, FS_Bijection
<1>6. Cardinality(S \cap T) = 0
  BY <1>2, FS_EmptySet
<1>7. Cardinality(S \cup T) = 2^n + 2^n - 0
  <2> HIDE DEF S, T, f
  <2> QED BY <1>4, <1>5, <1>6, FS_Union
<1>8. Cardinality(SUBSET (1..(n + 1))) = 2^(n + 1)
  BY TwoNat
<1>9. 2^(n + 1) = 2^n + 2^n - 0
  BY <1>1, <1>7, <1>8
<1> DEFINE power == 2^n
<1>10. 2^(n + 1) = power + power - 0 /\ power \in Nat
  BY <1>4, <1>9
<1> HIDE DEF power
<1>11. 2^(n + 1) = 2 * power
  BY <1>10
<1> QED BY <1>11 DEF power

-----------------------------------------------------------------------------
(* The delays, without their clamps. *)

LEMMA TwoGrows == \A n \in Nat : 2^n > n
<1> DEFINE T == {n \in Nat : ~(2^n > n)}
<1> SUFFICES ASSUME T # {} PROVE FALSE
  OBVIOUS
<1>1. PICK n \in T : \A m \in T : n <= m
  <2>1. T \subseteq Nat
    OBVIOUS
  <2> HIDE DEF T
  <2> QED BY <2>1, LeastNat
<1>2. CASE n = 0
  <2>1. 2^0 = 1
    OBVIOUS
  <2> QED BY <1>2, <2>1
<1>3. ASSUME n # 0 PROVE FALSE
  <2>1. n - 1 \in Nat /\ n \in Nat
    BY <1>3
  <2>2. PICK m \in Nat : m = n - 1
    BY <2>1
  <2>3. 2^m > m
    BY <1>1, <2>1, <2>2
  <2>4. 2^(m + 1) = 2 * 2^m /\ 2^m \in Nat /\ m + 1 = n
    <3>1. 2^(m + 1) = 2 * 2^m
      BY TwoStep
    <3>2. 2^m \in Nat
      BY TwoNat
    <3> QED BY <2>1, <2>2, <3>1, <3>2
  <2>5. PICK power \in Nat : power = 2^m
    BY <2>4
  <2>6. 2^n = 2 * power
    BY <2>2, <2>4, <2>5
  <2> DEFINE big == 2^n
  <2>8. big = 2 * power /\ power > m
    BY <2>3, <2>5, <2>6
  <2> HIDE DEF big
  <2>9. big > n
    BY <2>1, <2>2, <2>8
  <2>7. 2^n > n
    BY <2>9 DEF big
  <2> QED BY <2>7
<1> QED BY <1>2, <1>3

\* The extremes of the integers, beside the widest positive power.
LEMMA Extremes ==
  /\ IntWidth \in Nat /\ IntWidth - 2 \in Nat
  /\ 2^(IntWidth - 2) \in Nat \ {0}
  /\ MaxInt \in Nat /\ MaxInt >= IntWidth - 1 /\ MaxInt >= 2^(IntWidth - 2)
  /\ MinInt \in Int /\ MinInt < 0
<1>1. PICK k \in Nat : k = IntWidth - 2
  BY IntWidthAssumption
<1>2. PICK power \in Nat : power = 2^k
  BY TwoNat
<1>3. power > k
  BY <1>2, TwoGrows
<1>4. 2^(k + 1) = 2 * power
  BY <1>2, TwoStep
<1>5. IntWidth - 1 = k + 1 /\ IntWidth \in Nat
  BY <1>1, IntWidthAssumption
<1>6. MaxInt = 2 * power - 1 /\ MinInt = -(2 * power)
  BY <1>4, <1>5 DEF MaxInt, MinInt
<1> QED BY <1>1, <1>2, <1>3, <1>5, <1>6

\* Numbers of attempts are clamped to the positive powers, however large.
LEMMA ExponentIs ==
  ASSUME NEW n \in Nat \ {0}
  PROVE  Exponent(n) = AtMost(n - 1, IntWidth - 2)
BY Extremes DEF Exponent, Clamp, SaturatingSub, Saturated, AtMost

LEMMA ShiftedIs ==
  ASSUME NEW n \in Nat \ {0}
  PROVE  /\ Exponent(n) \in Nat
         /\ ShiftedOne(Exponent(n)) = 2^Exponent(n)
         /\ 2^Exponent(n) \in Nat \ {0}
<1>1. PICK e \in Nat : e = Exponent(n) /\ e <= IntWidth - 2
  BY ExponentIs, Extremes DEF AtMost
<1>2. 2^e \in Nat /\ 2^e > e
  BY TwoNat, TwoGrows
<1>3. ShiftedOne(e) = 2^e
  BY <1>1, Extremes DEF ShiftedOne
<1> QED BY <1>1, <1>2, <1>3

\* With limits no larger than the widest power, saturation shortens no delay.
LEMMA DelayIs ==
  ASSUME NEW n \in Nat \ {0}, NEW base \in Nat \ {0}, NEW max \in Nat, max <= 2^(IntWidth - 2)
  PROVE  RetryDelaySeconds(n, base, max) = AtMost(base * 2^Exponent(n), max)
<1>1. PICK power \in Nat \ {0} : power = 2^Exponent(n)
  BY ShiftedIs
<1>2. PICK product \in Nat \ {0} : product = base * power
  OBVIOUS
<1>3. RetryDelaySeconds(n, base, max) = AtMost(Saturated(product), max)
  BY <1>1, <1>2, ShiftedIs DEF RetryDelaySeconds, SaturatingMul
<1>4. max <= MaxInt
  BY Extremes
<1>5. AtMost(Saturated(product), max) = AtMost(product, max)
  BY <1>4, Extremes DEF AtMost, Saturated, Clamp
<1> QED BY <1>1, <1>2, <1>3, <1>5

\* The next attempt's delay is doubled, up to the maximum.
LEMMA DelayDoubles ==
  ASSUME NEW n \in Nat \ {0}, NEW base \in Nat \ {0}, NEW max \in Nat, max <= 2^(IntWidth - 2)
  PROVE  RetryDelaySeconds(n + 1, base, max) = AtMost(2 * RetryDelaySeconds(n, base, max), max)
<1>1. PICK e \in Nat : e = Exponent(n) /\ e = AtMost(n - 1, IntWidth - 2)
  BY ShiftedIs, ExponentIs
<1>2. PICK power \in Nat \ {0} : power = 2^e
  BY <1>1, ShiftedIs
<1>3. PICK product \in Nat : product = base * power /\ product >= power
  <2>1. PICK rest \in Nat : rest = (base - 1) * power
    OBVIOUS
  <2>2. base * power = rest + power
    BY <2>1
  <2> QED BY <2>1, <2>2
<1>4. RetryDelaySeconds(n, base, max) = AtMost(product, max)
  <2>1. RetryDelaySeconds(n, base, max) = AtMost(base * 2^Exponent(n), max)
    BY DelayIs
  <2>2. base * 2^Exponent(n) = base * power
    BY <1>1, <1>2
  <2> QED BY <1>3, <2>1, <2>2
<1>5. Exponent(n + 1) = AtMost(n, IntWidth - 2)
  BY ExponentIs
<1>6. RetryDelaySeconds(n + 1, base, max) = AtMost(base * 2^Exponent(n + 1), max)
  BY DelayIs
<1>7. CASE n - 1 < IntWidth - 2
  <2>1. Exponent(n + 1) = e + 1
    BY <1>1, <1>5, <1>7, Extremes DEF AtMost
  <2>2. 2^(e + 1) = 2 * power
    BY <1>2, TwoStep
  <2>3. base * (2 * power) = 2 * product
    BY <1>3
  <2>4. RetryDelaySeconds(n + 1, base, max) = AtMost(2 * product, max)
    BY <1>6, <2>1, <2>2, <2>3
  <2> QED BY <1>4, <2>4 DEF AtMost
<1>8. CASE ~(n - 1 < IntWidth - 2)
  <2>1. e = IntWidth - 2 /\ Exponent(n + 1) = e
    BY <1>1, <1>5, <1>8, Extremes DEF AtMost
  <2>2. RetryDelaySeconds(n + 1, base, max) = AtMost(product, max) /\ product >= max
    BY <1>2, <1>3, <1>6, <2>1
  <2> QED BY <1>4, <2>2 DEF AtMost
<1> QED BY <1>7, <1>8

\* No delay is shorter than the base or longer than the maximum.
LEMMA DelayBounded ==
  ASSUME NEW n \in Nat \ {0}, NEW base \in Nat \ {0}, NEW max \in Nat, max <= 2^(IntWidth - 2),
         base <= max
  PROVE  RetryDelaySeconds(n, base, max) \in base..max
<1>1. PICK power \in Nat \ {0} : power = 2^Exponent(n)
  BY ShiftedIs
<1>2. PICK rest \in Nat : rest = base * (power - 1)
  OBVIOUS
<1>3. base * power = base + rest
  BY <1>2
<1>4. RetryDelaySeconds(n, base, max) = AtMost(base + rest, max)
  <2>1. RetryDelaySeconds(n, base, max) = AtMost(base * 2^Exponent(n), max)
    BY DelayIs
  <2> QED BY <1>1, <1>3, <2>1
<1> QED BY <1>4 DEF AtMost

LEMMA FirstDelay ==
  ASSUME NEW base \in Nat \ {0}, NEW max \in Nat, max <= 2^(IntWidth - 2), base <= max
  PROVE  RetryDelaySeconds(1, base, max) = base
<1>1. Exponent(1) = 0
  BY ExponentIs, Extremes DEF AtMost
<1>2. RetryDelaySeconds(1, base, max) = AtMost(base * 2^Exponent(1), max)
  BY DelayIs
<1>3. 2^0 = 1
  OBVIOUS
<1>4. base * 2^Exponent(1) = base
  <2>1. 2^Exponent(1) = 1
    BY <1>1, <1>3
  <2>2. base * 1 = base
    OBVIOUS
  <2> QED BY <2>1, <2>2
<1> QED BY <1>2, <1>4 DEF AtMost

-----------------------------------------------------------------------------
(* What is constructed has been validated. *)

Decided ==
  /\ config \in Resolved
  /\ instance \in {"resolved", "constructed", "refused"}
  /\ instance # "resolved" => (instance = "constructed" <=> Validate(config))

LEMMA DecidedInvariance == Spec => []Decided
<1>1. Init => Decided
  BY DEF Init, Decided
<1>2. Decided /\ [Next]_vars => Decided'
  BY DEF Decided, Next, ValidateConfig, vars
<1> QED BY <1>1, <1>2, PTL DEF Spec

\* The limits of the retry delays of a constructed Instance.
LEMMA AcceptedRetry ==
  ASSUME Decided, instance = "constructed"
  PROVE  /\ config.retry_base_seconds \in Nat \ {0}
         /\ config.retry_max_seconds \in Nat
         /\ config.retry_base_seconds <= config.retry_max_seconds
         /\ config.retry_max_seconds <= 2^(IntWidth - 2)
<1>1. ValidRetry(config)
  BY DEF Decided, Validate, ValidElsewhere
<1>2. PICK widest \in Nat : widest = 2^(IntWidth - 2)
  BY Extremes
<1>3. MaxRetrySeconds \in Nat /\ MaxRetrySeconds <= widest
  BY <1>2, LimitsAssumption
<1>4. config.retry_max_seconds <= widest
  BY <1>1, <1>3 DEF ValidRetry
<1> QED BY <1>1, <1>2, <1>3, <1>4 DEF ValidRetry

\* The delays of every Instance that runs are those doubling by hand gives:
\* neither the clamped shift nor the saturating product distorts one.
THEOREM DelaysDouble == Spec => []AcceptedDelaysDouble
<1>1. ASSUME Decided PROVE AcceptedDelaysDouble
  <2>1. SUFFICES ASSUME instance = "constructed"
        PROVE  /\ RetryDelaySeconds(1, config.retry_base_seconds, config.retry_max_seconds) =
                    config.retry_base_seconds
               /\ \A n \in 1..(AttemptLimit - 1) :
                    RetryDelaySeconds(n + 1, config.retry_base_seconds, config.retry_max_seconds) =
                      AtMost(2 * RetryDelaySeconds(n, config.retry_base_seconds, config.retry_max_seconds),
                             config.retry_max_seconds)
    BY DEF AcceptedDelaysDouble
  <2>2. PICK base \in Nat \ {0}, max \in Nat :
          /\ base = config.retry_base_seconds /\ max = config.retry_max_seconds
          /\ base <= max /\ max <= 2^(IntWidth - 2)
    BY <1>1, <2>1, AcceptedRetry
  <2>3. RetryDelaySeconds(1, base, max) = base
    BY <2>2, FirstDelay
  <2>4. ASSUME NEW n \in 1..(AttemptLimit - 1)
        PROVE  RetryDelaySeconds(n + 1, base, max) = AtMost(2 * RetryDelaySeconds(n, base, max), max)
    <3>1. n \in Nat \ {0}
      BY LimitsAssumption
    <3> QED BY <2>2, <3>1, DelayDoubles
  <2> QED BY <2>2, <2>3, <2>4
<1> QED BY <1>1, DecidedInvariance, PTL

\* What WebhookStore assumes of the configurations that Instances run with:
\* attempts and leases of at least one, and between every two attempts, those of
\* rows of other configurations included, a delay from the base to the maximum.
DispatchMaySupposeIt ==
  instance = "constructed" =>
    /\ config.max_attempts \in Nat \ {0} /\ config.lease_seconds \in Nat \ {0}
    /\ config.retry_base_seconds \in Nat /\ config.retry_max_seconds \in Nat
    /\ \A n \in Nat \ {0} :
         RetryDelaySeconds(n, config.retry_base_seconds, config.retry_max_seconds)
           \in config.retry_base_seconds..config.retry_max_seconds

\* Every Instance that runs has a configuration as WebhookStore assumes it, so
\* nothing validate_config accepts is outside the theorems about WebhookStore.
THEOREM AcceptedForDispatch == Spec => []DispatchMaySupposeIt
<1>1. ASSUME Decided PROVE DispatchMaySupposeIt
  <2>1. SUFFICES ASSUME instance = "constructed"
        PROVE  /\ config.max_attempts \in Nat \ {0} /\ config.lease_seconds \in Nat \ {0}
               /\ \A n \in Nat \ {0} :
                    RetryDelaySeconds(n, config.retry_base_seconds, config.retry_max_seconds)
                      \in config.retry_base_seconds..config.retry_max_seconds
    BY <1>1, AcceptedRetry DEF DispatchMaySupposeIt
  <2>2. config.max_attempts \in Nat \ {0} /\ config.lease_seconds \in Nat \ {0}
    BY <1>1, <2>1, LimitsAssumption DEF Decided, Validate, ValidElsewhere
  <2>3. PICK base \in Nat \ {0}, max \in Nat :
          /\ base = config.retry_base_seconds /\ max = config.retry_max_seconds
          /\ base <= max /\ max <= 2^(IntWidth - 2)
    BY <1>1, <2>1, AcceptedRetry
  <2> QED BY <2>2, <2>3, DelayBounded
<1> QED BY <1>1, DecidedInvariance, PTL

-----------------------------------------------------------------------------
(* References, byte by byte. *)

\* value[i..j] is "." or "..".
Dots(value, i, j) == j \in {i, i + 1} /\ \A k \in i..j : value[k] = "."

\* What is asked of the bytes of a reference, its length apart.
Proper(value) ==
  /\ Len(value) >= 1
  /\ value[1] # "/" /\ value[Len(value)] # "/"
  /\ \A i \in 1..(Len(value) - 1) : ~(value[i] = "/" /\ value[i + 1] = "/")
  /\ \A i, j \in 1..Len(value) : Between(value, i, j) => ~Dots(value, i, j)
  /\ \A i \in 1..Len(value) : value[i] \in {"word", ".", "/"}

LEMMA DotsAre ==
  ASSUME NEW value \in Seq(Byte), NEW i \in 1..(Len(value) + 1), NEW j \in (i - 1)..Len(value)
  PROVE  SubSeq(value, i, j) \in {<<".">>, <<".", ".">>} <=> Dots(value, i, j)
<1>1. Len(value) \in Nat /\ i \in Int /\ j \in Int /\ \A k \in i..j : value[k] \in Byte
  <2>1. Len(value) \in Nat /\ \A k \in 1..Len(value) : value[k] \in Byte
    BY LenProperties, ElementOfSeq
  <2> QED BY <2>1
<1>2. PICK s \in Seq(Byte) : s = SubSeq(value, i, j)
  BY <1>1, SubSeqProperties
<1>3. /\ Len(s) = IF i <= j THEN j - i + 1 ELSE 0
      /\ \A k \in 1..(j - i + 1) : s[k] = value[i + k - 1]
  BY <1>1, <1>2, SubSeqProperties
<1>4. s = <<".">> <=> Len(s) = 1 /\ s[1] = "."
  <2>1. ASSUME Len(s) = 1, s[1] = "." PROVE s = <<".">>
    <3>1. <<".">> \in Seq(Byte) /\ Len(<<".">>) = 1 /\ <<".">>[1] = "."
      BY DEF Byte
    <3> QED BY <2>1, <3>1, SeqEqual
  <2> QED BY <2>1
<1>5. s = <<".", ".">> <=> Len(s) = 2 /\ s[1] = "." /\ s[2] = "."
  <2>1. ASSUME Len(s) = 2, s[1] = ".", s[2] = "." PROVE s = <<".", ".">>
    <3>1. /\ <<".", ".">> \in Seq(Byte) /\ Len(<<".", ".">>) = 2
          /\ <<".", ".">>[1] = "." /\ <<".", ".">>[2] = "."
      BY DEF Byte
    <3>2. \A k \in 1..Len(s) : s[k] = <<".", ".">>[k]
      BY <2>1, <3>1
    <3> QED BY <2>1, <3>1, <3>2, SeqEqual
  <2> QED BY <2>1
<1>6. ASSUME s \in {<<".">>, <<".", ".">>} PROVE Dots(value, i, j)
  BY <1>1, <1>3, <1>4, <1>5, <1>6 DEF Dots
<1>7. ASSUME Dots(value, i, j) PROVE s \in {<<".">>, <<".", ".">>}
  BY <1>1, <1>3, <1>4, <1>5, <1>7 DEF Dots
<1> QED BY <1>2, <1>6, <1>7

LEMMA ReferenceIs ==
  ASSUME NEW value \in Seq(Byte)
  PROVE  ValidSecretReference(value) <=> Len(value) <= MaxReferenceBytes /\ Proper(value)
<1>1. Len(value) \in Nat /\ DOMAIN value = 1..Len(value) /\ (value # <<>> <=> Len(value) >= 1)
  <2>1. Len(value) \in Nat /\ DOMAIN value = 1..Len(value)
    BY LenProperties
  <2>2. value # <<>> <=> Len(value) >= 1
    BY <2>1, EmptySeq
  <2> QED BY <2>1, <2>2
<1>2. ASSUME NEW segment
      PROVE  segment \in Split(value) <=>
               \E i \in 1..(Len(value) + 1) : \E j \in (i - 1)..Len(value) :
                 Between(value, i, j) /\ segment = SubSeq(value, i, j)
  <2> DEFINE Pieces(i) == {SubSeq(value, i, j) : j \in {k \in (i - 1)..Len(value) : Between(value, i, k)}}
  <2>1. \A i : segment \in Pieces(i) <=>
          \E j \in (i - 1)..Len(value) : Between(value, i, j) /\ segment = SubSeq(value, i, j)
    OBVIOUS
  <2>2. Split(value) = UNION {Pieces(i) : i \in 1..(Len(value) + 1)}
    BY DEF Split
  <2> HIDE DEF Pieces
  <2>3. segment \in Split(value) <=> \E i \in 1..(Len(value) + 1) : segment \in Pieces(i)
    BY <2>2
  <2> QED BY <2>1, <2>3
<1>3. (\A segment \in Split(value) : segment # <<".">> /\ segment # <<".", ".">>) <=>
        \A i, j \in 1..Len(value) : Between(value, i, j) => ~Dots(value, i, j)
  <2>1. ASSUME NEW segment \in Split(value), segment \in {<<".">>, <<".", ".">>}
        PROVE  \E i, j \in 1..Len(value) : Between(value, i, j) /\ Dots(value, i, j)
    <3>1. PICK i \in 1..(Len(value) + 1) : \E j \in (i - 1)..Len(value) :
            Between(value, i, j) /\ segment = SubSeq(value, i, j)
      BY <1>2
    <3> PICK j \in (i - 1)..Len(value) : Between(value, i, j) /\ segment = SubSeq(value, i, j)
      BY <3>1
    <3>2. Dots(value, i, j)
      BY <2>1, <3>1, DotsAre
    <3>3. i \in 1..Len(value) /\ j \in 1..Len(value)
      BY <1>1, <3>2 DEF Dots
    <3> QED BY <3>1, <3>2, <3>3
  <2>2. ASSUME NEW i \in 1..Len(value), NEW j \in 1..Len(value), Between(value, i, j), Dots(value, i, j)
        PROVE  \E segment \in Split(value) : segment \in {<<".">>, <<".", ".">>}
    <3>1. i \in 1..(Len(value) + 1) /\ j \in (i - 1)..Len(value)
      BY <1>1, <2>2 DEF Dots
    <3>2. SubSeq(value, i, j) \in Split(value)
      BY <1>2, <2>2, <3>1
    <3>3. SubSeq(value, i, j) \in {<<".">>, <<".", ".">>}
      BY <2>2, <3>1, DotsAre
    <3> QED BY <3>2, <3>3
  <2> QED BY <2>1, <2>2
<1> QED BY <1>1, <1>3 DEF ValidSecretReference, Proper

-----------------------------------------------------------------------------
(* Segments and paths. *)

LEMMA SegmentIs ==
  ASSUME NEW n \in Nat, NEW s
  PROVE  s \in Segment(n) <=>
           /\ s \in Seq(Byte) /\ Len(s) \in 1..n
           /\ \A i \in 1..Len(s) : s[i] \in {"word", "."}
           /\ ~Dots(s, 1, Len(s))
<1>1. s \in Segment(n) <=>
        (\E k \in 1..n : s \in [1..k -> {"word", "."}]) /\ s \notin {<<".">>, <<".", ".">>}
  BY DEF Segment
<1>2. (\E k \in 1..n : s \in [1..k -> {"word", "."}]) <=>
        /\ s \in Seq(Byte) /\ Len(s) \in 1..n
        /\ \A i \in 1..Len(s) : s[i] \in {"word", "."}
  <2>1. ASSUME NEW k \in 1..n, s \in [1..k -> {"word", "."}]
        PROVE  /\ s \in Seq(Byte) /\ Len(s) \in 1..n
               /\ \A i \in 1..Len(s) : s[i] \in {"word", "."}
    <3>1. s \in Seq({"word", "."})
      BY <2>1, SeqDef
    <3>2. Len(s) = k
      BY <2>1, <3>1, LenProperties
    <3>3. s \in Seq(Byte)
      BY <3>1, SeqMonotonic DEF Byte
    <3> QED BY <2>1, <3>2, <3>3
  <2>2. ASSUME s \in Seq(Byte), Len(s) \in 1..n, \A i \in 1..Len(s) : s[i] \in {"word", "."}
        PROVE  s \in [1..Len(s) -> {"word", "."}]
    BY <2>2, LenProperties
  <2> QED BY <2>1, <2>2
<1>3. ASSUME s \in Seq(Byte), Len(s) \in 1..n
      PROVE  s \in {<<".">>, <<".", ".">>} <=> Dots(s, 1, Len(s))
  <2>1. SubSeq(s, 1, Len(s)) = s
    BY <1>3, SubSeqFull
  <2>2. 1 \in 1..(Len(s) + 1) /\ Len(s) \in (1 - 1)..Len(s)
    BY <1>3
  <2>3. PICK j \in Nat : j = Len(s)
    BY <1>3
  <2>4. SubSeq(s, 1, j) \in {<<".">>, <<".", ".">>} <=> Dots(s, 1, j)
    BY <1>3, <2>2, <2>3, DotsAre
  <2> QED BY <2>1, <2>3, <2>4
<1> QED BY <1>1, <1>2, <1>3

\* References without a slash.
LEMMA SegmentProper ==
  ASSUME NEW n \in Nat, NEW value
  PROVE  value \in Segment(n) <=>
           /\ value \in Seq(Byte) /\ Len(value) <= n /\ Proper(value)
           /\ \A i \in 1..Len(value) : value[i] # "/"
<1>1. ASSUME value \in Segment(n)
      PROVE  /\ value \in Seq(Byte) /\ Len(value) <= n /\ Proper(value)
             /\ \A i \in 1..Len(value) : value[i] # "/"
  <2>1. /\ value \in Seq(Byte) /\ Len(value) \in 1..n /\ ~Dots(value, 1, Len(value))
        /\ \A i \in 1..Len(value) : value[i] \in {"word", "."}
    BY <1>1, SegmentIs
  <2>2. \A i \in 1..Len(value) : value[i] # "/"
    BY <2>1
  <2>3. ASSUME NEW i \in 1..Len(value), NEW j \in 1..Len(value), Between(value, i, j)
        PROVE  i = 1 /\ j = Len(value)
    BY <2>1, <2>2, <2>3 DEF Between
  <2> QED BY <2>1, <2>2, <2>3 DEF Proper
<1>2. ASSUME value \in Seq(Byte), Len(value) <= n, Proper(value),
             \A i \in 1..Len(value) : value[i] # "/"
      PROVE  value \in Segment(n)
  <2>1. Len(value) \in 1..n
    BY <1>2, LenProperties DEF Proper
  <2>2. Between(value, 1, Len(value))
    BY <1>2, <2>1 DEF Between
  <2>3. \A i \in 1..Len(value) : value[i] \in {"word", "."}
    BY <1>2 DEF Proper
  <2> QED BY <1>2, <2>1, <2>2, <2>3, SegmentIs DEF Proper
<1> QED BY <1>1, <1>2

Join(s, path) == s \o <<"/">> \o path

\* The bytes of a segment, a slash and a path.
LEMMA Joined ==
  ASSUME NEW s \in Seq(Byte), NEW path \in Seq(Byte)
  PROVE  \E whole \in Seq(Byte) :
           /\ whole = Join(s, path)
           /\ Len(s) \in Nat /\ Len(path) \in Nat /\ Len(whole) = Len(s) + 1 + Len(path)
           /\ \A i \in 1..Len(s) : whole[i] = s[i]
           /\ whole[Len(s) + 1] = "/"
           /\ \A i \in 1..Len(path) : whole[Len(s) + 1 + i] = path[i]
<1>1. <<"/">> \in Seq(Byte) /\ Len(<<"/">>) = 1 /\ <<"/">>[1] = "/"
  BY DEF Byte
<1>2. PICK left \in Seq(Byte) : left = s \o <<"/">>
  BY <1>1, ConcatProperties
<1>3. /\ Len(s) \in Nat /\ Len(path) \in Nat
      /\ Len(left) = Len(s) + 1
      /\ \A i \in 1..(Len(s) + 1) : left[i] = IF i <= Len(s) THEN s[i] ELSE <<"/">>[i - Len(s)]
  BY <1>1, <1>2, ConcatProperties, LenProperties
<1>4. /\ left \o path \in Seq(Byte)
      /\ Len(left \o path) = Len(left) + Len(path)
      /\ \A i \in 1..(Len(left) + Len(path)) :
           (left \o path)[i] = IF i <= Len(left) THEN left[i] ELSE path[i - Len(left)]
  BY ConcatProperties
<1>5. PICK whole \in Seq(Byte) : whole = left \o path
  BY <1>4
<1>6. \A i \in 1..Len(s) : whole[i] = s[i]
  BY <1>3, <1>4, <1>5
<1>7. whole[Len(s) + 1] = "/"
  BY <1>1, <1>3, <1>4, <1>5
<1>8. \A i \in 1..Len(path) : whole[Len(s) + 1 + i] = path[i]
  <2> SUFFICES ASSUME NEW i \in 1..Len(path) PROVE whole[Len(s) + 1 + i] = path[i]
    OBVIOUS
  <2>1. Len(s) + 1 + i \in 1..(Len(left) + Len(path)) /\ ~(Len(s) + 1 + i <= Len(left))
    BY <1>3
  <2>2. (Len(s) + 1 + i) - Len(left) = i
    BY <1>3
  <2> QED BY <1>4, <1>5, <2>1, <2>2
<1> QED BY <1>2, <1>3, <1>4, <1>5, <1>6, <1>7, <1>8 DEF Join

LEMMA JoinProper ==
  ASSUME NEW k \in Nat, NEW s \in Segment(k), NEW path \in Seq(Byte), Proper(path)
  PROVE  /\ Join(s, path) \in Seq(Byte)
         /\ Len(Join(s, path)) <= k + 1 + Len(path)
         /\ Proper(Join(s, path))
<1>1. /\ s \in Seq(Byte) /\ Len(s) \in 1..k /\ ~Dots(s, 1, Len(s))
      /\ \A i \in 1..Len(s) : s[i] \in {"word", "."}
  BY SegmentIs
<1>2. PICK whole \in Seq(Byte) :
        /\ whole = Join(s, path)
        /\ Len(s) \in Nat /\ Len(path) \in Nat /\ Len(whole) = Len(s) + 1 + Len(path)
        /\ \A i \in 1..Len(s) : whole[i] = s[i]
        /\ whole[Len(s) + 1] = "/"
        /\ \A i \in 1..Len(path) : whole[Len(s) + 1 + i] = path[i]
  BY <1>1, Joined
<1>3. PICK m \in Nat : m = Len(s) + 1
  BY <1>1
<1>4. /\ Len(path) \in Nat /\ Len(path) >= 1 /\ Len(whole) = m + Len(path)
      /\ \A i \in 1..(m - 1) : whole[i] = s[i]
      /\ whole[m] = "/"
      /\ \A i \in 1..Len(path) : whole[m + i] = path[i]
  BY <1>2, <1>3 DEF Proper
<1>5. \A i \in (m + 1)..Len(whole) : i - m \in 1..Len(path) /\ whole[i] = path[i - m]
  <2> SUFFICES ASSUME NEW i \in (m + 1)..Len(whole)
               PROVE  i - m \in 1..Len(path) /\ whole[i] = path[i - m]
    OBVIOUS
  <2>1. PICK e \in 1..Len(path) : i = m + e /\ e = i - m
    BY <1>4
  <2> QED BY <1>4, <2>1
<1>6. \A i \in 1..(m - 1) : whole[i] \in {"word", "."}
  BY <1>1, <1>3, <1>4
<1>7. /\ whole[1] # "/" /\ whole[Len(whole)] # "/"
      /\ \A i \in 1..Len(whole) : whole[i] \in {"word", ".", "/"}
  <2>1. 1 \in 1..(m - 1)
    BY <1>1, <1>3
  <2>2. Len(whole) \in (m + 1)..Len(whole) /\ Len(whole) - m = Len(path)
    BY <1>4
  <2>3. ASSUME NEW i \in 1..Len(whole) PROVE whole[i] \in {"word", ".", "/"}
    <3>1. i \in 1..(m - 1) \/ i = m \/ i \in (m + 1)..Len(whole)
      BY <1>4
    <3> QED BY <1>4, <1>5, <1>6, <3>1 DEF Proper
  <2> QED BY <1>5, <1>6, <2>1, <2>2, <2>3 DEF Proper
<1>8. ASSUME NEW i \in 1..(Len(whole) - 1), whole[i] = "/", whole[i + 1] = "/" PROVE FALSE
  <2>1. i >= m /\ i \in Int
    BY <1>4, <1>6, <1>8
  <2>2. whole[m + 1] = path[1] /\ path[1] # "/"
    BY <1>4 DEF Proper
  <2>3. i > m
    BY <1>8, <2>1, <2>2
  <2>4. PICK e \in 1..(Len(path) - 1) : i = m + e
    BY <1>4, <2>3
  <2>5. e \in 1..Len(path) /\ e + 1 \in 1..Len(path) /\ i + 1 = m + (e + 1)
    BY <1>4, <2>4
  <2>6. whole[i] = path[e] /\ whole[i + 1] = path[e + 1]
    BY <1>4, <2>4, <2>5
  <2> QED BY <1>8, <2>4, <2>6 DEF Proper
<1>9. ASSUME NEW i \in 1..Len(whole), NEW j \in 1..Len(whole), Between(whole, i, j), Dots(whole, i, j)
      PROVE  FALSE
  <2>1. /\ j \in {i, i + 1} /\ \A e \in i..j : whole[e] = "."
        /\ i = 1 \/ whole[i - 1] = "/"
        /\ j = Len(whole) \/ whole[j + 1] = "/"
    BY <1>9 DEF Dots, Between
  <2>2. j < m \/ i > m
    BY <1>4, <2>1
  <2>3. CASE j < m
    <3>1. i = 1
      <4>1. ASSUME i # 1 PROVE i - 1 \in 1..(m - 1)
        BY <2>1, <2>3, <4>1
      <4> QED BY <1>6, <2>1, <4>1
    <3>2. j = m - 1
      <4>1. j + 1 \in 1..m /\ j # Len(whole)
        BY <1>4, <2>3
      <4>2. ASSUME j + 1 # m PROVE j + 1 \in 1..(m - 1)
        BY <4>1, <4>2
      <4> QED BY <1>6, <2>1, <4>1, <4>2
    <3>3. \A e \in 1..(m - 1) : s[e] = "."
      BY <1>4, <2>1, <3>1, <3>2
    <3> QED BY <1>1, <1>3, <2>1, <3>1, <3>2, <3>3 DEF Dots
  <2>4. CASE i > m
    <3>1. PICK a \in 1..Len(path), b \in 1..Len(path) : i = m + a /\ j = m + b
      BY <1>4, <2>1, <2>4
    <3>2. ASSUME NEW e \in a..b PROVE path[e] = "."
      <4>1. m + e \in i..j /\ e \in 1..Len(path)
        BY <3>1
      <4> QED BY <1>4, <2>1, <4>1
    <3>3. a = 1 \/ path[a - 1] = "/"
      <4>1. ASSUME a # 1 PROVE a - 1 \in 1..Len(path) /\ i - 1 = m + (a - 1) /\ i # 1
        BY <3>1, <4>1
      <4> QED BY <1>4, <2>1, <4>1
    <3>4. b = Len(path) \/ path[b + 1] = "/"
      <4>1. ASSUME b # Len(path)
            PROVE  b + 1 \in 1..Len(path) /\ j + 1 = m + (b + 1) /\ j # Len(whole)
        BY <1>4, <3>1, <4>1
      <4> QED BY <1>4, <2>1, <4>1
    <3>5. b \in {a, a + 1}
      BY <2>1, <3>1
    <3>6. Between(path, a, b) /\ Dots(path, a, b)
      BY <3>2, <3>3, <3>4, <3>5 DEF Between, Dots
    <3> QED BY <3>6 DEF Proper
  <2> QED BY <2>2, <2>3, <2>4
<1>10. Len(whole) <= k + 1 + Len(path) /\ Len(whole) >= 1
  BY <1>1, <1>3, <1>4
<1>11. Proper(whole)
  BY <1>7, <1>8, <1>9, <1>10 DEF Proper
<1> QED BY <1>2, <1>10, <1>11

\* A reference with a slash is a segment, its first slash and a path.
LEMMA ProperSplits ==
  ASSUME NEW value \in Seq(Byte), Proper(value), \E i \in 1..Len(value) : value[i] = "/"
  PROVE  \E k \in 1..(Len(value) - 2) : \E s \in Segment(k), path \in Seq(Byte) :
           /\ Proper(path) /\ Len(path) = Len(value) - 1 - k
           /\ value = Join(s, path)
<1>1. Len(value) \in Nat /\ \A i \in 1..Len(value) : value[i] \in Byte
  BY LenProperties, ElementOfSeq
<1>2. PICK m \in 1..Len(value) : value[m] = "/" /\ \A i \in 1..(m - 1) : value[i] # "/"
  <2> DEFINE T == {i \in 1..Len(value) : value[i] = "/"}
  <2>1. T \subseteq Nat /\ T # {}
    OBVIOUS
  <2>2. PICK x \in T : \A y \in T : x <= y
    <3> HIDE DEF T
    <3> QED BY <2>1, LeastNat
  <2>3. ASSUME NEW i \in 1..(x - 1) PROVE value[i] # "/"
    <3>1. i \in 1..Len(value) /\ ~(x <= i)
      BY <1>1
    <3> QED BY <2>2, <3>1
  <2> QED BY <2>3
<1>3. m # 1 /\ m # Len(value) /\ Len(value) >= 1
  BY <1>2 DEF Proper
<1>4. /\ m \in Nat /\ m - 1 \in 1..(Len(value) - 2)
      /\ 1..(m - 1) \subseteq 1..Len(value) /\ (m + 1)..Len(value) \subseteq 1..Len(value)
  BY <1>1, <1>3
<1>5. PICK s \in Seq(Byte) : s = SubSeq(value, 1, m - 1)
  <2>1. m - 1 \in Int /\ \A i \in 1..(m - 1) : value[i] \in Byte
    BY <1>1, <1>4
  <2>2. SubSeq(value, 1, m - 1) \in Seq(Byte)
    BY <2>1, SubSeqProperties
  <2> QED BY <2>2
<1>6. PICK path \in Seq(Byte) : path = SubSeq(value, m + 1, Len(value))
  <2>1. m + 1 \in Int /\ Len(value) \in Int /\ \A i \in (m + 1)..Len(value) : value[i] \in Byte
    BY <1>1, <1>4
  <2>2. SubSeq(value, m + 1, Len(value)) \in Seq(Byte)
    BY <2>1, SubSeqProperties
  <2> QED BY <2>2
<1>7. Len(s) = m - 1 /\ \A i \in 1..(m - 1) : s[i] = value[i]
  <2>1. /\ Len(s) = IF 1 <= m - 1 THEN (m - 1) - 1 + 1 ELSE 0
        /\ \A i \in 1..((m - 1) - 1 + 1) : s[i] = value[1 + i - 1]
    BY <1>1, <1>4, <1>5, SubSeqProperties
  <2> QED BY <1>4, <2>1
<1>8. Len(path) = Len(value) - m /\ \A i \in 1..(Len(value) - m) : path[i] = value[m + i]
  <2>1. /\ Len(path) = IF m + 1 <= Len(value) THEN Len(value) - (m + 1) + 1 ELSE 0
        /\ \A i \in 1..(Len(value) - (m + 1) + 1) : path[i] = value[(m + 1) + i - 1]
    BY <1>1, <1>4, <1>6, SubSeqProperties
  <2>2. \A i \in 1..(Len(value) - m) : path[i] = value[m + i]
    <3> SUFFICES ASSUME NEW i \in 1..(Len(value) - m) PROVE path[i] = value[m + i]
      OBVIOUS
    <3>1. i \in 1..(Len(value) - (m + 1) + 1) /\ (m + 1) + i - 1 = m + i
      BY <1>1, <1>4
    <3> QED BY <2>1, <3>1
  <2> QED BY <1>1, <1>4, <2>1, <2>2
<1>9. s \in Segment(m - 1)
  <2>1. \A i \in 1..Len(s) : s[i] \in {"word", "."}
    BY <1>2, <1>4, <1>7 DEF Proper
  <2>2. ~Dots(s, 1, Len(s))
    <3>1. Between(value, 1, m - 1)
      BY <1>2, <1>4 DEF Between
    <3>2. ~Dots(value, 1, m - 1)
      BY <1>4, <3>1 DEF Proper
    <3> QED BY <1>4, <1>7, <3>2 DEF Dots
  <2> QED BY <1>4, <1>7, <2>1, <2>2, SegmentIs
<1>10. Proper(path)
  <2>1. Len(path) \in Nat /\ Len(path) >= 1 /\ Len(value) - m = Len(path)
    BY <1>1, <1>4, <1>8
  <2>2. path[1] # "/"
    <3>1. m \in 1..(Len(value) - 1) /\ path[1] = value[m + 1]
      BY <1>4, <1>8, <2>1
    <3> QED BY <1>2, <3>1 DEF Proper
  <2>3. path[Len(path)] # "/"
    <3>1. path[Len(path)] = value[m + Len(path)] /\ m + Len(path) = Len(value)
      BY <1>1, <1>4, <1>8, <2>1
    <3> QED BY <3>1 DEF Proper
  <2>4. ASSUME NEW i \in 1..(Len(path) - 1) PROVE ~(path[i] = "/" /\ path[i + 1] = "/")
    <3>1. /\ i \in 1..(Len(value) - m) /\ i + 1 \in 1..(Len(value) - m)
          /\ m + i \in 1..(Len(value) - 1) /\ m + (i + 1) = (m + i) + 1
      BY <1>1, <1>4, <1>8
    <3>2. path[i] = value[m + i] /\ path[i + 1] = value[(m + i) + 1]
      BY <1>8, <3>1
    <3> QED BY <3>1, <3>2 DEF Proper
  <2>5. ASSUME NEW i \in 1..Len(path) PROVE path[i] \in {"word", ".", "/"}
    <3>1. m + i \in 1..Len(value) /\ path[i] = value[m + i]
      BY <1>1, <1>4, <1>8
    <3> QED BY <3>1 DEF Proper
  <2>6. ASSUME NEW i \in 1..Len(path), NEW j \in 1..Len(path), Between(path, i, j), Dots(path, i, j)
        PROVE  FALSE
    <3>1. /\ j \in {i, i + 1} /\ \A e \in i..j : path[e] = "."
          /\ i = 1 \/ path[i - 1] = "/"
          /\ j = Len(path) \/ path[j + 1] = "/"
      BY <2>6 DEF Dots, Between
    <3>2. m + i \in 1..Len(value) /\ m + j \in 1..Len(value) /\ m + j \in {m + i, (m + i) + 1}
      BY <1>1, <1>4, <1>8, <3>1
    <3>3. ASSUME NEW e \in (m + i)..(m + j) PROVE value[e] = "."
      <4>1. PICK a \in i..j : e = m + a
        BY <1>4
      <4>2. a \in 1..(Len(value) - m)
        BY <1>8
      <4> QED BY <1>8, <3>1, <4>1, <4>2
    <3>4. m + i = 1 \/ value[(m + i) - 1] = "/"
      <4>1. CASE i = 1
        BY <1>2, <1>4, <4>1
      <4>2. CASE i # 1
        <5>1. i - 1 \in 1..(Len(value) - m) /\ m + (i - 1) = (m + i) - 1
          BY <1>4, <1>8, <4>2
        <5> QED BY <1>8, <3>1, <4>2, <5>1
      <4> QED BY <4>1, <4>2
    <3>5. m + j = Len(value) \/ value[(m + j) + 1] = "/"
      <4>1. CASE j = Len(path)
        BY <1>1, <1>4, <1>8, <4>1
      <4>2. CASE j # Len(path)
        <5>1. j + 1 \in 1..(Len(value) - m)
          BY <2>1, <4>2
        <5>2. m + (j + 1) = (m + j) + 1
          BY <1>4
        <5> QED BY <1>8, <3>1, <4>2, <5>1, <5>2
      <4> QED BY <4>1, <4>2
    <3>6. Between(value, m + i, m + j) /\ Dots(value, m + i, m + j)
      BY <3>2, <3>3, <3>4, <3>5 DEF Between, Dots
    <3> QED BY <3>2, <3>6 DEF Proper
  <2> QED BY <2>1, <2>2, <2>3, <2>4, <2>5, <2>6 DEF Proper
<1>11. value = Join(s, path)
  <2>2. PICK whole \in Seq(Byte) :
          /\ whole = Join(s, path)
          /\ Len(s) \in Nat /\ Len(path) \in Nat /\ Len(whole) = Len(s) + 1 + Len(path)
          /\ \A i \in 1..Len(s) : whole[i] = s[i]
          /\ whole[Len(s) + 1] = "/"
          /\ \A i \in 1..Len(path) : whole[Len(s) + 1 + i] = path[i]
    BY Joined
  <2>3. Len(whole) = Len(value) /\ Len(s) + 1 = m
    BY <1>1, <1>4, <1>7, <1>8, <2>2
  <2>4. ASSUME NEW i \in 1..Len(value) PROVE value[i] = whole[i]
    <3>1. CASE i < m
      BY <1>4, <1>7, <2>2, <3>1
    <3>2. CASE i = m
      BY <1>2, <2>2, <2>3, <3>2
    <3>3. CASE i > m
      <4>1. PICK e \in 1..Len(path) : i = m + e
        BY <1>1, <1>4, <1>8, <3>3
      <4> QED BY <1>8, <2>2, <2>3, <4>1
    <3> QED BY <1>4, <3>1, <3>2, <3>3
  <2> QED BY <2>2, <2>3, <2>4, SeqEqual
<1>12. Len(path) = Len(value) - 1 - (m - 1)
  BY <1>1, <1>4, <1>8
<1> QED BY <1>4, <1>9, <1>10, <1>11, <1>12

-----------------------------------------------------------------------------
(* RelativePath is the set of proper references. *)

ProperPath == [n \in Nat |-> {value \in Seq(Byte) : Len(value) <= n /\ Proper(value)}]

\* A segment of up to k bytes, a slash and one of the paths.
Joins(k, paths) == {Join(s, path) : s \in Segment(k), path \in paths}

\* A segment, or a segment, a slash and one of the shorter paths of f.
Unfolded(f, n) == Segment(n) \cup UNION {Joins(k, f[n - 1 - k]) : k \in 1..(n - 1)}

LEMMA JoinsAre ==
  ASSUME NEW k, NEW paths, NEW value
  PROVE  value \in Joins(k, paths) <=>
           \E s \in Segment(k), path \in paths : value = Join(s, path)
BY DEF Joins

LEMMA UnfoldedIs ==
  ASSUME NEW f, NEW n \in Nat, NEW value
  PROVE  value \in Unfolded(f, n) <=>
           value \in Segment(n) \/ \E k \in 1..(n - 1) : value \in Joins(k, f[n - 1 - k])
BY DEF Unfolded

LEMMA ProperUnfolds ==
  ASSUME NEW n \in Nat
  PROVE  ProperPath[n] = Unfolded(ProperPath, n)
<1>1. \A k \in Nat : \A path : path \in ProperPath[k] <=>
        path \in Seq(Byte) /\ Len(path) <= k /\ Proper(path)
  BY DEF ProperPath
<1>2. ASSUME NEW value \in ProperPath[n] PROVE value \in Unfolded(ProperPath, n)
  <2>1. value \in Seq(Byte) /\ Len(value) <= n /\ Proper(value) /\ Len(value) \in Nat
    BY <1>1, <1>2, LenProperties
  <2>2. CASE \A i \in 1..Len(value) : value[i] # "/"
    BY <2>1, <2>2, SegmentProper, UnfoldedIs
  <2>3. CASE \E i \in 1..Len(value) : value[i] = "/"
    <3>1. PICK k \in 1..(Len(value) - 2) : \E s \in Segment(k), path \in Seq(Byte) :
            /\ Proper(path) /\ Len(path) = Len(value) - 1 - k
            /\ value = Join(s, path)
      BY <2>1, <2>3, ProperSplits
    <3>2. PICK s \in Segment(k), path \in Seq(Byte) :
            /\ Proper(path) /\ Len(path) = Len(value) - 1 - k
            /\ value = Join(s, path)
      BY <3>1
    <3>3. k \in 1..(n - 1) /\ n - 1 - k \in Nat /\ Len(path) <= n - 1 - k
      BY <2>1, <3>2
    <3>4. path \in ProperPath[n - 1 - k]
      BY <1>1, <3>2, <3>3
    <3>5. value \in Joins(k, ProperPath[n - 1 - k])
      BY <3>2, <3>4, JoinsAre
    <3> QED BY <3>3, <3>5, UnfoldedIs
  <2> QED BY <2>2, <2>3
<1>3. ASSUME NEW value \in Unfolded(ProperPath, n) PROVE value \in ProperPath[n]
  <2>1. CASE value \in Segment(n)
    BY <1>1, <2>1, SegmentProper
  <2>2. ASSUME NEW k \in 1..(n - 1), NEW s \in Segment(k), NEW path \in ProperPath[n - 1 - k],
               value = Join(s, path)
        PROVE  value \in ProperPath[n]
    <3>1. k \in Nat /\ n - 1 - k \in Nat
      OBVIOUS
    <3>2. path \in Seq(Byte) /\ Len(path) <= n - 1 - k /\ Proper(path) /\ Len(path) \in Nat
      BY <1>1, <3>1, LenProperties
    <3>3. value \in Seq(Byte) /\ Len(value) <= k + 1 + Len(path) /\ Proper(value)
      BY <2>2, <3>1, <3>2, JoinProper
    <3>4. Len(value) \in Nat
      BY <3>3, LenProperties
    <3>5. Len(value) <= n
      BY <3>1, <3>2, <3>3, <3>4
    <3> QED BY <1>1, <3>3, <3>5
  <2>3. ASSUME NEW k \in 1..(n - 1), value \in Joins(k, ProperPath[n - 1 - k])
        PROVE  value \in ProperPath[n]
    <3>1. PICK s \in Segment(k), path \in ProperPath[n - 1 - k] : value = Join(s, path)
      BY <2>3, JoinsAre
    <3> QED BY <2>2, <3>1
  <2>4. value \in Segment(n) \/ \E k \in 1..(n - 1) : value \in Joins(k, ProperPath[n - 1 - k])
    BY <1>3, UnfoldedIs
  <2> QED BY <2>1, <2>3, <2>4
<1> QED BY <1>2, <1>3

\* The recursion has a solution.
LEMMA PathUnfolds == RelativePath = [n \in Nat |-> Unfolded(RelativePath, n)]
<1>1. RelativePath = CHOOSE f : f = [n \in Nat |-> Unfolded(f, n)]
  BY DEF RelativePath, Unfolded, Joins, Join
<1>2. ProperPath = [n \in Nat |-> Unfolded(ProperPath, n)]
  <2>1. ProperPath = [n \in Nat |-> ProperPath[n]]
    BY DEF ProperPath
  <2> HIDE DEF ProperPath
  <2> QED BY <2>1, ProperUnfolds
<1>3. \E f : f = [n \in Nat |-> Unfolded(f, n)]
  BY <1>2
<1> HIDE DEF RelativePath
<1> QED BY <1>1, <1>3, Zenon

\* It has no other solution.
LEMMA PathIsProper ==
  ASSUME NEW n \in Nat
  PROVE  RelativePath[n] = ProperPath[n]
<1> DEFINE T == {m \in Nat : RelativePath[m] # ProperPath[m]}
<1> SUFFICES ASSUME T # {} PROVE FALSE
  OBVIOUS
<1>1. PICK m \in T : \A k \in T : m <= k
  <2>1. T \subseteq Nat
    OBVIOUS
  <2> HIDE DEF T
  <2> QED BY <2>1, LeastNat
<1>2. m \in Nat /\ RelativePath[m] # ProperPath[m]
  BY <1>1
<1>3. \A k \in 1..(m - 1) : RelativePath[m - 1 - k] = ProperPath[m - 1 - k]
  <2> SUFFICES ASSUME NEW k \in 1..(m - 1) PROVE RelativePath[m - 1 - k] = ProperPath[m - 1 - k]
    OBVIOUS
  <2>1. PICK l \in Nat : l = m - 1 - k /\ ~(m <= l)
    BY <1>2
  <2>2. l \notin T
    BY <1>1, <2>1
  <2>3. RelativePath[l] = ProperPath[l]
    BY <2>2
  <2> QED BY <2>1, <2>3
<1>4. Unfolded(RelativePath, m) = Unfolded(ProperPath, m)
  <2>1. ASSUME NEW value
        PROVE  value \in Unfolded(RelativePath, m) <=> value \in Unfolded(ProperPath, m)
    <3> HIDE DEF T
    <3> QED BY <1>2, <1>3, UnfoldedIs
  <2> QED BY <2>1
<1>5. RelativePath[m] = Unfolded(RelativePath, m)
  BY <1>2, PathUnfolds
<1>6. ProperPath[m] = Unfolded(ProperPath, m)
  BY <1>2, ProperUnfolds
<1> QED BY <1>2, <1>4, <1>5, <1>6

\* An Instance with valid limits and endpoints runs exactly if its references
\* are two different relative paths, by whatever bytes the plan holds.
THEOREM ReferencesArePaths == Spec => []SecretReferencesArePaths
<1>1. ASSUME Decided PROVE SecretReferencesArePaths
  <2>1. MaxReferenceBytes \in Nat
    BY LimitsAssumption
  <2>2. ASSUME NEW value \in Seq(Byte)
        PROVE  ValidSecretReference(value) <=> value \in RelativePath[MaxReferenceBytes]
    <3>1. value \in ProperPath[MaxReferenceBytes] <=> Len(value) <= MaxReferenceBytes /\ Proper(value)
      BY <2>1 DEF ProperPath
    <3> QED BY <2>1, <3>1, PathIsProper, ReferenceIs
  <2>3. config.database_url_secret \in Seq(Byte) /\ config.signing_secret \in Seq(Byte)
    BY <1>1, ResolvedAssumption DEF Decided
  <2>4. ValidSecrets(config) <=>
          /\ config.database_url_secret \in RelativePath[MaxReferenceBytes]
          /\ config.signing_secret \in RelativePath[MaxReferenceBytes]
          /\ config.database_url_secret # config.signing_secret
    BY <2>2, <2>3 DEF ValidSecrets
  <2> QED BY <1>1, <2>4 DEF SecretReferencesArePaths, Decided, Validate
<1> QED BY <1>1, DecidedInvariance, PTL
=============================================================================

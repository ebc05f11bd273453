------------------------------ MODULE BriefProofs ------------------------------
(***************************************************************************)
(* Theorems about the brief, for all answers of the reflector and any      *)
(* edits: no answer makes the schema throw, and what is confirmed is what  *)
(* was proposed and what was shown.                                        *)
(*                                                                         *)
(* The first part is about texts: what flattening, filtering and trimming  *)
(* do to a sequence of any length, by induction on that length.            *)
(***************************************************************************)
EXTENDS Brief, SequenceTheorems, WellFoundedInduction, TLAPS

(* Induction, for sets: a set of naturals that is not all of them leaves   *)
(* out a least one.                                                        *)
LEMMA NatSetInduction ==
    ASSUME NEW S, 0 \in S, \A n \in Nat : n \in S => n + 1 \in S
    PROVE  Nat \subseteq S
<1> DEFINE R == OpToRel(<, Nat)
           T == Nat \ S
<1>1. IsWellFoundedOn(R, Nat)
    BY NatLessThanWellFounded
<1>2. \A x, y \in Nat : x < y => <<x, y>> \in R
    BY DEF OpToRel
<1> HIDE DEF R
<1>3. SUFFICES ASSUME T # {} PROVE FALSE
    OBVIOUS
<1>4. PICK x \in T : \A y \in T : ~ (<<y, x>> \in R)
    <2>1. T \subseteq Nat
        OBVIOUS
    <2> HIDE DEF T
    <2> QED
        BY <1>1, <1>3, <2>1, WFMin
<1>5. x # 0 /\ x - 1 \in Nat /\ x - 1 + 1 = x /\ x - 1 < x
    OBVIOUS
<1>6. x - 1 \in T
    BY <1>5
<1>7. <<x - 1, x>> \in R
    BY <1>2, <1>5
<1> QED
    BY <1>4, <1>6, <1>7

(* And for sequences: whatever holds of <<>> and survives an Append.       *)
LEMMA SeqSetInduction ==
    ASSUME NEW S, NEW T, <<>> \in T,
           \A s \in Seq(S), x \in S : s \in T => Append(s, x) \in T
    PROVE  Seq(S) \subseteq T
<1> DEFINE N == {n \in Nat : \A s \in Seq(S) : Len(s) = n => s \in T}
<1>1. 0 \in N
    <2>1. \A s \in Seq(S) : Len(s) = 0 => s = <<>>
        BY EmptySeq
    <2> QED
        BY <2>1
<1>2. ASSUME NEW n \in Nat, n \in N
      PROVE  n + 1 \in N
    <2>1. SUFFICES ASSUME NEW s \in Seq(S), Len(s) = n + 1
                   PROVE  s \in T
        OBVIOUS
    <2>2. s # <<>>
        BY <2>1
    <2>3. PICK t \in Seq(S), x \in S : s = Append(t, x)
        BY <2>2, SequenceEmptyOrAppend
    <2>4. Len(t) = n
        BY <2>1, <2>3, AppendProperties, LenProperties
    <2> QED
        BY <1>2, <2>3, <2>4
<1> HIDE DEF N
<1>3. Nat \subseteq N
    BY <1>1, <1>2, NatSetInduction
<1> QED
    BY <1>3, LenProperties DEF N

(* The least and the greatest of some positions are among them.            *)
LEMMA MinOfPositions ==
    ASSUME NEW n \in Nat, NEW S \in SUBSET (1 .. n), S # {}
    PROVE  Min(S) \in S /\ \A y \in S : Min(S) <= y
<1> DEFINE N == {m \in Nat : \A y \in S : m <= y}
<1>1. 0 \in N
    OBVIOUS
<1>2. PICK y \in S : TRUE
    OBVIOUS
<1>3. y + 1 \in Nat /\ y + 1 \notin N
    OBVIOUS
<1>4. ~ (\A m \in Nat : m \in N => m + 1 \in N)
    <2> HIDE DEF N
    <2> QED
        BY <1>1, <1>3, NatSetInduction
<1>5. PICK m \in N : m + 1 \notin N
    BY <1>4
<1>6. m \in S /\ \A z \in S : m <= z
    BY <1>5
<1> QED
    BY <1>6 DEF Min

LEMMA MaxOfPositions ==
    ASSUME NEW n \in Nat, NEW S \in SUBSET (1 .. n), S # {}
    PROVE  Max(S) \in S /\ \A y \in S : Max(S) >= y
<1> DEFINE N == {m \in Nat : \E y \in S : y >= m}
<1>0. \A y \in S : y \in Nat /\ y >= 0 /\ y < n + 1 /\ y <= n
    OBVIOUS
<1>1. 0 \in N
    BY <1>0
<1>2. n + 1 \in Nat /\ n + 1 \notin N
    BY <1>0
<1>3. ~ (\A m \in Nat : m \in N => m + 1 \in N)
    <2> HIDE DEF N
    <2> QED
        BY <1>1, <1>2, NatSetInduction
<1>4. PICK m \in N : m + 1 \notin N
    BY <1>3
<1>5. PICK y \in S : y >= m
    BY <1>4
<1>6. \A z \in S : y >= z
    BY <1>0, <1>4, <1>5
<1> QED
    BY <1>6 DEF Max

-------------------------------------------------------------------------------
(* Flattening *)

(* The recursion of FlattenSeq, for the first n of the sequences.          *)
Flattens(g, s, n) ==
    \A i \in 1 .. n : g[i] = IF i = 1 THEN s[i] ELSE g[i - 1] \o s[i]

LEMMA FlattensFurther ==
    ASSUME NEW S, NEW s \in Seq(Seq(S)), NEW n \in Nat, n < Len(s),
           NEW g \in [1 .. n -> Seq(S)], Flattens(g, s, n)
    PROVE  \E h \in [1 .. n + 1 -> Seq(S)] : Flattens(h, s, n + 1)
<1> DEFINE next == IF n = 0 THEN s[1] ELSE g[n] \o s[n + 1]
           h == [i \in 1 .. n + 1 |-> IF i = n + 1 THEN next ELSE g[i]]
<1>1. n + 1 \in 1 .. Len(s) /\ s[n + 1] \in Seq(S)
    BY LenProperties
<1>2. next \in Seq(S)
    <2>1. CASE n = 0
        BY <1>1, <2>1
    <2>2. CASE n # 0
        <3>1. g[n] \in Seq(S)
            BY <2>2
        <3> QED
            BY <1>1, <2>2, <3>1, ConcatProperties
    <2> QED
        BY <2>1, <2>2
<1>3. h \in [1 .. n + 1 -> Seq(S)]
    BY <1>2
<1>4. \A i \in 1 .. n : h[i] = g[i]
    <2>1. \A i \in 1 .. n : i \in 1 .. n + 1 /\ i # n + 1
        OBVIOUS
    <2> QED
        BY <2>1
<1>5. h[n + 1] = next
    OBVIOUS
<1> HIDE DEF h
<1>6. ASSUME NEW i \in 1 .. n + 1
      PROVE  h[i] = IF i = 1 THEN s[i] ELSE h[i - 1] \o s[i]
    <2>1. CASE i \in 1 .. n
        <3>1. i # 1 => i - 1 \in 1 .. n
            BY <2>1
        <3> QED
            BY <1>4, <2>1, <3>1 DEF Flattens
    <2>2. CASE i = n + 1
        <3>1. i # 1 => n \in 1 .. n /\ i - 1 = n
            BY <2>2
        <3> QED
            BY <1>4, <1>5, <2>2, <3>1
    <2> QED
        BY <2>1, <2>2
<1> QED
    BY <1>3, <1>6 DEF Flattens

LEMMA FlattensExists ==
    ASSUME NEW S, NEW s \in Seq(Seq(S))
    PROVE  \E g \in [1 .. Len(s) -> Seq(S)] : Flattens(g, s, Len(s))
<1> DEFINE N == {n \in Nat : n <= Len(s) => \E g \in [1 .. n -> Seq(S)] : Flattens(g, s, n)}
<1>0. Len(s) \in Nat
    BY LenProperties
<1>1. 0 \in N
    <2>1. [i \in 1 .. 0 |-> s[i]] \in [1 .. 0 -> Seq(S)]
        OBVIOUS
    <2>2. Flattens([i \in 1 .. 0 |-> s[i]], s, 0)
        BY DEF Flattens
    <2> QED
        BY <2>1, <2>2
<1>2. ASSUME NEW n \in Nat, n \in N
      PROVE  n + 1 \in N
    <2>1. SUFFICES ASSUME n + 1 <= Len(s)
                   PROVE  \E g \in [1 .. n + 1 -> Seq(S)] : Flattens(g, s, n + 1)
        OBVIOUS
    <2>2. n <= Len(s) /\ n < Len(s)
        BY <1>0, <2>1
    <2> QED
        BY <1>2, <2>2, FlattensFurther
<1>3. Nat \subseteq N
    <2> HIDE DEF N
    <2> QED
        BY <1>1, <1>2, NatSetInduction
<1> QED
    BY <1>0, <1>3

LEMMA FlattensUnique ==
    ASSUME NEW s, NEW n \in Nat, NEW f, NEW g, Flattens(f, s, n), Flattens(g, s, n)
    PROVE  \A i \in 1 .. n : f[i] = g[i]
<1> DEFINE N == {m \in Nat : m \in 1 .. n => f[m] = g[m]}
<1>1. 0 \in N
    OBVIOUS
<1>2. ASSUME NEW m \in Nat, m \in N
      PROVE  m + 1 \in N
    <2>1. SUFFICES ASSUME m + 1 \in 1 .. n
                   PROVE  f[m + 1] = g[m + 1]
        OBVIOUS
    <2>2. m + 1 # 1 => m \in 1 .. n /\ m + 1 - 1 = m
        BY <2>1
    <2> QED
        BY <1>2, <2>1, <2>2 DEF Flattens
<1>3. Nat \subseteq N
    <2> HIDE DEF N
    <2> QED
        BY <1>1, <1>2, NatSetInduction
<1> QED
    BY <1>3

(* Whatever satisfies the recursion ends with the flattened sequence.      *)
LEMMA FlattenSeqIs ==
    ASSUME NEW S, NEW s \in Seq(Seq(S)), s # <<>>, NEW g, Flattens(g, s, Len(s))
    PROVE  FlattenSeq(s) = g[Len(s)]
<1> DEFINE f == CHOOSE f : f = [i \in 1 .. Len(s) |-> IF i = 1 THEN s[i] ELSE f[i - 1] \o s[i]]
<1>0. Len(s) \in Nat \ {0}
    BY EmptySeq
<1>1. PICK h \in [1 .. Len(s) -> Seq(S)] : Flattens(h, s, Len(s))
    BY FlattensExists
<1>2. h = [i \in 1 .. Len(s) |-> IF i = 1 THEN s[i] ELSE h[i - 1] \o s[i]]
    BY <1>1 DEF Flattens
<1>3. f = [i \in 1 .. Len(s) |-> IF i = 1 THEN s[i] ELSE f[i - 1] \o s[i]]
    BY <1>2
<1>4. FlattenSeq(s) = f[Len(s)]
    BY <1>0 DEF FlattenSeq
<1> HIDE DEF f
<1>5. Flattens(f, s, Len(s))
    BY <1>3 DEF Flattens
<1> QED
    BY <1>0, <1>4, <1>5, FlattensUnique

LEMMA FlattenEmpty == FlattenSeq(<<>>) = <<>>
    BY DEF FlattenSeq

LEMMA FlattenTypes ==
    ASSUME NEW S, NEW s \in Seq(Seq(S))
    PROVE  FlattenSeq(s) \in Seq(S)
<1>1. CASE s = <<>>
    BY <1>1, FlattenEmpty, EmptySeq
<1>2. CASE s # <<>>
    <2>1. PICK g \in [1 .. Len(s) -> Seq(S)] : Flattens(g, s, Len(s))
        BY FlattensExists
    <2>2. Len(s) \in 1 .. Len(s)
        BY <1>2, EmptySeq
    <2> QED
        BY <1>2, <2>1, <2>2, FlattenSeqIs
<1> QED
    BY <1>1, <1>2

LEMMA FlattenAppend ==
    ASSUME NEW S, NEW s \in Seq(Seq(S)), NEW x \in Seq(S)
    PROVE  FlattenSeq(Append(s, x)) = FlattenSeq(s) \o x
<1> DEFINE t == Append(s, x)
<1>0. /\ t \in Seq(Seq(S)) /\ t # <<>> /\ Len(t) = Len(s) + 1 /\ Len(s) \in Nat
      /\ \A i \in 1 .. Len(s) : t[i] = s[i]
      /\ t[Len(s) + 1] = x
    BY AppendProperties, LenProperties
<1> HIDE DEF t
<1>1. PICK g \in [1 .. Len(t) -> Seq(S)] : Flattens(g, t, Len(t))
    BY <1>0, FlattensExists
<1>2. FlattenSeq(t) = g[Len(t)]
    BY <1>0, <1>1, FlattenSeqIs
<1>3. CASE s = <<>>
    <2>1. Len(t) = 1 /\ g[1] = x
        BY <1>0, <1>1, <1>3 DEF Flattens
    <2>2. FlattenSeq(s) \o x = x
        BY <1>3, FlattenEmpty, ConcatEmptySeq
    <2> QED
        BY <1>2, <2>1, <2>2 DEF t
<1>4. CASE s # <<>>
    <2>1. Len(s) \in Nat \ {0}
        BY <1>4, EmptySeq
    <2>2. Flattens(g, s, Len(s))
        <3>1. \A i \in 1 .. Len(s) : i \in 1 .. Len(t)
            BY <1>0
        <3> QED
            BY <1>0, <1>1, <3>1 DEF Flattens
    <2>3. FlattenSeq(s) = g[Len(s)]
        BY <1>4, <2>2, FlattenSeqIs
    <2>4. g[Len(t)] = g[Len(s)] \o x
        <3>1. /\ Len(t) \in 1 .. Len(t) /\ Len(t) # 1 /\ Len(t) - 1 = Len(s)
              /\ t[Len(t)] = x
            BY <1>0, <2>1
        <3> QED
            BY <1>1, <3>1 DEF Flattens
    <2> QED
        BY <1>2, <2>3, <2>4 DEF t
<1> QED
    BY <1>3, <1>4

LEMMA FlattenOne ==
    ASSUME NEW S, NEW x \in Seq(S)
    PROVE  FlattenSeq(<<x>>) = x
<1>1. <<>> \in Seq(Seq(S)) /\ Append(<<>>, x) = <<x>> /\ <<>> \o x = x
    BY EmptySeq, ConcatEmptySeq
<1> QED
    BY <1>1, FlattenAppend, FlattenEmpty

LEMMA ToSetAppend ==
    ASSUME NEW S, NEW s \in Seq(S), NEW x \in S
    PROVE  ToSet(Append(s, x)) = ToSet(s) \union {x}
<1> DEFINE t == Append(s, x)
<1>1. /\ DOMAIN s = 1 .. Len(s) /\ DOMAIN t = 1 .. Len(s) + 1 /\ Len(s) \in Nat
      /\ \A i \in 1 .. Len(s) : t[i] = s[i]
      /\ t[Len(s) + 1] = x
    BY AppendProperties, LenProperties
<1> HIDE DEF t
<1>2. \A i \in 1 .. Len(s) + 1 : i \in 1 .. Len(s) \/ i = Len(s) + 1
    BY <1>1
<1>3. \A i \in 1 .. Len(s) : i \in 1 .. Len(s) + 1
    BY <1>1
<1>4. Len(s) + 1 \in 1 .. Len(s) + 1
    BY <1>1
<1>5. ToSet(t) = ToSet(s) \union {x}
    BY <1>1, <1>2, <1>3, <1>4 DEF ToSet
<1> QED
    BY <1>5 DEF t

(* What flattens to nothing has nothing in it.                             *)
LEMMA FlattenBlank ==
    ASSUME NEW S, NEW s \in Seq(Seq(S)), FlattenSeq(s) = <<>>
    PROVE  ToSet(s) \subseteq {<<>>}
<1> DEFINE T == {t \in Seq(Seq(S)) : FlattenSeq(t) = <<>> => ToSet(t) \subseteq {<<>>}}
<1>1. <<>> \in T
    BY EmptySeq DEF ToSet
<1>2. ASSUME NEW t \in Seq(Seq(S)), NEW x \in Seq(S), t \in T
      PROVE  Append(t, x) \in T
    <2>1. Append(t, x) \in Seq(Seq(S))
        BY AppendProperties
    <2>2. FlattenSeq(Append(t, x)) = FlattenSeq(t) \o x /\ FlattenSeq(t) \in Seq(S)
        BY FlattenAppend, FlattenTypes
    <2>3. FlattenSeq(Append(t, x)) = <<>> => FlattenSeq(t) = <<>> /\ x = <<>>
        <3>1. \A u, v \in Seq(S) : u \o v = <<>> => u = <<>> /\ v = <<>>
            BY ConcatEqualIffEmpty
        <3> QED
            BY <2>2, <3>1
    <2>4. ToSet(Append(t, x)) = ToSet(t) \union {x}
        BY ToSetAppend
    <2> QED
        BY <1>2, <2>1, <2>3, <2>4
<1> HIDE DEF T
<1>3. Seq(Seq(S)) \subseteq T
    BY <1>1, <1>2, SeqSetInduction
<1> QED
    BY <1>3 DEF T

-------------------------------------------------------------------------------
(* Leaving out what is blank *)

OneOrNone(x) == IF x = <<>> THEN <<>> ELSE <<x>>

OnesOrNones(s) == [i \in DOMAIN s |-> OneOrNone(s[i])]

LEMMA NonBlankIs == \A s : NonBlank(s) = FlattenSeq(OnesOrNones(s))
    BY DEF NonBlank, OnesOrNones, OneOrNone

LEMMA OneOrNoneTypes ==
    ASSUME NEW S, NEW x \in Seq(S)
    PROVE  OneOrNone(x) \in Seq(Seq(S))
    BY EmptySeq DEF OneOrNone

LEMMA OnesOrNonesTypes ==
    ASSUME NEW S, NEW s \in Seq(Seq(S))
    PROVE  OnesOrNones(s) \in Seq(Seq(Seq(S))) /\ Len(OnesOrNones(s)) = Len(s)
<1>1. DOMAIN s = 1 .. Len(s) /\ Len(s) \in Nat /\ \A i \in 1 .. Len(s) : s[i] \in Seq(S)
    BY LenProperties
<1>2. \A i \in 1 .. Len(s) : OneOrNone(s[i]) \in Seq(Seq(S))
    BY <1>1, OneOrNoneTypes
<1>3. OnesOrNones(s) = [i \in 1 .. Len(s) |-> OneOrNone(s[i])]
    BY <1>1 DEF OnesOrNones
<1>4. OnesOrNones(s) \in [1 .. Len(s) -> Seq(Seq(S))]
    BY <1>2, <1>3
<1> QED
    BY <1>1, <1>4, SeqDef, LenProperties

LEMMA NonBlankEmpty == NonBlank(<<>>) = <<>>
<1>1. <<>> \in Seq(Seq({}))
    BY EmptySeq
<1>2. OnesOrNones(<<>>) \in Seq(Seq(Seq({}))) /\ Len(OnesOrNones(<<>>)) = 0
    BY <1>1, OnesOrNonesTypes, EmptySeq
<1>3. OnesOrNones(<<>>) = <<>>
    BY <1>2, EmptySeq
<1> QED
    BY <1>3, NonBlankIs, FlattenEmpty

LEMMA NonBlankTypes ==
    ASSUME NEW S, NEW s \in Seq(Seq(S))
    PROVE  NonBlank(s) \in Seq(Seq(S))
    BY OnesOrNonesTypes, NonBlankIs, FlattenTypes

LEMMA NonBlankAppend ==
    ASSUME NEW S, NEW s \in Seq(Seq(S)), NEW x \in Seq(S)
    PROVE  NonBlank(Append(s, x)) = IF x = <<>> THEN NonBlank(s) ELSE Append(NonBlank(s), x)
<1> DEFINE t == Append(s, x)
           u == Append(OnesOrNones(s), OneOrNone(x))
<1>1. /\ t \in Seq(Seq(S)) /\ DOMAIN s = 1 .. Len(s) /\ DOMAIN t = 1 .. Len(t)
      /\ Len(t) = Len(s) + 1 /\ Len(s) \in Nat
      /\ \A i \in 1 .. Len(s) : t[i] = s[i]
      /\ t[Len(s) + 1] = x
    BY AppendProperties, LenProperties
<1>2. OneOrNone(x) \in Seq(Seq(S)) /\ OnesOrNones(s) \in Seq(Seq(Seq(S)))
      /\ Len(OnesOrNones(s)) = Len(s)
    BY OneOrNoneTypes, OnesOrNonesTypes
<1>3. /\ u \in Seq(Seq(Seq(S))) /\ Len(u) = Len(s) + 1
      /\ \A i \in 1 .. Len(s) : u[i] = OnesOrNones(s)[i]
      /\ u[Len(s) + 1] = OneOrNone(x)
    BY <1>2, AppendProperties
<1> HIDE DEF t, u
<1>4. OnesOrNones(t) \in Seq(Seq(Seq(S))) /\ Len(OnesOrNones(t)) = Len(s) + 1
    BY <1>1, OnesOrNonesTypes
<1>5. ASSUME NEW i \in 1 .. Len(s) + 1
      PROVE  OnesOrNones(t)[i] = u[i]
    <2>1. OnesOrNones(t)[i] = OneOrNone(t[i])
        BY <1>1 DEF OnesOrNones
    <2>2. CASE i \in 1 .. Len(s)
        <3>1. OnesOrNones(s)[i] = OneOrNone(s[i])
            BY <1>1, <2>2 DEF OnesOrNones
        <3> QED
            BY <1>1, <1>3, <2>1, <2>2, <3>1
    <2>3. CASE i = Len(s) + 1
        BY <1>1, <1>3, <2>1, <2>3
    <2> QED
        BY <1>1, <2>2, <2>3
<1>6. OnesOrNones(t) = u
    BY <1>3, <1>4, <1>5, SeqEqual
<1>7. NonBlank(t) = NonBlank(s) \o OneOrNone(x)
    BY <1>2, <1>6, NonBlankIs, FlattenAppend DEF u
<1>8. NonBlank(s) \in Seq(Seq(S))
    BY NonBlankTypes
<1>9. CASE x = <<>>
    BY <1>7, <1>8, <1>9, ConcatEmptySeq DEF t, OneOrNone
<1>10. CASE x # <<>>
    <2>1. NonBlank(s) \o <<x>> = Append(NonBlank(s), x)
        BY <1>8, AppendIsConcat
    <2> QED
        BY <1>7, <1>10, <2>1 DEF t, OneOrNone
<1> QED
    BY <1>9, <1>10

(* It leaves out what is blank, and nothing else.                          *)
LEMMA NonBlankElements ==
    ASSUME NEW S, NEW s \in Seq(Seq(S))
    PROVE  ToSet(NonBlank(s)) = ToSet(s) \ {<<>>}
<1> DEFINE T == {t \in Seq(Seq(S)) : ToSet(NonBlank(t)) = ToSet(t) \ {<<>>}}
<1>1. <<>> \in T
    <2>1. ToSet(<<>>) = {}
        BY DEF ToSet
    <2> QED
        BY <2>1, EmptySeq, NonBlankEmpty
<1>2. ASSUME NEW t \in Seq(Seq(S)), NEW x \in Seq(S), t \in T
      PROVE  Append(t, x) \in T
    <2>1. Append(t, x) \in Seq(Seq(S)) /\ NonBlank(t) \in Seq(Seq(S))
        BY AppendProperties, NonBlankTypes
    <2>2. ToSet(Append(t, x)) = ToSet(t) \union {x}
        BY ToSetAppend
    <2>3. ToSet(Append(NonBlank(t), x)) = ToSet(NonBlank(t)) \union {x}
        BY <2>1, ToSetAppend
    <2>4. NonBlank(Append(t, x)) = IF x = <<>> THEN NonBlank(t) ELSE Append(NonBlank(t), x)
        BY NonBlankAppend
    <2>5. CASE x = <<>>
        BY <1>2, <2>1, <2>2, <2>4, <2>5
    <2>6. CASE x # <<>>
        BY <1>2, <2>1, <2>2, <2>3, <2>4, <2>6
    <2> QED
        BY <2>5, <2>6
<1> HIDE DEF T
<1>3. Seq(Seq(S)) \subseteq T
    BY <1>1, <1>2, SeqSetInduction
<1> QED
    BY <1>3 DEF T

LEMMA NonBlankKeeps ==
    ASSUME NEW S, NEW s \in Seq(Seq(S)), <<>> \notin ToSet(s)
    PROVE  NonBlank(s) = s
<1> DEFINE T == {t \in Seq(Seq(S)) : <<>> \notin ToSet(t) => NonBlank(t) = t}
<1>1. <<>> \in T
    BY EmptySeq, NonBlankEmpty
<1>2. ASSUME NEW t \in Seq(Seq(S)), NEW x \in Seq(S), t \in T
      PROVE  Append(t, x) \in T
    <2>1. Append(t, x) \in Seq(Seq(S))
        BY AppendProperties
    <2>2. ToSet(Append(t, x)) = ToSet(t) \union {x}
        BY ToSetAppend
    <2>3. NonBlank(Append(t, x)) = IF x = <<>> THEN NonBlank(t) ELSE Append(NonBlank(t), x)
        BY NonBlankAppend
    <2> QED
        BY <1>2, <2>1, <2>2, <2>3
<1> HIDE DEF T
<1>3. Seq(Seq(S)) \subseteq T
    BY <1>1, <1>2, SeqSetInduction
<1> QED
    BY <1>3 DEF T

-------------------------------------------------------------------------------
(* Trimming *)

(* Nothing is written, or the text is cut at its first and last such line. *)
LEMMA TrimIs ==
    ASSUME NEW S, NEW text \in Seq(Seq(S))
    PROVE  \/ ToSet(text) \subseteq {<<>>} /\ Trim(text) = <<>>
           \/ \E m, n \in 1 .. Len(text) :
                 /\ m <= n /\ text[m] # <<>> /\ text[n] # <<>>
                 /\ \A i \in 1 .. Len(text) : text[i] # <<>> => m <= i /\ i <= n
                 /\ Trim(text) = SubSeq(text, m, n)
<1> DEFINE written == {i \in DOMAIN text : text[i] # <<>>}
<1>1. DOMAIN text = 1 .. Len(text) /\ Len(text) \in Nat
    BY LenProperties
<1>2. Trim(text) = IF written = {} THEN <<>> ELSE SubSeq(text, Min(written), Max(written))
    BY DEF Trim, Empty, Blank
<1>3. CASE written = {}
    BY <1>2, <1>3 DEF ToSet
<1>4. CASE written # {}
    <2>1. written \in SUBSET (1 .. Len(text))
        BY <1>1
    <2>2. /\ Min(written) \in written /\ \A y \in written : Min(written) <= y
          /\ Max(written) \in written /\ \A y \in written : Max(written) >= y
        <3> HIDE DEF written
        <3> QED
            BY <1>1, <1>4, <2>1, MinOfPositions, MaxOfPositions
    <2> DEFINE m == Min(written)
               n == Max(written)
    <2>3. m \in 1 .. Len(text) /\ n \in 1 .. Len(text) /\ text[m] # <<>> /\ text[n] # <<>>
        BY <1>1, <2>2
    <2>4. \A i \in 1 .. Len(text) : text[i] # <<>> => m <= i /\ i <= n
        <3>1. SUFFICES ASSUME NEW i \in 1 .. Len(text), text[i] # <<>>
                       PROVE  m <= i /\ i <= n
            OBVIOUS
        <3>2. i \in written
            BY <1>1, <3>1
        <3>3. m <= i /\ n >= i
            BY <2>2, <3>2
        <3> HIDE DEF m, n
        <3> QED
            BY <2>3, <3>3
    <2>5. Trim(text) = SubSeq(text, m, n)
        BY <1>2, <1>4
    <2> HIDE DEF m, n
    <2>6. m <= n
        BY <2>3, <2>4
    <2> QED
        BY <2>3, <2>4, <2>5, <2>6
<1> QED
    BY <1>3, <1>4

LEMMA TrimTypes ==
    ASSUME NEW S, NEW text \in Seq(Seq(S))
    PROVE  Trim(text) \in Seq(Seq(S))
<1>1. CASE Trim(text) = <<>>
    BY <1>1, EmptySeq
<1>2. ASSUME NEW m \in 1 .. Len(text), NEW n \in 1 .. Len(text), Trim(text) = SubSeq(text, m, n)
      PROVE  Trim(text) \in Seq(Seq(S))
    <2>1. \A i \in m .. n : text[i] \in Seq(S)
        BY LenProperties
    <2> QED
        BY <1>2, <2>1, SubSeqProperties
<1> QED
    BY <1>1, <1>2, TrimIs

(* What is trimmed away is blank.                                          *)
LEMMA TrimElements ==
    ASSUME NEW S, NEW text \in Seq(Seq(S))
    PROVE  /\ ToSet(Trim(text)) \subseteq ToSet(text)
           /\ ToSet(text) \subseteq ToSet(Trim(text)) \union {<<>>}
<1>1. DOMAIN text = 1 .. Len(text) /\ Len(text) \in Nat /\ \A i \in 1 .. Len(text) : text[i] \in Seq(S)
    BY LenProperties
<1>2. CASE ToSet(text) \subseteq {<<>>} /\ Trim(text) = <<>>
    <2>1. ToSet(<<>>) = {}
        BY DEF ToSet
    <2> QED
        BY <1>2, <2>1
<1>3. ASSUME NEW m \in 1 .. Len(text), NEW n \in 1 .. Len(text), m <= n,
             \A i \in 1 .. Len(text) : text[i] # <<>> => m <= i /\ i <= n,
             Trim(text) = SubSeq(text, m, n)
      PROVE  ToSet(Trim(text)) \subseteq ToSet(text)
             /\ ToSet(text) \subseteq ToSet(Trim(text)) \union {<<>>}
    <2> DEFINE t == Trim(text)
    <2>1. \A i \in m .. n : text[i] \in Seq(S)
        BY <1>1
    <2>2. /\ t \in Seq(Seq(S)) /\ Len(t) = n - m + 1
          /\ \A i \in 1 .. n - m + 1 : t[i] = text[m + i - 1]
        BY <1>1, <1>3, <2>1, SubSeqProperties
    <2>3. DOMAIN t = 1 .. n - m + 1
        BY <2>2, LenProperties
    <2> HIDE DEF t
    <2>4. \A i \in 1 .. n - m + 1 : m + i - 1 \in 1 .. Len(text)
        BY <1>1, <1>3
    <2>5. ToSet(t) \subseteq ToSet(text)
        BY <1>1, <2>2, <2>3, <2>4 DEF ToSet
    <2>6. ASSUME NEW i \in 1 .. Len(text), text[i] # <<>>
          PROVE  text[i] \in ToSet(t)
        <3>1. i - m + 1 \in 1 .. n - m + 1 /\ m + (i - m + 1) - 1 = i
            BY <1>1, <1>3, <2>6
        <3>2. t[i - m + 1] = text[i]
            BY <2>2, <3>1
        <3> QED
            BY <2>3, <3>1, <3>2 DEF ToSet
    <2>7. ToSet(text) \subseteq ToSet(t) \union {<<>>}
        BY <1>1, <2>6 DEF ToSet
    <2> QED
        BY <2>5, <2>7 DEF t
<1> QED
    BY <1>2, <1>3, TrimIs

LEMMA TrimNothing ==
    ASSUME NEW S, NEW text \in Seq(Seq(S))
    PROVE  Trim(text) = <<>> <=> ToSet(text) \subseteq {<<>>}
<1>1. Trim(text) = <<>> => ToSet(text) \subseteq {<<>>}
    <2>1. ToSet(<<>>) = {}
        BY DEF ToSet
    <2> QED
        BY <2>1, TrimElements
<1>2. ASSUME ToSet(text) \subseteq {<<>>}
      PROVE  Trim(text) = <<>>
    <2>1. \A i \in 1 .. Len(text) : text[i] = <<>>
        BY <1>2, LenProperties DEF ToSet
    <2> QED
        BY <2>1, TrimIs
<1> QED
    BY <1>1, <1>2

LEMMA TrimKeeps ==
    ASSUME NEW S, NEW text \in Seq(Seq(S)), text # <<>>,
           text[1] # <<>>, text[Len(text)] # <<>>
    PROVE  Trim(text) = text
<1>1. Len(text) \in Nat \ {0} /\ DOMAIN text = 1 .. Len(text)
    BY EmptySeq, LenProperties
<1>2. 1 \in 1 .. Len(text) /\ Len(text) \in 1 .. Len(text)
    BY <1>1
<1>3. ~ (ToSet(text) \subseteq {<<>>})
    BY <1>1, <1>2 DEF ToSet
<1>4. PICK m, n \in 1 .. Len(text) :
          /\ \A i \in 1 .. Len(text) : text[i] # <<>> => m <= i /\ i <= n
          /\ Trim(text) = SubSeq(text, m, n)
    BY <1>3, TrimIs
<1>5. m = 1 /\ n = Len(text)
    <2>1. m <= 1 /\ Len(text) <= n
        BY <1>2, <1>4
    <2>2. m \in Int /\ n \in Int /\ Len(text) \in Int /\ 1 <= m /\ n <= Len(text)
        BY <1>1
    <2>3. m = 1
        BY <2>1, <2>2
    <2>4. n = Len(text)
        BY <2>1, <2>2
    <2> QED
        BY <2>3, <2>4
<1> QED
    BY <1>4, <1>5, SubSeqFull

LEMMA TrimTwice ==
    ASSUME NEW S, NEW text \in Seq(Seq(S))
    PROVE  Trim(Trim(text)) = Trim(text)
<1>1. CASE Trim(text) = <<>>
    <2>1. ToSet(<<>>) = {} /\ <<>> \in Seq(Seq(S))
        BY EmptySeq DEF ToSet
    <2> QED
        BY <1>1, <2>1, TrimNothing
<1>2. ASSUME NEW m \in 1 .. Len(text), NEW n \in 1 .. Len(text), m <= n,
             text[m] # <<>>, text[n] # <<>>, Trim(text) = SubSeq(text, m, n)
      PROVE  Trim(Trim(text)) = Trim(text)
    <2> DEFINE t == Trim(text)
    <2>1. \A i \in m .. n : text[i] \in Seq(S)
        BY LenProperties
    <2>2. /\ t \in Seq(Seq(S)) /\ Len(t) = n - m + 1
          /\ \A i \in 1 .. n - m + 1 : t[i] = text[m + i - 1]
        BY <1>2, <2>1, LenProperties, SubSeqProperties
    <2> HIDE DEF t
    <2>3. 1 \in 1 .. n - m + 1 /\ n - m + 1 \in 1 .. n - m + 1 /\ n - m + 1 # 0
        BY <1>2, LenProperties
    <2>4. t[1] = text[m + 1 - 1] /\ t[n - m + 1] = text[m + (n - m + 1) - 1]
        BY <2>2, <2>3
    <2>5. m + 1 - 1 = m /\ m + (n - m + 1) - 1 = n
        BY LenProperties
    <2>6. t # <<>>
        BY <2>2, <2>3, EmptySeq
    <2>7. Trim(t) = t
        BY <1>2, <2>2, <2>4, <2>5, <2>6, TrimKeeps
    <2> QED
        BY <2>7 DEF t
<1> QED
    BY <1>1, <1>2, TrimIs

LEMMA TrimOne ==
    ASSUME NEW S, NEW x \in Seq(S)
    PROVE  Trim(<<x>>) = OneOrNone(x)
<1>1. <<x>> \in Seq(Seq(S)) /\ Len(<<x>>) = 1 /\ <<x>>[1] = x /\ <<x>> # <<>> /\ ToSet(<<x>>) = {x}
    BY DEF ToSet
<1>2. CASE x = <<>>
    BY <1>1, <1>2, TrimNothing DEF OneOrNone
<1>3. CASE x # <<>>
    BY <1>1, <1>3, TrimKeeps DEF OneOrNone
<1> QED
    BY <1>2, <1>3

-------------------------------------------------------------------------------
(* What a brief is made of *)

(* What trim leaves of a text that is not blank.                           *)
Cut(text) == text \in Text /\ text # Empty /\ Trim(text) = text

IsBrief(r) ==
    /\ r.title # Absent => Cut(r.title)
    /\ Cut(r.summary) /\ Cut(r.restatement) /\ Cut(r.goal)
    /\ \A f \in ListFields :
          r.lists[f] \in Seq(Text) /\ \A i \in DOMAIN r.lists[f] : Cut(r.lists[f][i])

LEMMA TrimIsCut ==
    ASSUME NEW text \in Text
    PROVE  Trim(text) = Empty \/ Cut(Trim(text))
    BY TrimTypes, TrimTwice DEF Cut, Text

LEMMA CutIsGiven ==
    ASSUME NEW text, Cut(text)
    PROVE  text \in Text /\ text # Absent /\ text # Empty /\ ~ (ToSet(text) \subseteq {<<>>})
    BY BriefAssumption, TrimNothing DEF Cut, Text, Empty

LEMMA BriefParses ==
    ASSUME NEW r, IsBrief(r)
    PROVE  Parses(r)
<1>1. \A text \in {r.summary, r.restatement, r.goal} : text \notin {Absent, Empty}
    BY CutIsGiven DEF IsBrief
<1> QED
    BY <1>1 DEF Parses

LEMMA FirstTextIsCut ==
    ASSUME NEW n \in Nat, NEW values, DOMAIN values = 1 .. n,
           \A i \in 1 .. n : values[i] # Absent => values[i] \in Text
    PROVE  FirstText(values) = Absent \/ Cut(FirstText(values))
<1> DEFINE given == {i \in DOMAIN values : values[i] # Absent /\ Trim(values[i]) # Empty}
<1>1. FirstText(values) = IF given = {} THEN Absent ELSE Trim(values[Min(given)])
    BY DEF FirstText
<1>2. CASE given = {}
    BY <1>1, <1>2
<1>3. CASE given # {}
    <2>1. given \in SUBSET (1 .. n)
        OBVIOUS
    <2>2. Min(given) \in given
        <3> HIDE DEF given
        <3> QED
            BY <1>3, <2>1, MinOfPositions
    <2>3. values[Min(given)] \in Text /\ Trim(values[Min(given)]) # Empty
        BY <2>2
    <2> QED
        BY <1>1, <1>3, <2>3, TrimIsCut
<1> QED
    BY <1>2, <1>3

LEMMA AsStringArrayIsCut ==
    ASSUME NEW value, value # Absent => value \in Seq(Text)
    PROVE  AsStringArray(value) \in Seq(Text)
           /\ \A i \in DOMAIN AsStringArray(value) : Cut(AsStringArray(value)[i])
<1>1. CASE value = Absent
    BY <1>1, EmptySeq DEF AsStringArray
<1>2. CASE value # Absent
    <2> DEFINE trimmed == [i \in DOMAIN value |-> Trim(value[i])]
               kept == NonBlank(trimmed)
    <2>1. AsStringArray(value) = kept
        BY <1>2 DEF AsStringArray
    <2>2. DOMAIN value = 1 .. Len(value) /\ Len(value) \in Nat
          /\ \A i \in 1 .. Len(value) : value[i] \in Text
        BY <1>2, LenProperties
    <2>3. trimmed \in [1 .. Len(value) -> Text]
        BY <2>2, TrimTypes DEF Text
    <2>4. trimmed \in Seq(Text)
        BY <2>2, <2>3, SeqDef
    <2>5. \A x \in ToSet(trimmed) : x = <<>> \/ Cut(x)
        BY <2>2, TrimIsCut DEF ToSet, Empty
    <2> HIDE DEF trimmed
    <2>6. kept \in Seq(Text) /\ ToSet(kept) = ToSet(trimmed) \ {<<>>}
        BY <2>4, NonBlankTypes, NonBlankElements DEF Text
    <2> HIDE DEF kept
    <2>7. \A i \in DOMAIN kept : kept[i] \in ToSet(kept)
        BY DEF ToSet
    <2> QED
        BY <2>1, <2>5, <2>6, <2>7
<1> QED
    BY <1>1, <1>2

(* What the schema accepts of the reflector is trimmed and not blank.      *)
LEMMA CoercedIsBrief ==
    ASSUME NEW raw \in Answer, Parses(CoerceReflectOutput(raw))
    PROVE  IsBrief(CoerceReflectOutput(raw))
<1> DEFINE r == CoerceReflectOutput(raw)
<1>1. \A text \in {raw.proposedTitle, raw.title, raw.summary, raw.restatement, raw.brief,
                   raw.goal} : text # Absent => text \in Text
    BY BriefAssumption
<1>2. r = [title |-> FirstText(<<raw.proposedTitle, raw.title>>),
           summary |-> FirstText(<<raw.summary>>),
           restatement |-> FirstText(<<raw.restatement, raw.brief>>),
           goal |-> FirstText(<<raw.goal>>),
           lists |-> [f \in ListFields |-> AsStringArray(raw.lists[f])]]
    BY DEF CoerceReflectOutput
<1> HIDE DEF r
<1>3. \A v, w : /\ v # Absent => v \in Text
                /\ w # Absent => w \in Text
                => FirstText(<<v, w>>) = Absent \/ Cut(FirstText(<<v, w>>))
    <2>1. SUFFICES ASSUME NEW v, NEW w, v # Absent => v \in Text, w # Absent => w \in Text
                   PROVE  FirstText(<<v, w>>) = Absent \/ Cut(FirstText(<<v, w>>))
        OBVIOUS
    <2> DEFINE values == <<v, w>>
    <2>2. 2 \in Nat /\ DOMAIN values = 1 .. 2 /\ \A i \in 1 .. 2 : values[i] \in {v, w}
        OBVIOUS
    <2> HIDE DEF values
    <2>3. FirstText(values) = Absent \/ Cut(FirstText(values))
        BY <2>1, <2>2, FirstTextIsCut
    <2> QED
        BY <2>3 DEF values
<1>4. \A v : (v # Absent => v \in Text) => FirstText(<<v>>) = Absent \/ Cut(FirstText(<<v>>))
    <2>1. SUFFICES ASSUME NEW v, v # Absent => v \in Text
                   PROVE  FirstText(<<v>>) = Absent \/ Cut(FirstText(<<v>>))
        OBVIOUS
    <2> DEFINE values == <<v>>
    <2>2. 1 \in Nat /\ DOMAIN values = 1 .. 1 /\ \A i \in 1 .. 1 : values[i] = v
        OBVIOUS
    <2> HIDE DEF values
    <2>3. FirstText(values) = Absent \/ Cut(FirstText(values))
        BY <2>1, <2>2, FirstTextIsCut
    <2> QED
        BY <2>3 DEF values
<1>5. r.title # Absent => Cut(r.title)
    BY <1>1, <1>2, <1>3
<1>6. r.summary # Absent /\ r.restatement # Absent /\ r.goal # Absent
    BY DEF Parses, r
<1>7. Cut(r.summary) /\ Cut(r.restatement) /\ Cut(r.goal)
    BY <1>1, <1>2, <1>3, <1>4, <1>6
<1>8. ASSUME NEW f \in ListFields
      PROVE  r.lists[f] \in Seq(Text) /\ \A i \in DOMAIN r.lists[f] : Cut(r.lists[f][i])
    <2>1. r.lists[f] = AsStringArray(raw.lists[f])
        BY <1>2
    <2>2. raw.lists[f] # Absent => raw.lists[f] \in Seq(Text)
        BY BriefAssumption
    <2> QED
        BY <2>1, <2>2, AsStringArrayIsCut
<1>9. IsBrief(r)
    BY <1>5, <1>7, <1>8 DEF IsBrief
<1> QED
    BY <1>9 DEF r

-------------------------------------------------------------------------------
(* Editing a brief *)

Entries(lines) == [i \in DOMAIN lines |-> <<lines[i]>>]

(* The lines of a field, one entry each, are what the field said.          *)
LEMMA EntriesAre ==
    ASSUME NEW lines \in Text, <<>> \notin ToSet(lines)
    PROVE  /\ Entries(lines) \in Seq(Text)
           /\ \A i \in DOMAIN Entries(lines) : Cut(Entries(lines)[i])
           /\ FlattenSeq(Entries(lines)) = lines
<1>1. DOMAIN lines = 1 .. Len(lines) /\ Len(lines) \in Nat
      /\ \A i \in 1 .. Len(lines) : lines[i] \in Seq(Word)
    BY LenProperties DEF Text
<1>2. \A i \in 1 .. Len(lines) : lines[i] # <<>>
    BY <1>1 DEF ToSet
<1>3. \A i \in 1 .. Len(lines) : <<lines[i]>> = OneOrNone(lines[i])
    BY <1>2 DEF OneOrNone
<1>4. ASSUME NEW i \in 1 .. Len(lines)
      PROVE  Cut(<<lines[i]>>)
    <2>1. <<lines[i]>> \in Text /\ <<lines[i]>> # <<>>
        BY <1>1 DEF Text
    <2>2. Trim(<<lines[i]>>) = <<lines[i]>>
        BY <1>1, <1>3, TrimOne
    <2> QED
        BY <2>1, <2>2 DEF Cut, Empty
<1>5. Entries(lines) \in [1 .. Len(lines) -> Text]
    BY <1>1, <1>4 DEF Entries, Cut
<1>6. Entries(lines) \in Seq(Text)
    BY <1>1, <1>5, SeqDef
<1>7. \A i \in DOMAIN Entries(lines) : Cut(Entries(lines)[i])
    BY <1>1, <1>4 DEF Entries
<1>8. Entries(lines) = OnesOrNones(lines)
    BY <1>1, <1>3 DEF Entries, OnesOrNones
<1>9. FlattenSeq(Entries(lines)) = lines
    BY <1>8, NonBlankIs, NonBlankKeeps DEF Text
<1> QED
    BY <1>6, <1>7, <1>9

LEMMA LinesOfText ==
    ASSUME NEW text \in Text
    PROVE  /\ NonBlank(text) \in Text /\ <<>> \notin ToSet(NonBlank(text))
           /\ NonBlank(NonBlank(text)) = NonBlank(text)
<1>1. NonBlank(text) \in Text /\ <<>> \notin ToSet(NonBlank(text))
    BY NonBlankTypes, NonBlankElements DEF Text
<1> QED
    BY <1>1, NonBlankKeeps DEF Text

LEMMA ListFieldIs ==
    ASSUME NEW answers, NEW f, NEW fallback
    PROVE  ListField(answers, f, fallback)
             = IF f \in DOMAIN answers THEN Entries(NonBlank(answers[f])) ELSE fallback
    BY DEF ListField, Entries

(* An edited brief is one: the schema does not throw.                      *)
LEMMA EditedIsBrief ==
    ASSUME NEW base, IsBrief(base), NEW answers, \A k \in DOMAIN answers : answers[k] \in Text
    PROVE  IsBrief(ApplyReflectEdits(base, answers))
<1> DEFINE r == ApplyReflectEdits(base, answers)
           raw == KeepText(answers, "restatement", Empty)
           goal == KeepText(answers, "goal", base.goal)
           summary == KeepText(answers, "summary", base.summary)
           title == KeepText(answers, "proposedTitle", base.title)
           restatement == Restatement(base, answers)
<1>1. /\ r.title = (IF title = Empty THEN Absent ELSE title)
      /\ r.summary = OrElse(summary, restatement)
      /\ r.restatement = restatement
      /\ r.goal = OrElse(goal, restatement)
      /\ \A f \in ListFields : r.lists[f] = ListField(answers, f, base.lists[f])
    BY DEF ApplyReflectEdits, EditedGoal
<1>2. restatement = IF raw \in {Empty, Said("yes"), Said("y")} THEN base.restatement ELSE raw
    BY DEF Restatement
<1>3. \A k, t : KeepText(answers, k, t) = IF k \in DOMAIN answers THEN Trim(answers[k]) ELSE t
    BY DEF KeepText
<1>4. \A k, t : \/ KeepText(answers, k, t) = t
                \/ KeepText(answers, k, t) = Empty
                \/ Cut(KeepText(answers, k, t))
    BY <1>3, TrimIsCut
<1>5. raw = Empty \/ Cut(raw)
    BY <1>4
<1>6. goal = Empty \/ Cut(goal)
    BY <1>4 DEF IsBrief
<1>7. summary = Empty \/ Cut(summary)
    BY <1>4 DEF IsBrief
<1>8. title = Absent \/ title = Empty \/ Cut(title)
    BY <1>4 DEF IsBrief
<1> HIDE DEF r, raw, goal, summary, title, restatement
<1>9. Cut(restatement)
    BY <1>2, <1>5 DEF IsBrief
<1>10. Cut(r.restatement) /\ Cut(r.goal) /\ Cut(r.summary) /\ (r.title # Absent => Cut(r.title))
    BY <1>1, <1>6, <1>7, <1>8, <1>9 DEF OrElse
<1>11. ASSUME NEW f \in ListFields
       PROVE  r.lists[f] \in Seq(Text) /\ \A i \in DOMAIN r.lists[f] : Cut(r.lists[f][i])
    <2>1. CASE f \in DOMAIN answers
        <3>1. NonBlank(answers[f]) \in Text /\ <<>> \notin ToSet(NonBlank(answers[f]))
            BY <2>1, LinesOfText
        <3>2. r.lists[f] = Entries(NonBlank(answers[f]))
            BY <1>1, <2>1, ListFieldIs
        <3> QED
            BY <3>1, <3>2, EntriesAre
    <2>2. CASE f \notin DOMAIN answers
        BY <1>1, <2>2, ListFieldIs DEF IsBrief
    <2> QED
        BY <2>1, <2>2
<1>12. IsBrief(r)
    BY <1>10, <1>11 DEF IsBrief
<1> QED
    BY <1>12 DEF r

-------------------------------------------------------------------------------
(* The form *)

Forms == [title : Seq(Word), restatement : Text, goal : Text,
          lists : [ListFields -> Text], notes : Text]

LEMMA LineTypes ==
    ASSUME NEW text \in Text
    PROVE  Line(text) \in Seq(Word)
    BY FlattenTypes DEF Line, Text

LEMMA BlankTypes == Blank \in Seq(Word) /\ Empty \in Text /\ <<Blank>> \in Text
    BY EmptySeq DEF Blank, Empty, Text

LEMMA ShownIsForm ==
    ASSUME NEW r, IsBrief(r)
    PROVE  /\ Shown(r) \in Forms
           /\ Shown(r).title = (IF r.title = Absent THEN Blank ELSE Line(r.title))
           /\ Shown(r).restatement = r.restatement
           /\ Shown(r).goal = r.goal
           /\ \A f \in ListFields :
                 NonBlank(Shown(r).lists[f]) = NonBlank(FlattenSeq(r.lists[f]))
<1>1. Shown(r) = [title |-> IF r.title = Absent THEN Blank ELSE Line(r.title),
                  restatement |-> r.restatement, goal |-> r.goal,
                  lists |-> [f \in ListFields |-> EntriesOf(r.lists[f])], notes |-> Empty]
    BY DEF Shown
<1>2. (IF r.title = Absent THEN Blank ELSE Line(r.title)) \in Seq(Word)
    BY BlankTypes, LineTypes DEF IsBrief, Cut
<1>3. r.restatement \in Text /\ r.goal \in Text
    BY DEF IsBrief, Cut
<1>4. ASSUME NEW f \in ListFields
      PROVE  EntriesOf(r.lists[f]) \in Text
             /\ NonBlank(EntriesOf(r.lists[f])) = NonBlank(FlattenSeq(r.lists[f]))
    <2>1. r.lists[f] \in Seq(Text)
        BY DEF IsBrief
    <2>2. CASE r.lists[f] = <<>>
        <3>1. EntriesOf(r.lists[f]) = Append(<<>>, <<>>) /\ <<>> \in Text /\ <<>> \in Seq(Word)
            BY <2>2, EmptySeq DEF EntriesOf, Blank, Text
        <3>2. NonBlank(Append(<<>>, <<>>)) = NonBlank(<<>>) /\ Append(<<>>, <<>>) \in Text
            BY <3>1, NonBlankAppend, AppendProperties DEF Text
        <3> QED
            BY <2>2, <3>1, <3>2, FlattenEmpty
    <2>3. CASE r.lists[f] # <<>>
        BY <2>1, <2>3, FlattenTypes DEF EntriesOf, Text
    <2> QED
        BY <2>2, <2>3
<1>5. [f \in ListFields |-> EntriesOf(r.lists[f])] \in [ListFields -> Text]
    BY <1>4
<1>6. Shown(r) \in Forms
    BY <1>1, <1>2, <1>3, <1>5, BlankTypes DEF Forms
<1>7. \A f \in ListFields : Shown(r).lists[f] = EntriesOf(r.lists[f])
    BY <1>1
<1> QED
    BY <1>1, <1>4, <1>6, <1>7

(* What the form sends: a field for each of its inputs, and no summary.    *)
LEMMA ReadFormIs ==
    ASSUME NEW shown \in Forms
    PROVE  LET answers == ReadForm(shown)
           IN  /\ \A k \in DOMAIN answers : answers[k] \in Text
               /\ "summary" \notin DOMAIN answers
               /\ {"proposedTitle", "restatement", "goal"} \union ListFields \subseteq DOMAIN answers
               /\ answers["proposedTitle"] = <<shown.title>>
               /\ answers["restatement"] = shown.restatement
               /\ answers["goal"] = shown.goal
               /\ \A f \in ListFields : answers[f] = shown.lists[f]
<1> DEFINE noted == IF Trim(shown.notes) = Empty THEN {} ELSE {"notes"}
           fields == {"proposedTitle", "restatement", "goal"} \union ListFields \union noted
           answers == ReadForm(shown)
<1>1. answers = [field \in fields |->
                    CASE field = "proposedTitle" -> <<shown.title>>
                      [] field = "restatement" -> shown.restatement
                      [] field = "goal" -> shown.goal
                      [] field = "notes" -> Trim(shown.notes)
                      [] field \in ListFields -> shown.lists[field]]
    BY DEF ReadForm
<1>2. \A f \in ListFields : f \notin {"proposedTitle", "restatement", "goal", "notes", "summary"}
    BY BriefAssumption
<1>3. <<shown.title>> \in Text /\ shown.restatement \in Text /\ shown.goal \in Text
      /\ \A f \in ListFields : shown.lists[f] \in Text
    BY DEF Forms, Text
<1>4. Trim(shown.notes) \in Text
    BY TrimTypes DEF Forms, Text
<1>5. DOMAIN answers = fields /\ noted \subseteq {"notes"}
    BY <1>1
<1>6. /\ answers["proposedTitle"] = <<shown.title>>
      /\ answers["restatement"] = shown.restatement
      /\ answers["goal"] = shown.goal
    BY <1>1, <1>2
<1>7. \A f \in ListFields : answers[f] = shown.lists[f]
    BY <1>1, <1>2
<1>8. "notes" \in fields => answers["notes"] = Trim(shown.notes)
    BY <1>1, <1>2
<1> HIDE DEF answers
<1>9. \A k \in DOMAIN answers : answers[k] \in Text
    BY <1>3, <1>4, <1>5, <1>6, <1>7, <1>8
<1>10. "summary" \notin DOMAIN answers
    BY <1>2, <1>5
<1> QED
    BY <1>5, <1>6, <1>7, <1>9, <1>10 DEF answers

(* What becomes of a brief whose form is confirmed.                        *)
LEMMA ConfirmedIs ==
    ASSUME NEW base, IsBrief(base), NEW shown \in Forms
    PROVE  LET r == ApplyReflectEdits(base, ReadForm(shown))
           IN  /\ r.title = (IF shown.title = <<>> THEN Absent ELSE <<shown.title>>)
               /\ r.summary = base.summary
               /\ r.restatement = (IF Trim(shown.restatement) \in {Empty, Said("yes"), Said("y")}
                                   THEN base.restatement ELSE Trim(shown.restatement))
               /\ r.goal = OrElse(Trim(shown.goal), r.restatement)
               /\ \A f \in ListFields : FlattenSeq(r.lists[f]) = NonBlank(shown.lists[f])
<1> DEFINE answers == ReadForm(shown)
           r == ApplyReflectEdits(base, answers)
<1>1. /\ "summary" \notin DOMAIN answers
      /\ {"proposedTitle", "restatement", "goal"} \union ListFields \subseteq DOMAIN answers
      /\ answers["proposedTitle"] = <<shown.title>>
      /\ answers["restatement"] = shown.restatement
      /\ answers["goal"] = shown.goal
      /\ \A f \in ListFields : answers[f] = shown.lists[f]
    BY ReadFormIs
<1> HIDE DEF answers
<1>2. /\ KeepText(answers, "proposedTitle", base.title) = Trim(<<shown.title>>)
      /\ KeepText(answers, "restatement", Empty) = Trim(shown.restatement)
      /\ KeepText(answers, "goal", base.goal) = Trim(shown.goal)
      /\ KeepText(answers, "summary", base.summary) = base.summary
    BY <1>1 DEF KeepText
<1>3. Trim(<<shown.title>>) = OneOrNone(shown.title)
    BY TrimOne DEF Forms
<1>4. /\ r.title = (IF Trim(<<shown.title>>) = Empty THEN Absent ELSE Trim(<<shown.title>>))
      /\ r.summary = OrElse(base.summary, Restatement(base, answers))
      /\ r.restatement = Restatement(base, answers)
      /\ r.goal = OrElse(Trim(shown.goal), Restatement(base, answers))
      /\ \A f \in ListFields : r.lists[f] = ListField(answers, f, base.lists[f])
    BY <1>2 DEF ApplyReflectEdits, EditedGoal
<1>5. Restatement(base, answers) = (IF Trim(shown.restatement) \in {Empty, Said("yes"), Said("y")}
                                    THEN base.restatement ELSE Trim(shown.restatement))
    BY <1>2 DEF Restatement
<1>6. r.title = (IF shown.title = <<>> THEN Absent ELSE <<shown.title>>)
    <2>1. <<shown.title>> # <<>>
        OBVIOUS
    <2>2. r.title = (IF OneOrNone(shown.title) = <<>> THEN Absent ELSE OneOrNone(shown.title))
        BY <1>3, <1>4 DEF Empty
    <2> HIDE DEF r
    <2> QED
        BY <2>1, <2>2 DEF OneOrNone
<1>7. r.summary = base.summary
    BY <1>4 DEF OrElse, IsBrief, Cut
<1>8. ASSUME NEW f \in ListFields
      PROVE  FlattenSeq(r.lists[f]) = NonBlank(shown.lists[f])
    <2>1. shown.lists[f] \in Text
        BY DEF Forms
    <2>2. r.lists[f] = Entries(NonBlank(shown.lists[f]))
        BY <1>1, <1>4, ListFieldIs
    <2> QED
        BY <2>1, <2>2, LinesOfText, EntriesAre
<1> QED
    BY <1>4, <1>5, <1>6, <1>7, <1>8 DEF answers

-------------------------------------------------------------------------------
(* The step *)

(* A field that was not touched says what the brief says.                  *)
FormInv ==
    /\ form \in Forms
    /\ "proposedTitle" \notin touched =>
          form.title = IF reflect.title = Absent THEN Blank ELSE Line(reflect.title)
    /\ "restatement" \notin touched => form.restatement = reflect.restatement
    /\ "goal" \notin touched => form.goal = reflect.goal
    /\ \A f \in ListFields \ touched :
          NonBlank(form.lists[f]) = NonBlank(FlattenSeq(reflect.lists[f]))

(* At the gate the brief is the proposal.                                  *)
GateInv ==
    stage = "brief-gate" => IsBrief(reflect) /\ proposed = reflect /\ ~inForm /\ FormInv

TypesInv ==
    /\ stage \in {"reflect", "brief-gate", "grill", "blocked"}
    /\ edits \in 0 .. MaxEdits /\ inForm \in BOOLEAN /\ touched \subseteq Keys
    /\ reflect # Absent => IsBrief(reflect)
    /\ stage = "reflect" => ~inForm

BriefInv == TypesInv /\ GateInv /\ UntouchedKept /\ ConfirmedAsShown

LEMMA InitBriefInv == Init => BriefInv
<1> SUFFICES ASSUME Init PROVE BriefInv
    OBVIOUS
<1>1. stage = "reflect" /\ reflect = Absent /\ touched = {} /\ edits = 0 /\ inForm = FALSE
    BY DEF Init
<1>2. TypesInv
    <2>1. edits \in 0 .. MaxEdits
        BY <1>1, BriefAssumption
    <2>2. touched \subseteq Keys /\ inForm \in BOOLEAN
        BY <1>1
    <2> QED
        BY <1>1, <2>1, <2>2 DEF TypesInv
<1>3. stage # "brief-gate" /\ stage # "grill"
    BY <1>1
<1> QED
    BY <1>2, <1>3 DEF BriefInv, GateInv, UntouchedKept, ConfirmedAsShown

(* The reflector answers.                                                  *)
LEMMA ReflectedKeeps ==
    ASSUME BriefInv, NEW raw \in Answer, Reflected(raw)
    PROVE  BriefInv'
<1> DEFINE r == CoerceReflectOutput(raw)
<1>1. /\ stage = "reflect" /\ UNCHANGED <<brief, touched, edits, inForm>>
      /\ \/ /\ Parses(r) /\ stage' = "brief-gate" /\ reflect' = r /\ proposed' = r
            /\ form' = Shown(r)
         \/ stage' = "blocked" /\ UNCHANGED <<reflect, proposed, form>>
    BY DEF Reflected
<1>2. TypesInv
    BY DEF BriefInv
<1>3. Parses(r) => IsBrief(r)
    BY CoercedIsBrief
<1> HIDE DEF r
<1>4. TypesInv'
    BY <1>1, <1>2, <1>3 DEF TypesInv
<1>5. ASSUME stage' = "brief-gate"
      PROVE  FormInv'
    <2>1. IsBrief(r) /\ reflect' = r /\ form' = Shown(r)
        BY <1>1, <1>3, <1>5
    <2> QED
        BY <2>1, ShownIsForm DEF FormInv
<1>6. GateInv'
    BY <1>1, <1>2, <1>3, <1>5 DEF GateInv, TypesInv
<1>7. stage' # "grill"
    BY <1>1
<1> QED
    BY <1>4, <1>6, <1>7 DEF BriefInv, UntouchedKept, ConfirmedAsShown

(* The form is changed, and nothing else but its history.                  *)
LEMMA FormChangeKeeps ==
    ASSUME BriefInv, stage = "brief-gate", UNCHANGED <<stage, reflect, brief, proposed, inForm>>,
           edits' \in 0 .. MaxEdits, touched' \subseteq Keys, FormInv'
    PROVE  BriefInv'
<1>1. TypesInv'
    BY DEF BriefInv, TypesInv
<1>2. GateInv'
    BY DEF BriefInv, GateInv
<1> QED
    BY <1>1, <1>2 DEF BriefInv, UntouchedKept, ConfirmedAsShown

LEMMA RemoveAtTypes ==
    ASSUME NEW text \in Text, NEW i \in DOMAIN text
    PROVE  RemoveAt(text, i) \in Text
<1>1. DOMAIN text = 1 .. Len(text) /\ Len(text) \in Nat
      /\ \A j \in 1 .. Len(text) : text[j] \in Seq(Word)
    BY LenProperties DEF Text
<1>2. i \in Int /\ 1 <= i /\ i <= Len(text)
    BY <1>1
<1>3. SubSeq(text, 1, i - 1) \in Seq(Seq(Word))
    <2>1. \A j \in 1 .. i - 1 : text[j] \in Seq(Word)
        BY <1>1, <1>2
    <2> QED
        BY <1>2, <2>1, SubSeqProperties
<1>4. SubSeq(text, i + 1, Len(text)) \in Seq(Seq(Word))
    <2>1. \A j \in i + 1 .. Len(text) : text[j] \in Seq(Word)
        BY <1>1, <1>2
    <2> QED
        BY <1>1, <1>2, <2>1, SubSeqProperties
<1> QED
    BY <1>3, <1>4, ConcatProperties DEF RemoveAt, Text

(* A field of the form is edited.                                          *)
LEMMA EditKeeps ==
    ASSUME BriefInv, Editing, NEW text \in Typed,
           EditTitle(text) \/ EditRestatement(text) \/ EditGoal(text) \/ WriteNotes(text)
    PROVE  BriefInv'
<1>1. /\ stage = "brief-gate" /\ edits < MaxEdits /\ UNCHANGED <<stage, reflect, brief, proposed, inForm>>
      /\ edits' = edits + 1
      /\ \/ form' = [form EXCEPT !.title = Line(text)] /\ touched' = touched \union {"proposedTitle"}
         \/ form' = [form EXCEPT !.restatement = text] /\ touched' = touched \union {"restatement"}
         \/ form' = [form EXCEPT !.goal = text] /\ touched' = touched \union {"goal"}
         \/ form' = [form EXCEPT !.notes = text] /\ touched' = touched \union {"notes"}
    BY DEF Editing, EditTitle, EditRestatement, EditGoal, WriteNotes, Edited
<1>2. FormInv /\ TypesInv
    BY <1>1 DEF BriefInv, GateInv
<1>3. text \in Text /\ Line(text) \in Seq(Word)
    BY BriefAssumption, LineTypes
<1>4. edits' \in 0 .. MaxEdits /\ touched' \subseteq Keys
    BY <1>1, <1>2, BriefAssumption DEF TypesInv, Keys, StructuredKeys
<1>5. FormInv'
    BY <1>1, <1>2, <1>3 DEF FormInv, Forms
<1> QED
    BY <1>1, <1>4, <1>5, FormChangeKeeps

(* An entry of a list is added, edited or removed.                         *)
LEMMA EntryKeeps ==
    ASSUME BriefInv, Editing, NEW f \in ListFields,
           \/ AddEntry(f)
           \/ \E i \in DOMAIN form.lists[f] :
                 RemoveEntry(f, i) \/ \E text \in Typed : EditEntry(f, i, text)
    PROVE  BriefInv'
<1>1. stage = "brief-gate" /\ edits < MaxEdits
    BY DEF Editing
<1>2. FormInv /\ TypesInv
    BY <1>1 DEF BriefInv, GateInv
<1>3. form \in Forms /\ form.lists[f] \in Text
    BY <1>2 DEF FormInv, Forms
<1>4. f \in Keys
    BY DEF Keys, StructuredKeys
<1>5. PICK lines \in Text :
          /\ form' = [form EXCEPT !.lists[f] = lines]
          /\ edits' = edits + 1 /\ UNCHANGED <<stage, reflect, brief, proposed, inForm>>
          /\ \/ touched' = touched /\ NonBlank(lines) = NonBlank(form.lists[f])
             \/ touched' = touched \union {f}
    <2>1. CASE AddEntry(f)
        <3> DEFINE added == Append(form.lists[f], Blank)
        <3>1. form' = [form EXCEPT !.lists[f] = added]
            BY <2>1, <1>3 DEF AddEntry, Forms
        <3>2. added \in Text /\ NonBlank(added) = NonBlank(form.lists[f])
            BY <1>3, EmptySeq, AppendProperties, NonBlankAppend DEF Text, Blank
        <3> HIDE DEF added
        <3> QED
            BY <2>1, <3>1, <3>2 DEF AddEntry
    <2>2. ASSUME NEW i \in DOMAIN form.lists[f], RemoveEntry(f, i)
          PROVE  /\ form' = [form EXCEPT !.lists[f] = RemoveAt(form.lists[f], i)]
                 /\ RemoveAt(form.lists[f], i) \in Text
                 /\ edits' = edits + 1 /\ UNCHANGED <<stage, reflect, brief, proposed, inForm>>
                 /\ touched' = touched \union {f}
        <3>1. RemoveAt(form.lists[f], i) \in Text
            BY <1>3, RemoveAtTypes
        <3>2. form' = [form EXCEPT !.lists[f] = RemoveAt(form.lists[f], i)]
            BY <1>3, <2>2 DEF RemoveEntry, Edited, Forms
        <3> QED
            BY <2>2, <3>1, <3>2 DEF RemoveEntry, Edited
    <2>3. ASSUME NEW i \in DOMAIN form.lists[f], NEW text \in Typed, EditEntry(f, i, text)
          PROVE  /\ form' = [form EXCEPT !.lists[f] = [form.lists[f] EXCEPT ![i] = Line(text)]]
                 /\ [form.lists[f] EXCEPT ![i] = Line(text)] \in Text
                 /\ edits' = edits + 1 /\ UNCHANGED <<stage, reflect, brief, proposed, inForm>>
                 /\ touched' = touched \union {f}
        <3>1. Line(text) \in Seq(Word)
            BY BriefAssumption, LineTypes
        <3>2. [form.lists[f] EXCEPT ![i] = Line(text)] \in Text
            BY <1>3, <3>1, LenProperties, ExceptSeq DEF Text
        <3>3. form' = [form EXCEPT !.lists[f] = [form.lists[f] EXCEPT ![i] = Line(text)]]
            BY <1>3, <2>3 DEF EditEntry, Edited, Forms
        <3> QED
            BY <2>3, <3>2, <3>3 DEF EditEntry, Edited
    <2> QED
        BY <2>1, <2>2, <2>3
<1>6. edits' \in 0 .. MaxEdits /\ touched' \subseteq Keys
    BY <1>1, <1>2, <1>4, <1>5, BriefAssumption DEF TypesInv
<1>7. /\ form' \in Forms
      /\ form'.title = form.title /\ form'.restatement = form.restatement
      /\ form'.goal = form.goal
      /\ \A g \in ListFields : form'.lists[g] = IF g = f THEN lines ELSE form.lists[g]
    BY <1>3, <1>5 DEF Forms
<1>8. reflect' = reflect
    BY <1>5
<1>9. FormInv'
    BY <1>2, <1>5, <1>7, <1>8 DEF FormInv
<1> QED
    BY <1>1, <1>5, <1>6, <1>9, FormChangeKeeps

LEMMA RerenderKeeps ==
    ASSUME BriefInv, Rerender
    PROVE  BriefInv'
<1>1. /\ stage = "brief-gate" /\ form' = Shown(reflect) /\ touched' = {}
      /\ UNCHANGED <<stage, reflect, brief, proposed, edits, inForm>>
    BY DEF Rerender
<1>2. IsBrief(reflect) /\ edits \in 0 .. MaxEdits
    BY <1>1 DEF BriefInv, GateInv, TypesInv
<1>3. FormInv'
    BY <1>1, <1>2, ShownIsForm DEF FormInv
<1> QED
    BY <1>1, <1>2, <1>3, FormChangeKeeps

(* The gate is answered, by the form or by another client: what the step   *)
(* makes of it is a brief or leaves the proposal.                          *)
LEMMA OnUserIs ==
    ASSUME IsBrief(reflect), NEW answers, \A k \in DOMAIN answers : answers[k] \in Text,
           OnUser(answers)
    PROVE  /\ \/ DOMAIN answers \intersect StructuredKeys = {} /\ reflect' = reflect
              \/ /\ DOMAIN answers \intersect StructuredKeys # {}
                 /\ reflect' = ApplyReflectEdits(reflect, answers)
                 /\ brief' = Formatted(ApplyReflectEdits(reflect, answers))
                 /\ stage' = "grill"
           /\ IsBrief(reflect') /\ stage' \in {"grill", "blocked"}
<1> DEFINE applied == ApplyReflectEdits(reflect, answers)
<1>1. IsBrief(applied) /\ Parses(applied)
    BY EditedIsBrief, BriefParses
<1>2. CASE DOMAIN answers \intersect StructuredKeys # {}
    <2>1. stage' = "grill" /\ reflect' = applied /\ brief' = Formatted(applied)
        BY <1>1, <1>2 DEF OnUser
    <2> QED
        BY <1>1, <1>2, <2>1
<1>3. CASE DOMAIN answers \intersect StructuredKeys = {}
    <2>1. stage' \in {"grill", "blocked"} /\ reflect' = reflect
        BY <1>3 DEF OnUser
    <2> QED
        BY <1>3, <2>1
<1> QED
    BY <1>2, <1>3

LEMMA AnswerDirectlyKeeps ==
    ASSUME BriefInv, NEW answers, \A k \in DOMAIN answers : answers[k] \in Text,
           AnswerDirectly(answers)
    PROVE  BriefInv'
<1>1. stage = "brief-gate" /\ OnUser(answers) /\ UNCHANGED <<form, proposed, touched, edits, inForm>>
    BY DEF AnswerDirectly
<1>2. TypesInv /\ IsBrief(reflect) /\ ~inForm
    BY <1>1 DEF BriefInv, GateInv
<1>3. IsBrief(reflect') /\ stage' \in {"grill", "blocked"}
    BY <1>1, <1>2, OnUserIs
<1>4. TypesInv'
    BY <1>1, <1>2, <1>3 DEF TypesInv
<1>5. stage' # "brief-gate" /\ ~inForm'
    BY <1>1, <1>2, <1>3
<1> QED
    BY <1>4, <1>5 DEF BriefInv, GateInv, UntouchedKept, ConfirmedAsShown

(* A brief that is confirmed in the form keeps what was not touched.       *)
LEMMA ConfirmKeepsUntouched ==
    ASSUME IsBrief(reflect), FormInv, proposed' = reflect, touched' = touched,
           reflect' = ApplyReflectEdits(reflect, ReadForm(form))
    PROVE  UntouchedKept'
<1> DEFINE r == ApplyReflectEdits(reflect, ReadForm(form))
<1>1. /\ r.title = (IF form.title = <<>> THEN Absent ELSE <<form.title>>)
      /\ r.summary = reflect.summary
      /\ r.restatement = (IF Trim(form.restatement) \in {Empty, Said("yes"), Said("y")}
                          THEN reflect.restatement ELSE Trim(form.restatement))
      /\ r.goal = OrElse(Trim(form.goal), r.restatement)
      /\ \A f \in ListFields : FlattenSeq(r.lists[f]) = NonBlank(form.lists[f])
    BY ConfirmedIs DEF FormInv
<1> HIDE DEF r
<1>2. Cut(reflect.restatement) /\ Cut(reflect.goal)
    BY DEF IsBrief
<1>3. ASSUME "restatement" \notin touched
      PROVE  r.restatement = reflect.restatement
    BY <1>1, <1>2, <1>3 DEF FormInv, Cut
<1>4. ASSUME "goal" \notin touched
      PROVE  r.goal = reflect.goal
    BY <1>1, <1>2, <1>4 DEF FormInv, Cut, OrElse
<1>5. ASSUME "proposedTitle" \notin touched
      PROVE  \/ reflect.title = Absent /\ r.title = Absent
             \/ Line(r.title) = Line(reflect.title)
    <2>1. CASE reflect.title = Absent
        BY <1>1, <1>5, <2>1 DEF FormInv, Blank
    <2>2. CASE reflect.title # Absent
        <3>1. Cut(reflect.title)
            BY <2>2 DEF IsBrief
        <3>2. form.title = Line(reflect.title) /\ Line(reflect.title) \in Seq(Word)
            BY <1>5, <2>2, <3>1, LineTypes DEF FormInv, Cut
        <3>3. Line(reflect.title) # <<>>
            BY <3>1, CutIsGiven, FlattenBlank DEF Line, Text
        <3>4. r.title = <<Line(reflect.title)>>
            BY <1>1, <3>2, <3>3
        <3>5. Line(r.title) = Line(reflect.title)
            BY <3>2, <3>4, FlattenOne DEF Line
        <3> QED
            BY <3>5
    <2> QED
        BY <2>1, <2>2
<1>6. ASSUME NEW f \in ListFields \ touched
      PROVE  NonBlank(FlattenSeq(r.lists[f])) = NonBlank(FlattenSeq(reflect.lists[f]))
    <2>1. form.lists[f] \in Text
        BY DEF FormInv, Forms
    <2>2. NonBlank(NonBlank(form.lists[f])) = NonBlank(form.lists[f])
        BY <2>1, LinesOfText
    <2> QED
        BY <1>1, <2>2 DEF FormInv
<1>7. reflect' = r
    BY DEF r
<1> QED
    BY <1>1, <1>3, <1>4, <1>5, <1>6, <1>7 DEF UntouchedKept

(* The griller is asked about what the form showed.                        *)
LEMMA ConfirmKeepsShown ==
    ASSUME IsBrief(reflect), FormInv, proposed' = reflect, form' = form,
           brief' = Formatted(ApplyReflectEdits(reflect, ReadForm(form)))
    PROVE  ConfirmedAsShown'
<1> DEFINE r == ApplyReflectEdits(reflect, ReadForm(form))
           yes == Said("yes")
           y == Said("y")
           of(f) == ToSet(form.lists[f])
<1>1. /\ r.restatement = (IF Trim(form.restatement) \in {Empty, yes, y}
                          THEN reflect.restatement ELSE Trim(form.restatement))
      /\ r.goal = OrElse(Trim(form.goal), r.restatement)
      /\ \A f \in ListFields : FlattenSeq(r.lists[f]) = NonBlank(form.lists[f])
    BY ConfirmedIs DEF FormInv
<1>2. /\ form.restatement \in Text /\ form.goal \in Text
      /\ \A f \in ListFields : form.lists[f] \in Text
    BY DEF FormInv, Forms
<1>3. ToSet(yes) = {<<"yes">>} /\ ToSet(y) = {<<"y">>} /\ ToSet(Empty) = {}
    BY DEF Said, ToSet, Empty
<1>4. brief' = ToSet(r.restatement) \union ToSet(r.goal)
                  \union UNION {ToSet(FlattenSeq(r.lists[f])) : f \in ListFields}
    BY DEF Formatted
<1>5. \A f \in ListFields : ToSet(FlattenSeq(r.lists[f])) = of(f) \ {Blank}
    BY <1>1, <1>2, NonBlankElements DEF Text, Blank
<1>6. ShownLines' = ToSet(form.restatement) \union ToSet(form.goal)
                       \union UNION {of(f) : f \in ListFields}
    BY DEF ShownLines
<1>7. /\ ToSet(Trim(form.restatement)) \subseteq ToSet(form.restatement)
      /\ ToSet(form.restatement) \subseteq ToSet(Trim(form.restatement)) \union {Blank}
      /\ ToSet(Trim(form.goal)) \subseteq ToSet(form.goal)
      /\ ToSet(form.goal) \subseteq ToSet(Trim(form.goal)) \union {Blank}
    BY <1>2, TrimElements DEF Text, Blank
<1> HIDE DEF r, yes, y, of
<1>8. /\ ToSet(form.restatement) \ ToSet(r.restatement) \subseteq {Blank, <<"yes">>, <<"y">>}
      /\ ToSet(r.restatement) \subseteq ToSet(form.restatement) \union ToSet(reflect.restatement)
    <2>1. CASE Trim(form.restatement) \in {Empty, yes, y}
        BY <1>1, <1>3, <1>7, <2>1
    <2>2. CASE Trim(form.restatement) \notin {Empty, yes, y}
        BY <1>1, <1>7, <2>2
    <2> QED
        BY <2>1, <2>2
<1>9. /\ ToSet(form.goal) \ ToSet(r.goal) \subseteq {Blank}
      /\ ToSet(r.goal) \subseteq ToSet(form.goal) \union ToSet(r.restatement)
    <2>1. CASE Trim(form.goal) = Empty
        BY <1>1, <1>3, <1>7, <2>1 DEF OrElse
    <2>2. CASE Trim(form.goal) # Empty
        BY <1>1, <1>7, <2>2 DEF OrElse
    <2> QED
        BY <2>1, <2>2
<1>10. ShownLines' \ brief' \subseteq {Blank, <<"yes">>, <<"y">>}
    BY <1>4, <1>5, <1>6, <1>8, <1>9
<1>11. brief' \ ShownLines' \subseteq {Blank} \union ToSet(proposed'.restatement)
    BY <1>4, <1>5, <1>6, <1>8, <1>9
<1> QED
    BY <1>10, <1>11 DEF ConfirmedAsShown

LEMMA ConfirmKeeps ==
    ASSUME BriefInv, Confirm
    PROVE  BriefInv'
<1> DEFINE answers == ReadForm(form)
<1>1. /\ stage = "brief-gate" /\ OnUser(answers) /\ inForm' = TRUE
      /\ UNCHANGED <<form, proposed, touched, edits>>
    BY DEF Confirm
<1>2. TypesInv /\ IsBrief(reflect) /\ proposed = reflect /\ FormInv
    BY <1>1 DEF BriefInv, GateInv
<1>3. /\ \A k \in DOMAIN answers : answers[k] \in Text
      /\ {"proposedTitle", "restatement", "goal"} \union ListFields \subseteq DOMAIN answers
    BY <1>2, ReadFormIs DEF FormInv
<1>4. DOMAIN answers \intersect StructuredKeys # {}
    BY <1>3 DEF StructuredKeys
<1> HIDE DEF answers
<1>5. /\ reflect' = ApplyReflectEdits(reflect, answers) /\ IsBrief(reflect')
      /\ brief' = Formatted(ApplyReflectEdits(reflect, answers))
      /\ stage' = "grill"
    BY <1>1, <1>2, <1>3, <1>4, OnUserIs
<1>6. TypesInv'
    BY <1>1, <1>2, <1>5 DEF TypesInv
<1>7. GateInv'
    BY <1>5 DEF GateInv
<1>8. UntouchedKept' /\ ConfirmedAsShown'
    BY <1>1, <1>2, <1>5, ConfirmKeepsUntouched, ConfirmKeepsShown DEF answers
<1> QED
    BY <1>6, <1>7, <1>8 DEF BriefInv

LEMMA NextKeepsBriefInv ==
    ASSUME BriefInv, [Next]_vars
    PROVE  BriefInv'
<1>1. CASE UNCHANGED vars
    BY <1>1 DEF vars, BriefInv, TypesInv, GateInv, FormInv, UntouchedKept, ConfirmedAsShown, ShownLines
<1>2. ASSUME NEW raw \in Answer, Reflected(raw)
      PROVE  BriefInv'
    BY <1>2, ReflectedKeeps
<1>3. ASSUME NEW text \in Typed,
             EditTitle(text) \/ EditRestatement(text) \/ EditGoal(text) \/ WriteNotes(text)
      PROVE  BriefInv'
    <2>1. Editing
        BY <1>3 DEF EditTitle, EditRestatement, EditGoal, WriteNotes
    <2> QED
        BY <1>3, <2>1, EditKeeps
<1>4. ASSUME Editing, NEW f \in ListFields,
             \/ AddEntry(f)
             \/ \E i \in DOMAIN form.lists[f] :
                   RemoveEntry(f, i) \/ \E text \in Typed : EditEntry(f, i, text)
      PROVE  BriefInv'
    BY <1>4, EntryKeeps
<1>5. CASE Rerender
    BY <1>5, RerenderKeeps
<1>6. CASE Confirm
    BY <1>6, ConfirmKeeps
<1>7. ASSUME NEW key \in Keys, NEW other \in Keys, NEW text \in Typed, NEW more \in Typed,
             AnswerDirectly([k \in {key, other} |-> IF k = key THEN text ELSE more])
      PROVE  BriefInv'
    <2> DEFINE answers == [k \in {key, other} |-> IF k = key THEN text ELSE more]
    <2>1. \A k \in DOMAIN answers : answers[k] \in Text
        BY BriefAssumption
    <2> HIDE DEF answers
    <2>2. AnswerDirectly(answers)
        BY <1>7 DEF answers
    <2> QED
        BY <2>1, <2>2, AnswerDirectlyKeeps
<1>8. CASE AnswerDirectly(<<>>)
    <2> DEFINE answers == <<>>
    <2>1. \A k \in DOMAIN answers : answers[k] \in Text
        OBVIOUS
    <2> HIDE DEF answers
    <2>2. AnswerDirectly(answers)
        BY <1>8 DEF answers
    <2> QED
        BY <2>1, <2>2, AnswerDirectlyKeeps
<1> QED
    BY <1>1, <1>2, <1>3, <1>4, <1>5, <1>6, <1>7, <1>8 DEF Next

(* Whatever is answered, by the reflector, the operator or another client, *)
(* the step is never left by an exception of the schema.                   *)
THEOREM SchemaHolds == Spec => []NeverFails
<1>1. BriefInv => NeverFails
    BY DEF BriefInv, TypesInv, NeverFails
<1> QED
    BY <1>1, InitBriefInv, NextKeepsBriefInv, PTL DEF Spec

(* A field that was left alone is confirmed as it was proposed.            *)
THEOREM UntouchedIsKept == Spec => []UntouchedKept
<1>1. BriefInv => UntouchedKept
    BY DEF BriefInv
<1> QED
    BY <1>1, InitBriefInv, NextKeepsBriefInv, PTL DEF Spec

(* The griller gets the brief that was on the screen.                      *)
THEOREM ConfirmedIsShown == Spec => []ConfirmedAsShown
<1>1. BriefInv => ConfirmedAsShown
    BY DEF BriefInv
<1> QED
    BY <1>1, InitBriefInv, NextKeepsBriefInv, PTL DEF Spec

(* No stored brief has an entry that is blank or has blank ends.           *)
THEOREM BriefTypes == Spec => []BriefTypeOK
<1>1. ASSUME IsBrief(reflect)
      PROVE  /\ Parses(reflect)
             /\ \A f \in ListFields : \A i \in DOMAIN reflect.lists[f] :
                   reflect.lists[f][i] # Empty /\ Trim(reflect.lists[f][i]) = reflect.lists[f][i]
    BY <1>1, BriefParses DEF IsBrief, Cut
<1>2. BriefInv => BriefTypeOK
    BY <1>1 DEF BriefInv, TypesInv, BriefTypeOK
<1> QED
    BY <1>2, InitBriefInv, NextKeepsBriefInv, PTL DEF Spec
===============================================================================

--------------------------- MODULE SequenceLemmas ---------------------------
(***************************************************************************)
(* What the sequence operators the pages are built from compute, for       *)
(* sequences of any length.  The library states induction over an operator *)
(* P(_), which the provers cannot instantiate; here it is stated over the  *)
(* set of the values that have the property, and follows from the least    *)
(* number principle of WellFoundedInduction.                               *)
(***************************************************************************)
EXTENDS Integers, SequencesExt, SequenceTheorems, FiniteSetTheorems,
        WellFoundedInduction, TLAPS

-----------------------------------------------------------------------------
(* Induction. *)

(* A non-empty set of natural numbers has a least element. *)
LEMMA LeastNat ==
  ASSUME NEW I \in SUBSET Nat, I # {}
  PROVE  \E m \in I : \A k \in I : m <= k
<1> DEFINE R == OpToRel(<, Nat)
<1>1. IsWellFoundedOn(R, Nat)
  BY NatLessThanWellFounded
<1>2. \A k, m \in Nat : k < m => <<k, m>> \in R
  BY DEF OpToRel
<1> HIDE DEF R
<1>3. PICK m \in I : \A k \in I : ~ (<<k, m>> \in R)
  BY <1>1, WFMin
<1>4. ASSUME NEW k \in I PROVE m <= k
  <2>1. k \in Nat /\ m \in Nat /\ ~ (k < m)
    BY <1>2, <1>3
  <2>2. QED
    BY <2>1
<1>5. QED
  BY <1>4

LEMMA NatSetInduction ==
  ASSUME NEW T, 0 \in T, \A n \in Nat : n \in T => n + 1 \in T
  PROVE  Nat \subseteq T
<1> DEFINE U == Nat \ T
<1>1. ASSUME U # {} PROVE FALSE
  <2>1. PICK m \in U : \A k \in U : m <= k
    BY <1>1, LeastNat
  <2>2. m \in Nat /\ m # 0 /\ m - 1 \in Nat
    OBVIOUS
  <2>3. m - 1 \in T
    BY <2>1, <2>2
  <2>4. QED
    BY <2>2, <2>3
<1>2. QED
  BY <1>1

(* A set that holds the empty sequence and is closed under Append holds    *)
(* every sequence.                                                         *)
LEMMA SeqSetInduction ==
  ASSUME NEW S, NEW T, << >> \in T,
         \A s \in Seq(S), e \in S : s \in T => Append(s, e) \in T
  PROVE  Seq(S) \subseteq T
<1> DEFINE L == {n \in Nat : \A s \in Seq(S) : Len(s) = n => s \in T}
<1>1. 0 \in L
  <2>1. ASSUME NEW s \in Seq(S), Len(s) = 0 PROVE s = << >>
    BY <2>1, EmptySeq
  <2>2. QED
    BY <2>1
<1>2. ASSUME NEW n \in Nat, n \in L PROVE n + 1 \in L
  <2>1. ASSUME NEW s \in Seq(S), Len(s) = n + 1 PROVE s \in T
    <3>1. s # << >>
      BY <2>1, EmptySeq
    <3>2. PICK t \in Seq(S), e \in S : s = Append(t, e)
      BY <3>1, SequenceEmptyOrAppend
    <3>3. Len(t) = n
      BY <2>1, <3>2, AppendProperties, LenProperties
    <3>4. QED
      BY <1>2, <3>2, <3>3
  <2>2. QED
    BY <2>1
<1>3. Nat \subseteq L
  <2> HIDE DEF L
  <2> QED
    BY <1>1, <1>2, NatSetInduction
<1>4. QED
  BY <1>3, LenProperties

(* The library's Min finds it. *)
LEMMA MinOfNats ==
  ASSUME NEW I \in SUBSET Nat, I # {}
  PROVE  Min(I) \in I /\ \A k \in I : Min(I) <= k
<1>1. \E m \in I : \A k \in I : m <= k
  BY LeastNat
<1>2. QED
  BY <1>1 DEF Min

LEMMA MaxOfNats ==
  ASSUME NEW n \in Nat, NEW I \in SUBSET (1 .. n), I # {}
  PROVE  Max(I) \in I /\ \A k \in I : k <= Max(I)
<1> DEFINE J == {n - i : i \in I}
<1>1. J \in SUBSET Nat /\ J # {}
  <2>1. ASSUME NEW i \in I PROVE n - i \in Nat
    OBVIOUS
  <2>2. QED
    BY <2>1
<1>2. PICK j \in J : \A k \in J : j <= k
  BY <1>1, LeastNat
<1>3. PICK m \in I : j = n - m
  BY <1>2
<1>4. ASSUME NEW k \in I PROVE k <= m
  <2>1. n - m <= n - k
    BY <1>2, <1>3
  <2>2. QED
    BY <2>1
<1>5. \E x \in I : \A k \in I : k <= x
  BY <1>4
<1>6. QED
  BY <1>5 DEF Max

-----------------------------------------------------------------------------
(* FlattenSeq: its recursive function exists, is the only one, and extends *)
(* when the sequence of sequences is extended.                             *)
IsFlat(f, ss) ==
    f = [i \in 1 .. Len(ss) |-> IF i = 1 THEN ss[i] ELSE f[i - 1] \o ss[i]]

LEMMA FlatAt ==
  ASSUME NEW f, NEW ss, IsFlat(f, ss), NEW i \in 1 .. Len(ss)
  PROVE  f[i] = IF i = 1 THEN ss[i] ELSE f[i - 1] \o ss[i]
  BY DEF IsFlat

LEMMA FlatExists ==
  ASSUME NEW S, NEW ss \in Seq(S)
  PROVE  \E f : IsFlat(f, ss)
<1> DEFINE T == {t \in Seq(S) : \E f : IsFlat(f, t)}
<1>1. << >> \in T
  <2>1. IsFlat([i \in {} |-> 0], << >>)
    BY DEF IsFlat
  <2>2. QED
    BY <2>1
<1>2. ASSUME NEW t \in Seq(S), NEW e \in S, t \in T PROVE Append(t, e) \in T
  <2>1. PICK f : IsFlat(f, t)
    BY <1>2
  <2> DEFINE n == Len(t)
             g == [i \in 1 .. n + 1 |->
                      IF i = n + 1 THEN IF i = 1 THEN e ELSE f[n] \o e ELSE f[i]]
  <2>2. n \in Nat /\ Len(Append(t, e)) = n + 1 /\ Append(t, e)[n + 1] = e
    BY AppendProperties, LenProperties
  <2>3. \A i \in 1 .. n : Append(t, e)[i] = t[i]
    BY AppendProperties
  <2>4. \A i \in 1 .. n : f[i] = IF i = 1 THEN t[i] ELSE f[i - 1] \o t[i]
    BY <2>1 DEF IsFlat
  <2>5. ASSUME NEW i \in 1 .. n + 1
        PROVE  g[i] = IF i = 1 THEN Append(t, e)[i] ELSE g[i - 1] \o Append(t, e)[i]
    <3>1. CASE i = n + 1
      <4>1. i # 1 => i - 1 = n /\ g[i - 1] = f[n]
        BY <2>2, <3>1
      <4>2. QED
        BY <2>2, <3>1, <4>1
    <3>2. CASE i \in 1 .. n
      <4>1. g[i] = f[i] /\ (i # 1 => g[i - 1] = f[i - 1])
        BY <2>2, <3>2
      <4>2. QED
        BY <2>3, <2>4, <3>2, <4>1
    <3>3. QED
      BY <2>2, <3>1, <3>2
  <2> HIDE DEF g, n
  <2>6. g = [i \in 1 .. n + 1 |-> g[i]]
    BY DEF g
  <2>7. IsFlat(g, Append(t, e))
    BY <2>2, <2>5, <2>6 DEF IsFlat
  <2>8. QED
    BY <2>7, AppendProperties
<1>3. Seq(S) \subseteq T
  <2> HIDE DEF T
  <2> QED
    BY <1>1, <1>2, SeqSetInduction
<1>4. QED
  BY <1>3

LEMMA FlatExtends ==
  ASSUME NEW S, NEW ss \in Seq(S), NEW e \in S, NEW f, NEW g,
         IsFlat(f, ss), IsFlat(g, Append(ss, e))
  PROVE  \A i \in 1 .. Len(ss) : g[i] = f[i]
<1> DEFINE n == Len(ss)
           T == {k \in Nat : k + 1 \in 1 .. n => g[k + 1] = f[k + 1]}
<1>1. /\ n \in Nat /\ Len(Append(ss, e)) = n + 1
      /\ \A i \in 1 .. n : Append(ss, e)[i] = ss[i]
  BY AppendProperties, LenProperties
<1>2. \A i \in 1 .. n : /\ f[i] = IF i = 1 THEN ss[i] ELSE f[i - 1] \o ss[i]
                        /\ g[i] = IF i = 1 THEN ss[i] ELSE g[i - 1] \o ss[i]
  <2>1. ASSUME NEW i \in 1 .. n PROVE f[i] = IF i = 1 THEN ss[i] ELSE f[i - 1] \o ss[i]
    BY FlatAt
  <2>2. ASSUME NEW i \in 1 .. n PROVE g[i] = IF i = 1 THEN ss[i] ELSE g[i - 1] \o ss[i]
    <3>1. i \in 1 .. Len(Append(ss, e)) /\ Append(ss, e)[i] = ss[i]
      BY <1>1
    <3> DEFINE t == Append(ss, e)
    <3>2. IsFlat(g, t) /\ i \in 1 .. Len(t)
      BY <3>1
    <3> HIDE DEF t
    <3>3. g[i] = IF i = 1 THEN t[i] ELSE g[i - 1] \o t[i]
      BY <3>2, FlatAt
    <3>4. QED
      BY <3>1, <3>3 DEF t
  <2>3. QED
    BY <2>1, <2>2
<1> HIDE DEF n
<1>3. 0 \in T
  BY <1>2
<1>4. ASSUME NEW k \in Nat, k \in T PROVE k + 1 \in T
  <2>1. SUFFICES ASSUME k + 2 \in 1 .. n PROVE g[k + 2] = f[k + 2]
    BY <1>1
  <2>2. k + 1 \in 1 .. n /\ (k + 2) - 1 = k + 1 /\ k + 2 # 1
    BY <1>1, <2>1
  <2>3. g[k + 1] = f[k + 1]
    BY <1>4, <2>2
  <2>4. QED
    BY <1>2, <2>1, <2>2, <2>3
<1>5. Nat \subseteq T
  <2> HIDE DEF T
  <2> QED
    BY <1>3, <1>4, NatSetInduction
<1>6. ASSUME NEW i \in 1 .. n PROVE g[i] = f[i]
  <2>1. i - 1 \in Nat /\ (i - 1) + 1 = i
    BY <1>1
  <2>2. i - 1 \in T
    BY <1>5, <2>1
  <2>3. QED
    BY <2>1, <2>2
<1>7. QED
  BY <1>6 DEF n

(* How FlattenSeq computes. *)
LEMMA FlattenEmpty == FlattenSeq(<< >>) = << >>
  BY DEF FlattenSeq

LEMMA FlattenIs ==
  ASSUME NEW S, NEW ss \in Seq(S), ss # << >>
  PROVE  \E f : IsFlat(f, ss) /\ FlattenSeq(ss) = f[Len(ss)]
<1> DEFINE f == CHOOSE f : IsFlat(f, ss)
<1>1. IsFlat(f, ss)
  BY FlatExists
<1>2. Len(ss) # 0
  BY EmptySeq
<1>3. FlattenSeq(ss) = f[Len(ss)]
  BY <1>2 DEF FlattenSeq, IsFlat
<1>4. QED
  BY <1>1, <1>3

LEMMA FlattenAppend ==
  ASSUME NEW S, NEW ss \in Seq(Seq(S)), NEW s \in Seq(S)
  PROVE  FlattenSeq(Append(ss, s)) = FlattenSeq(ss) \o s
<1> DEFINE n == Len(ss)
<1>1. /\ n \in Nat /\ Append(ss, s) \in Seq(Seq(S)) /\ Append(ss, s) # << >>
      /\ Len(Append(ss, s)) = n + 1 /\ Append(ss, s)[n + 1] = s
  BY AppendProperties, LenProperties
<1>2. PICK g : IsFlat(g, Append(ss, s)) /\ FlattenSeq(Append(ss, s)) = g[n + 1]
  BY <1>1, FlattenIs
<1>3. CASE ss = << >>
  <2>1. n = 0
    BY <1>3
  <2>2. g[1] = s
    BY <1>1, <1>2, <2>1 DEF IsFlat
  <2>3. QED
    BY <1>2, <1>3, <2>1, <2>2, FlattenEmpty, ConcatEmptySeq
<1>4. CASE ss # << >>
  <2>1. PICK f : IsFlat(f, ss) /\ FlattenSeq(ss) = f[n]
    BY <1>4, FlattenIs
  <2>2. n \in 1 .. n /\ n + 1 # 1
    BY <1>1, <1>4, EmptySeq
  <2>3. g[n] = f[n]
    BY <1>2, <2>1, <2>2, FlatExtends
  <2>4. g[n + 1] = g[n] \o s
    <3>1. n + 1 \in 1 .. n + 1 /\ (n + 1) - 1 = n
      BY <1>1
    <3>2. QED
      BY <1>1, <1>2, <2>2, <3>1 DEF IsFlat
  <2>5. QED
    BY <1>2, <2>1, <2>3, <2>4
<1>5. QED
  BY <1>3, <1>4

LEMMA FlattenType ==
  ASSUME NEW S, NEW ss \in Seq(Seq(S))
  PROVE  FlattenSeq(ss) \in Seq(S)
<1> DEFINE T == {t \in Seq(Seq(S)) : FlattenSeq(t) \in Seq(S)}
<1>1. << >> \in T
  <2>1. << >> \in Seq(S) /\ << >> \in Seq(Seq(S))
    BY EmptySeq
  <2>2. QED
    BY <2>1, FlattenEmpty
<1>2. ASSUME NEW t \in Seq(Seq(S)), NEW s \in Seq(S), t \in T PROVE Append(t, s) \in T
  <2>1. FlattenSeq(t) \o s \in Seq(S)
    BY <1>2, ConcatProperties
  <2>2. QED
    BY <2>1, FlattenAppend, AppendProperties
<1>3. Seq(Seq(S)) \subseteq T
  <2> HIDE DEF T
  <2> QED
    BY <1>1, <1>2, SeqSetInduction
<1>4. QED
  BY <1>3

(* Its elements are those of the sequences it is made from.                *)
LEMMA ToSetAppend ==
  ASSUME NEW S, NEW s \in Seq(S), NEW e \in S
  PROVE  ToSet(Append(s, e)) = ToSet(s) \cup {e}
<1> DEFINE n == Len(s)
<1>1. /\ n \in Nat /\ DOMAIN s = 1 .. n /\ DOMAIN Append(s, e) = 1 .. n + 1
      /\ Append(s, e)[n + 1] = e /\ \A i \in 1 .. n : Append(s, e)[i] = s[i]
  BY AppendProperties, LenProperties
<1> HIDE DEF n
<1>2. ASSUME NEW x \in ToSet(Append(s, e)) PROVE x \in ToSet(s) \cup {e}
  <2>1. PICK i \in 1 .. n + 1 : Append(s, e)[i] = x
    BY <1>1 DEF ToSet
  <2>2. CASE i = n + 1
    BY <1>1, <2>1, <2>2
  <2>3. CASE i \in 1 .. n
    BY <1>1, <2>1, <2>3 DEF ToSet
  <2>4. QED
    BY <1>1, <2>2, <2>3
<1>3. ASSUME NEW x \in ToSet(s) PROVE x \in ToSet(Append(s, e))
  <2>1. PICK i \in 1 .. n : s[i] = x
    BY <1>1 DEF ToSet
  <2>2. i \in 1 .. n + 1 /\ Append(s, e)[i] = x
    BY <1>1, <2>1
  <2>3. QED
    BY <1>1, <2>2 DEF ToSet
<1>4. e \in ToSet(Append(s, e))
  BY <1>1 DEF ToSet
<1>5. QED
  BY <1>2, <1>3, <1>4

LEMMA ToSetEmpty == ToSet(<< >>) = {}
  BY DEF ToSet

LEMMA ToSetType ==
  ASSUME NEW S, NEW s \in Seq(S)
  PROVE  ToSet(s) \subseteq S
  BY LenProperties DEF ToSet

LEMMA ToSetConcat ==
  ASSUME NEW S, NEW s \in Seq(S), NEW t \in Seq(S)
  PROVE  ToSet(s \o t) = ToSet(s) \cup ToSet(t)
<1>1. \A u : ToSet(u) = Range(u)
  BY DEF ToSet, Range
<1>2. QED
  BY <1>1, RangeConcatenation

LEMMA FlattenElements ==
  ASSUME NEW S, NEW ss \in Seq(Seq(S))
  PROVE  ToSet(FlattenSeq(ss)) = UNION {ToSet(s) : s \in ToSet(ss)}
<1> DEFINE All(t) == UNION {ToSet(s) : s \in ToSet(t)}
           T == {t \in Seq(Seq(S)) : ToSet(FlattenSeq(t)) = All(t)}
<1>1. << >> \in T
  <2>1. All(<< >>) = {}
    BY ToSetEmpty
  <2>2. QED
    BY <2>1, FlattenEmpty, ToSetEmpty
<1>2. ASSUME NEW t \in Seq(Seq(S)), NEW s \in Seq(S), t \in T PROVE Append(t, s) \in T
  <2>1. ToSet(FlattenSeq(Append(t, s))) = ToSet(FlattenSeq(t)) \cup ToSet(s)
    <3>1. FlattenSeq(t) \in Seq(S)
      BY FlattenType
    <3>2. FlattenSeq(Append(t, s)) = FlattenSeq(t) \o s
      BY FlattenAppend
    <3>3. QED
      BY <3>1, <3>2, ToSetConcat
  <2>2. All(Append(t, s)) = All(t) \cup ToSet(s)
    BY ToSetAppend
  <2>3. QED
    BY <1>2, <2>1, <2>2, AppendProperties
<1>3. Seq(Seq(S)) \subseteq T
  <2> HIDE DEF T
  <2> QED
    BY <1>1, <1>2, SeqSetInduction
<1>4. QED
  BY <1>3

-----------------------------------------------------------------------------
(* The elements of s that are in P, in their order: Selected of Page, with *)
(* the test as a set.                                                      *)
Pick(x, P)  == IF x \in P THEN <<x>> ELSE << >>
Keep(s, P) == FlattenSeq([i \in DOMAIN s |-> Pick(s[i], P)])

LEMMA KeepEmpty == ASSUME NEW P PROVE Keep(<< >>, P) = << >>
<1>1. [i \in DOMAIN << >> |-> Pick(<< >>[i], P)] = << >>
  OBVIOUS
<1>2. QED
  BY <1>1, FlattenEmpty DEF Keep

LEMMA KeepAppend ==
  ASSUME NEW S, NEW s \in Seq(S), NEW e \in S, NEW P
  PROVE  Keep(Append(s, e), P) = IF e \in P THEN Append(Keep(s, P), e) ELSE Keep(s, P)
<1> DEFINE n == Len(s)
           pick(t) == [i \in DOMAIN t |-> Pick(t[i], P)]
<1>1. /\ n \in Nat /\ DOMAIN s = 1 .. n
      /\ DOMAIN Append(s, e) = 1 .. n + 1
      /\ Append(s, e)[n + 1] = e
      /\ \A i \in 1 .. n : Append(s, e)[i] = s[i] /\ s[i] \in S
  BY AppendProperties, LenProperties
<1>2. \A x \in S : Pick(x, P) \in Seq(S)
  BY DEF Pick
<1>3. pick(s) \in Seq(Seq(S)) /\ Len(pick(s)) = n
  <2>1. pick(s) \in [1 .. n -> Seq(S)]
    BY <1>1, <1>2
  <2>2. QED
    BY <1>1, <2>1
<1>4. pick(Append(s, e)) = Append(pick(s), Pick(e, P))
  <2>1. /\ Append(pick(s), Pick(e, P)) \in Seq(Seq(S))
        /\ Len(Append(pick(s), Pick(e, P))) = n + 1
        /\ \A i \in 1 .. n : Append(pick(s), Pick(e, P))[i] = pick(s)[i]
        /\ Append(pick(s), Pick(e, P))[n + 1] = Pick(e, P)
    BY <1>2, <1>3, AppendProperties
  <2>2. Append(pick(s), Pick(e, P)) = [i \in 1 .. n + 1 |-> Append(pick(s), Pick(e, P))[i]]
    BY <2>1, LenProperties
  <2>3. ASSUME NEW i \in 1 .. n + 1
        PROVE  pick(Append(s, e))[i] = Append(pick(s), Pick(e, P))[i]
    <3>1. CASE i = n + 1
      BY <1>1, <2>1, <3>1
    <3>2. CASE i \in 1 .. n
      BY <1>1, <2>1, <3>2
    <3>3. QED
      BY <1>1, <3>1, <3>2
  <2>4. QED
    BY <1>1, <2>2, <2>3
<1>5. Keep(Append(s, e), P) = Keep(s, P) \o Pick(e, P)
  BY <1>2, <1>3, <1>4, FlattenAppend DEF Keep
<1>6. Keep(s, P) \in Seq(S)
  BY <1>3, FlattenType DEF Keep
<1>7. QED
  BY <1>5, <1>6, AppendIsConcat, ConcatEmptySeq DEF Pick

(* It picks exactly the elements of P.                                     *)
LEMMA KeepElements ==
  ASSUME NEW S, NEW s \in Seq(S), NEW P
  PROVE  /\ Keep(s, P) \in Seq(S)
         /\ ToSet(Keep(s, P)) = ToSet(s) \cap P
<1> DEFINE T == {t \in Seq(S) : /\ Keep(t, P) \in Seq(S)
                                /\ ToSet(Keep(t, P)) = ToSet(t) \cap P}
<1>1. << >> \in T
  BY KeepEmpty, EmptySeq, ToSetEmpty
<1>2. ASSUME NEW t \in Seq(S), NEW e \in S, t \in T PROVE Append(t, e) \in T
  <2>1. Append(t, e) \in Seq(S) /\ ToSet(Append(t, e)) = ToSet(t) \cup {e}
    BY AppendProperties, ToSetAppend
  <2>2. CASE e \in P
    <3>1. Keep(Append(t, e), P) = Append(Keep(t, P), e)
      BY <2>2, KeepAppend
    <3>2. /\ Append(Keep(t, P), e) \in Seq(S)
          /\ ToSet(Append(Keep(t, P), e)) = ToSet(Keep(t, P)) \cup {e}
      BY <1>2, AppendProperties, ToSetAppend
    <3>3. QED
      BY <1>2, <2>1, <2>2, <3>1, <3>2
  <2>3. CASE e \notin P
    <3>1. Keep(Append(t, e), P) = Keep(t, P)
      BY <2>3, KeepAppend
    <3>2. QED
      BY <1>2, <2>1, <2>3, <3>1
  <2>4. QED
    BY <2>2, <2>3
<1>3. Seq(S) \subseteq T
  <2> HIDE DEF T
  <2> QED
    BY <1>1, <1>2, SeqSetInduction
<1>4. QED
  BY <1>3

(* It is as long as there are positions with an element of P.              *)
LEMMA KeepCount ==
  ASSUME NEW S, NEW s \in Seq(S), NEW P
  PROVE  Len(Keep(s, P)) = Cardinality({i \in DOMAIN s : s[i] \in P})
<1> DEFINE At(t) == {i \in DOMAIN t : t[i] \in P}
           T == {t \in Seq(S) : /\ IsFiniteSet(At(t))
                                /\ Len(Keep(t, P)) = Cardinality(At(t))}
<1>1. << >> \in T
  <2>1. At(<< >>) = {}
    OBVIOUS
  <2>2. << >> \in Seq(S) /\ Len(<< >>) = 0
    BY EmptySeq
  <2>3. QED
    BY <2>1, <2>2, KeepEmpty, FS_EmptySet
<1>2. ASSUME NEW t \in Seq(S), NEW e \in S, t \in T PROVE Append(t, e) \in T
  <2> DEFINE n == Len(t)
  <2>1. /\ n \in Nat /\ DOMAIN t = 1 .. n /\ DOMAIN Append(t, e) = 1 .. n + 1
        /\ Append(t, e)[n + 1] = e /\ \A i \in 1 .. n : Append(t, e)[i] = t[i]
        /\ Append(t, e) \in Seq(S)
    BY AppendProperties, LenProperties
  <2> HIDE DEF n
  <2>2. CASE e \in P
    <3>1. At(Append(t, e)) = At(t) \cup {n + 1} /\ n + 1 \notin At(t)
      BY <2>1, <2>2
    <3>2. Keep(Append(t, e), P) = Append(Keep(t, P), e)
      BY <2>2, KeepAppend
    <3>3. Len(Append(Keep(t, P), e)) = Len(Keep(t, P)) + 1
      BY KeepElements, AppendProperties
    <3>4. /\ IsFiniteSet(At(t) \cup {n + 1})
          /\ Cardinality(At(t) \cup {n + 1}) = Cardinality(At(t)) + 1
      BY <1>2, <3>1, FS_AddElement
    <3>5. QED
      BY <1>2, <2>1, <3>1, <3>2, <3>3, <3>4
  <2>3. CASE e \notin P
    <3>1. At(Append(t, e)) = At(t)
      BY <2>1, <2>3
    <3>2. Keep(Append(t, e), P) = Keep(t, P)
      BY <2>3, KeepAppend
    <3>3. QED
      BY <1>2, <2>1, <3>1, <3>2
  <2>4. QED
    BY <2>2, <2>3
<1>3. Seq(S) \subseteq T
  <2> HIDE DEF T
  <2> QED
    BY <1>1, <1>2, SeqSetInduction
<1>4. QED
  BY <1>3

(* Elements told apart by a key stay told apart.                           *)
Distinct(s, key) == \A i, j \in DOMAIN s : key[s[i]] = key[s[j]] => i = j

LEMMA DistinctAppend ==
  ASSUME NEW S, NEW s \in Seq(S), NEW e \in S, NEW key
  PROVE  Distinct(Append(s, e), key)
            <=> Distinct(s, key) /\ \A x \in ToSet(s) : key[x] # key[e]
<1> DEFINE n == Len(s)
           t == Append(s, e)
<1>1. /\ n \in Nat /\ DOMAIN s = 1 .. n /\ DOMAIN t = 1 .. n + 1
      /\ t[n + 1] = e /\ \A i \in 1 .. n : t[i] = s[i]
  BY AppendProperties, LenProperties
<1> HIDE DEF n, t
<1>2. ASSUME Distinct(t, key)
      PROVE  Distinct(s, key) /\ \A x \in ToSet(s) : key[x] # key[e]
  <2>1. Distinct(s, key)
    BY <1>1, <1>2 DEF Distinct
  <2>2. ASSUME NEW i \in 1 .. n PROVE key[s[i]] # key[e]
    BY <1>1, <1>2 DEF Distinct
  <2>3. QED
    BY <1>1, <2>1, <2>2 DEF ToSet
<1>3. ASSUME Distinct(s, key), \A x \in ToSet(s) : key[x] # key[e]
      PROVE  Distinct(t, key)
  <2>1. \A i \in 1 .. n : key[t[i]] # key[e]
    BY <1>1, <1>3 DEF ToSet
  <2>2. ASSUME NEW i \in 1 .. n + 1, NEW j \in 1 .. n + 1, key[t[i]] = key[t[j]]
        PROVE  i = j
    <3>1. CASE i = n + 1 \/ j = n + 1
      BY <1>1, <2>1, <2>2, <3>1
    <3>2. CASE i \in 1 .. n /\ j \in 1 .. n
      BY <1>1, <1>3, <2>2, <3>2 DEF Distinct
    <3>3. QED
      BY <1>1, <3>1, <3>2
  <2>3. QED
    BY <1>1, <2>2 DEF Distinct
<1>4. QED
  BY <1>2, <1>3 DEF t

LEMMA KeepDistinct ==
  ASSUME NEW S, NEW s \in Seq(S), NEW P, NEW key, Distinct(s, key)
  PROVE  Distinct(Keep(s, P), key)
<1> DEFINE T == {t \in Seq(S) : Distinct(t, key) => Distinct(Keep(t, P), key)}
<1>1. << >> \in T
  BY KeepEmpty, EmptySeq DEF Distinct
<1>2. ASSUME NEW t \in Seq(S), NEW e \in S, t \in T PROVE Append(t, e) \in T
  <2>1. SUFFICES ASSUME Distinct(Append(t, e), key)
                 PROVE  Distinct(Keep(Append(t, e), P), key)
    BY AppendProperties
  <2>2. Distinct(t, key) /\ \A x \in ToSet(t) : key[x] # key[e]
    BY <2>1, DistinctAppend
  <2>3. /\ Distinct(Keep(t, P), key) /\ Keep(t, P) \in Seq(S)
        /\ \A x \in ToSet(Keep(t, P)) : key[x] # key[e]
    BY <1>2, <2>2, KeepElements
  <2>4. Distinct(Append(Keep(t, P), e), key)
    BY <2>3, DistinctAppend
  <2>5. QED
    BY <2>3, <2>4, KeepAppend
<1>3. Seq(S) \subseteq T
  <2> HIDE DEF T
  <2> QED
    BY <1>1, <1>2, SeqSetInduction
<1>4. QED
  BY <1>3

(* Two sequences without a key in common.                                  *)
LEMMA DistinctConcat ==
  ASSUME NEW S, NEW s \in Seq(S), NEW t \in Seq(S), NEW key,
         Distinct(s, key), Distinct(t, key),
         \A x \in ToSet(s), y \in ToSet(t) : key[x] # key[y]
  PROVE  Distinct(s \o t, key)
<1> DEFINE m == Len(s)  n == Len(t)  u == s \o t
<1>1. /\ m \in Nat /\ n \in Nat /\ DOMAIN s = 1 .. m /\ DOMAIN t = 1 .. n
      /\ DOMAIN u = 1 .. m + n
      /\ \A i \in 1 .. m + n : u[i] = IF i <= m THEN s[i] ELSE t[i - m]
  BY ConcatProperties, LenProperties
<1> HIDE DEF m, n, u
<1>2. ASSUME NEW i \in 1 .. m + n
      PROVE  \/ i \in 1 .. m /\ u[i] = s[i] /\ s[i] \in ToSet(s)
             \/ i - m \in 1 .. n /\ u[i] = t[i - m] /\ t[i - m] \in ToSet(t)
  BY <1>1 DEF ToSet
<1>3. ASSUME NEW i \in 1 .. m + n, NEW j \in 1 .. m + n, key[u[i]] = key[u[j]]
      PROVE  i = j
  <2>1. CASE i \in 1 .. m /\ j \in 1 .. m
    BY <1>1, <1>3, <2>1 DEF Distinct
  <2>2. CASE i - m \in 1 .. n /\ j - m \in 1 .. n
    <3>1. u[i] = t[i - m] /\ u[j] = t[j - m]
      BY <1>1, <2>2
    <3>2. i - m = j - m
      BY <1>1, <1>3, <2>2, <3>1 DEF Distinct
    <3>3. QED
      BY <1>1, <3>2
  <2>3. QED
    BY <1>1, <1>2, <1>3, <2>1, <2>2
<1>4. QED
  BY <1>1, <1>3 DEF Distinct, u

-----------------------------------------------------------------------------
(* A sequence over the positions of another is as long.                    *)
LEMMA SameLength ==
  ASSUME NEW S, NEW s \in Seq(S), NEW t, t = [i \in DOMAIN s |-> t[i]]
  PROVE  /\ Len(t) = Len(s)
         /\ \A i \in DOMAIN s : t # << >>
<1> DEFINE n == Len(s)
           T == {t[i] : i \in DOMAIN s}
<1>1. n \in Nat /\ DOMAIN s = 1 .. n
  BY LenProperties
<1>2. t \in [1 .. n -> T]
  BY <1>1
<1> HIDE DEF n, T
<1>3. t \in Seq(T)
  BY <1>1, <1>2, SeqDef
<1>4. Len(t) \in Nat /\ DOMAIN t = 1 .. Len(t)
  BY <1>3, LenProperties
<1>5. 1 .. Len(t) = 1 .. n
  BY <1>2, <1>4
<1>6. Len(t) = n
  BY <1>1, <1>4, <1>5
<1>7. ASSUME NEW i \in DOMAIN s PROVE t # << >>
  BY <1>1, <1>3, <1>6, EmptySeq
<1>8. QED
  BY <1>6, <1>7 DEF n

-----------------------------------------------------------------------------
(* What f makes of the elements of s, one after the other.                 *)
Mapped(s, f) == [i \in DOMAIN s |-> f[s[i]]]
Joined(s, f) == FlattenSeq(Mapped(s, f))

LEMMA MapType ==
  ASSUME NEW S, NEW s \in Seq(S), NEW T, NEW f, \A x \in S : f[x] \in T
  PROVE  Mapped(s, f) \in Seq(T) /\ Len(Mapped(s, f)) = Len(s)
<1>1. /\ Len(s) \in Nat /\ DOMAIN s = 1 .. Len(s) /\ \A i \in DOMAIN s : s[i] \in S
  BY LenProperties
<1>2. Mapped(s, f) \in [1 .. Len(s) -> T]
  BY <1>1 DEF Mapped
<1>3. QED
  BY <1>1, <1>2

LEMMA MapAppend ==
  ASSUME NEW S, NEW s \in Seq(S), NEW e \in S, NEW f
  PROVE  Mapped(Append(s, e), f) = Append(Mapped(s, f), f[e])
<1> DEFINE n == Len(s)
           T == {f[x] : x \in S}
           u == Append(Mapped(s, f), f[e])
           v == Mapped(Append(s, e), f)
<1>1. /\ n \in Nat /\ DOMAIN s = 1 .. n
      /\ DOMAIN Append(s, e) = 1 .. n + 1
      /\ Append(s, e)[n + 1] = e
      /\ \A i \in 1 .. n : Append(s, e)[i] = s[i] /\ s[i] \in S
  BY AppendProperties, LenProperties
<1>2. Mapped(s, f) \in Seq(T) /\ Len(Mapped(s, f)) = n /\ f[e] \in T
  <2>1. \A x \in S : f[x] \in T
    OBVIOUS
  <2> HIDE DEF T
  <2>2. QED
    BY <2>1, MapType
<1>3. \A i \in 1 .. n : Mapped(s, f)[i] = f[s[i]]
  BY <1>1 DEF Mapped
<1>4. v = [i \in 1 .. n + 1 |-> v[i]] /\ \A i \in 1 .. n + 1 : v[i] = f[Append(s, e)[i]]
  BY <1>1 DEF Mapped
<1>5. /\ u \in Seq(T) /\ Len(u) = n + 1 /\ u[n + 1] = f[e]
      /\ \A i \in 1 .. n : u[i] = Mapped(s, f)[i]
  <2> HIDE DEF T
  <2> QED
    BY <1>2, AppendProperties
<1> HIDE DEF n, u, v, T
<1>6. u = [i \in 1 .. n + 1 |-> u[i]]
  BY <1>5, LenProperties
<1>7. ASSUME NEW i \in 1 .. n + 1 PROVE v[i] = u[i]
  <2>1. CASE i = n + 1
    BY <1>1, <1>4, <1>5, <2>1
  <2>2. CASE i \in 1 .. n
    BY <1>1, <1>3, <1>4, <1>5, <2>2
  <2>3. QED
    BY <1>1, <2>1, <2>2
<1>8. u = v
  BY <1>4, <1>6, <1>7
<1>9. QED
  BY <1>8 DEF u, v

LEMMA JoinedEmpty == ASSUME NEW f PROVE Joined(<< >>, f) = << >>
<1>1. [i \in DOMAIN << >> |-> f[<< >>[i]]] = << >>
  OBVIOUS
<1>2. QED
  BY <1>1, FlattenEmpty DEF Joined, Mapped

LEMMA JoinedType ==
  ASSUME NEW S, NEW s \in Seq(S), NEW T, NEW f, \A x \in S : f[x] \in Seq(T)
  PROVE  Mapped(s, f) \in Seq(Seq(T)) /\ Joined(s, f) \in Seq(T)
<1> DEFINE U == Seq(T)
<1>1. \A x \in S : f[x] \in U
  OBVIOUS
<1> HIDE DEF U
<1>2. Mapped(s, f) \in Seq(U)
  BY <1>1, MapType
<1>3. QED
  BY <1>2, FlattenType DEF Joined, U

LEMMA JoinedAppend ==
  ASSUME NEW S, NEW s \in Seq(S), NEW e \in S, NEW T, NEW f, \A x \in S : f[x] \in Seq(T)
  PROVE  Joined(Append(s, e), f) = Joined(s, f) \o f[e]
<1>1. Mapped(s, f) \in Seq(Seq(T))
  BY JoinedType
<1>2. Mapped(Append(s, e), f) = Append(Mapped(s, f), f[e])
  BY MapAppend
<1>3. f[e] \in Seq(T)
  OBVIOUS
<1>4. QED
  BY <1>1, <1>2, <1>3, FlattenAppend DEF Joined

=============================================================================

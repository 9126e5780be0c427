----------------------------- MODULE SiteProofs -----------------------------
(***************************************************************************)
(* Proofs about Site, for any nodes, reports, verdicts and visits.  The    *)
(* map of reports is Portal's, whose theorems hold here; what is new is    *)
(* what the pages make of it.                                              *)
(***************************************************************************)
EXTENDS Site, PortalProofs, SequenceLemmas

-----------------------------------------------------------------------------
(* The loop of group_by_app_global over a list of instances.               *)
Grouped(s) == FoldLeft(AddToGroup, << >>, s)

(* FoldLeft is a function of the set of positions handled so far.          *)
IsFold(f, s) ==
    f = [t \in SUBSET DOMAIN s |->
            IF t = {} THEN << >> ELSE AddToGroup(f[t \ {Max(t)}], s[Max(t)])]

LEMMA FoldAt ==
  ASSUME NEW f, NEW s, IsFold(f, s), NEW t \in SUBSET DOMAIN s
  PROVE  f[t] = IF t = {} THEN << >> ELSE AddToGroup(f[t \ {Max(t)}], s[Max(t)])
  BY DEF IsFold

LEMMA FoldExists ==
  ASSUME NEW S, NEW s \in Seq(S)
  PROVE  \E f : IsFold(f, s)
<1> DEFINE T == {t \in Seq(S) : \E f : IsFold(f, t)}
<1>1. << >> \in T
  <2>1. IsFold([t \in SUBSET {} |-> << >>], << >>)
    BY DEF IsFold
  <2>2. QED
    BY <2>1, EmptySeq
<1>2. ASSUME NEW r \in Seq(S), NEW e \in S, r \in T PROVE Append(r, e) \in T
  <2>1. PICK f : IsFold(f, r)
    BY <1>2
  <2> DEFINE n == Len(r)
             q == Append(r, e)
             g == [t \in SUBSET (1 .. n + 1) |->
                      IF n + 1 \in t THEN AddToGroup(f[t \ {n + 1}], e) ELSE f[t]]
  <2>2. /\ n \in Nat /\ DOMAIN r = 1 .. n /\ DOMAIN q = 1 .. n + 1
        /\ q[n + 1] = e /\ \A i \in 1 .. n : q[i] = r[i]
    BY AppendProperties, LenProperties
  <2> HIDE DEF n, q
  <2>3. ASSUME NEW t \in SUBSET (1 .. n + 1)
        PROVE  g[t] = IF t = {} THEN << >> ELSE AddToGroup(g[t \ {Max(t)}], q[Max(t)])
    <3>1. CASE n + 1 \in t
      <4>1. Max(t) \in t /\ n + 1 <= Max(t)
        <5>1. n + 1 \in Nat /\ t # {}
          BY <2>2, <3>1
        <5>2. Max(t) \in t /\ \A k \in t : k <= Max(t)
          BY <5>1, MaxOfNats
        <5>3. QED
          BY <3>1, <5>2
      <4>2. Max(t) = n + 1
        <5>1. Max(t) \in 1 .. n + 1
          BY <4>1
        <5>2. QED
          BY <2>2, <4>1, <5>1
      <4>3. g[t \ {n + 1}] = f[t \ {n + 1}]
        OBVIOUS
      <4>4. g[t] = AddToGroup(f[t \ {n + 1}], e)
        BY <3>1
      <4> HIDE DEF g
      <4>5. QED
        BY <2>2, <3>1, <4>2, <4>3, <4>4
    <3>2. CASE n + 1 \notin t /\ t # {}
      <4>1. t \in SUBSET (1 .. n)
        BY <2>2, <3>2
      <4>2. Max(t) \in t
        BY <2>2, <3>2, <4>1, MaxOfNats
      <4>3. q[Max(t)] = r[Max(t)]
        BY <2>2, <4>1, <4>2
      <4>4. g[t] = f[t] /\ g[t \ {Max(t)}] = f[t \ {Max(t)}]
        BY <3>2
      <4>5. f[t] = AddToGroup(f[t \ {Max(t)}], r[Max(t)])
        BY <2>1, <2>2, <3>2, <4>1, FoldAt
      <4> HIDE DEF g
      <4>6. QED
        BY <3>2, <4>3, <4>4, <4>5
    <3>3. CASE t = {}
      <4>1. f[{}] = << >>
        BY <2>1, FoldAt
      <4>2. QED
        BY <3>3, <4>1
    <3>4. QED
      BY <3>1, <3>2, <3>3
  <2>4. g = [t \in SUBSET (1 .. n + 1) |-> g[t]]
    OBVIOUS
  <2> HIDE DEF g
  <2>5. IsFold(g, q)
    BY <2>2, <2>3, <2>4 DEF IsFold
  <2>6. QED
    BY <2>5, AppendProperties DEF q
<1>3. Seq(S) \subseteq T
  <2> HIDE DEF T
  <2> QED
    BY <1>1, <1>2, SeqSetInduction
<1>4. QED
  BY <1>3

LEMMA FoldExtends ==
  ASSUME NEW S, NEW s \in Seq(S), NEW e \in S, NEW f, NEW g,
         IsFold(f, s), IsFold(g, Append(s, e))
  PROVE  \A t \in SUBSET (1 .. Len(s)) : g[t] = f[t]
<1> DEFINE n == Len(s)
           q == Append(s, e)
           T == {k \in Nat : \A t \in SUBSET (1 .. n) :
                                 (\A i \in t : i <= k) => g[t] = f[t]}
<1>1. /\ n \in Nat /\ DOMAIN s = 1 .. n /\ DOMAIN q = 1 .. n + 1
      /\ \A i \in 1 .. n : q[i] = s[i]
  BY AppendProperties, LenProperties
<1>2. IsFold(g, q)
  OBVIOUS
<1> HIDE DEF n, q
<1>3. ASSUME NEW t \in SUBSET (1 .. n), t = {} PROVE g[t] = f[t]
  <2>1. t \in SUBSET DOMAIN s /\ t \in SUBSET DOMAIN q
    BY <1>3
  <2>2. g[t] = << >> /\ f[t] = << >>
    BY <1>2, <1>3, <2>1, FoldAt
  <2>3. QED
    BY <2>2
<1>4. 0 \in T
  <2>1. ASSUME NEW t \in SUBSET (1 .. n), \A i \in t : i <= 0 PROVE t = {}
    BY <1>1, <2>1
  <2>2. QED
    BY <1>3, <2>1
<1>5. ASSUME NEW k \in Nat, k \in T PROVE k + 1 \in T
  <2>1. SUFFICES ASSUME NEW t \in SUBSET (1 .. n), t # {}, \A i \in t : i <= k + 1
                 PROVE  g[t] = f[t]
    BY <1>3
  <2> DEFINE m == Max(t)
  <2>2. m \in t /\ \A i \in t : i <= m
    BY <1>1, <2>1, MaxOfNats
  <2> HIDE DEF m
  <2>3. \A i \in t \ {m} : i <= k
    BY <1>1, <2>1, <2>2
  <2>4. g[t \ {m}] = f[t \ {m}]
    BY <1>5, <2>3
  <2>5. t \in SUBSET DOMAIN s /\ t \in SUBSET DOMAIN q
    BY <1>1
  <2>6. f[t] = AddToGroup(f[t \ {m}], s[m])
    BY <2>1, <2>5, FoldAt DEF m
  <2>7. g[t] = AddToGroup(g[t \ {m}], q[m])
    BY <1>2, <2>1, <2>5, FoldAt DEF m
  <2>8. q[m] = s[m]
    BY <1>1, <2>2
  <2>9. QED
    BY <2>4, <2>6, <2>7, <2>8
<1>6. n \in T
  <2>1. Nat \subseteq T
    <3> HIDE DEF T
    <3> QED
      BY <1>4, <1>5, NatSetInduction
  <2>2. QED
    BY <1>1, <2>1
<1>7. ASSUME NEW t \in SUBSET (1 .. n) PROVE g[t] = f[t]
  <2>1. \A i \in t : i <= n
    BY <1>1
  <2>2. QED
    BY <1>6, <2>1
<1>8. QED
  BY <1>7 DEF n

LEMMA GroupedIs ==
  ASSUME NEW S, NEW s \in Seq(S)
  PROVE  \E f : IsFold(f, s) /\ Grouped(s) = f[DOMAIN s]
<1> DEFINE f == CHOOSE f : IsFold(f, s)
<1>1. IsFold(f, s)
  BY FoldExists
<1>2. Grouped(s) = f[DOMAIN s]
  BY DEF Grouped, FoldLeft, MapThenFoldSet, IsFold
<1>3. QED
  BY <1>1, <1>2

(* One instance at a time, in their order.                                 *)
LEMMA GroupedEmpty == Grouped(<< >>) = << >>
<1>1. PICK f : IsFold(f, << >>) /\ Grouped(<< >>) = f[DOMAIN << >>]
  BY GroupedIs, EmptySeq
<1>2. f[{}] = << >>
  BY <1>1, FoldAt
<1>3. QED
  BY <1>1, <1>2

LEMMA GroupedStep ==
  ASSUME NEW S, NEW s \in Seq(S), NEW e \in S
  PROVE  Grouped(Append(s, e)) = AddToGroup(Grouped(s), e)
<1> DEFINE n == Len(s)
           q == Append(s, e)
<1>3. /\ n \in Nat /\ DOMAIN s = 1 .. n /\ DOMAIN q = 1 .. n + 1 /\ q \in Seq(S)
      /\ q[n + 1] = e
  BY AppendProperties, LenProperties
<1>4. PICK f : IsFold(f, s) /\ Grouped(s) = f[1 .. n]
  BY <1>3, GroupedIs
<1>5. PICK g : IsFold(g, q) /\ Grouped(q) = g[1 .. n + 1]
  <2> HIDE DEF q
  <2> QED
    BY <1>3, GroupedIs
<1>6. g[1 .. n] = f[1 .. n]
  BY <1>4, <1>5, FoldExtends
<1> HIDE DEF n, q
<1>7. Max(1 .. n + 1) = n + 1
  <2> DEFINE I == 1 .. n + 1
  <2>1. n + 1 \in I /\ n + 1 \in Nat
    BY <1>3
  <2>2. I # {}
    BY <2>1
  <2>3. Max(I) \in I /\ \A k \in I : k <= Max(I)
    <3>1. I \in SUBSET (1 .. n + 1)
      OBVIOUS
    <3> HIDE DEF I
    <3>2. QED
      BY <2>1, <2>2, <3>1, MaxOfNats
  <2>4. n + 1 <= Max(I) /\ Max(I) <= n + 1 /\ Max(I) \in Int
    BY <1>3, <2>1, <2>3
  <2>5. QED
    BY <1>3, <2>4
<1>8. (1 .. n + 1) \ {n + 1} = 1 .. n
  BY <1>3
<1>9. g[1 .. n + 1] = AddToGroup(g[1 .. n], e)
  <2>1. 1 .. n + 1 # {}
    <3>1. 1 \in 1 .. n + 1
      BY <1>3
    <3>2. QED
      BY <3>1
  <2>2. g[1 .. n + 1] = AddToGroup(g[(1 .. n + 1) \ {n + 1}], q[n + 1])
    BY <1>3, <1>5, <1>7, <2>1, FoldAt
  <2>3. QED
    BY <1>3, <1>8, <2>2
<1>10. QED
  BY <1>4, <1>5, <1>6, <1>9 DEF q

-----------------------------------------------------------------------------
(* What the groups are: one for every app, of all its instances in their   *)
(* order.                                                                  *)
Inst == [cvm : Cvms, verdicts : Seq(Verdicts), at : Time]

OfApp(app) == {x \in Inst : x.cvm.app_id = app}
AppOf(g)   == g[1].cvm.app_id

Partitioned(s, groups) ==
    /\ groups \in Seq(Seq(Inst))
    /\ \A i \in DOMAIN groups : /\ groups[i] # << >>
                                /\ groups[i] = Keep(s, OfApp(AppOf(groups[i])))
    /\ \A i, j \in DOMAIN groups : AppOf(groups[i]) = AppOf(groups[j]) => i = j
    /\ \A x \in ToSet(s) : \E i \in DOMAIN groups : AppOf(groups[i]) = x.cvm.app_id

GroupOf(groups, app) ==
    LET I == {i \in 1 .. Len(groups) : AppOf(groups[i]) = app}
    IN  IF I # {} THEN Min(I) ELSE 0

LEMMA GroupFound ==
  ASSUME NEW groups \in Seq(Seq(Inst)), NEW app
  PROVE  LET k == GroupOf(groups, app)
         IN  \/ k = 0 /\ \A i \in DOMAIN groups : AppOf(groups[i]) # app
             \/ k \in DOMAIN groups /\ AppOf(groups[k]) = app
<1> DEFINE I == {i \in 1 .. Len(groups) : AppOf(groups[i]) = app}
           k == GroupOf(groups, app)
<1>1. k = IF I # {} THEN Min(I) ELSE 0
  BY DEF GroupOf
<1>2. I \in SUBSET Nat /\ DOMAIN groups = 1 .. Len(groups)
  BY LenProperties
<1>3. I # {} => Min(I) \in I
  BY <1>2, MinOfNats
<1> HIDE DEF k
<1>4. QED
  BY <1>1, <1>2, <1>3 DEF k

LEMMA NewGroup ==
  ASSUME NEW s \in Seq(Inst), NEW x \in Inst, NEW groups, Partitioned(s, groups),
         \A i \in DOMAIN groups : AppOf(groups[i]) # x.cvm.app_id
  PROVE  Partitioned(Append(s, x), Append(groups, <<x>>))
<1> DEFINE n == Len(groups)
           new == Append(groups, <<x>>)
<1>1. /\ groups \in Seq(Seq(Inst)) /\ <<x>> \in Seq(Inst)
      /\ \A i \in DOMAIN groups : groups[i] # << >>
      /\ \A i, j \in DOMAIN groups : AppOf(groups[i]) = AppOf(groups[j]) => i = j
      /\ \A y \in ToSet(s) : \E i \in DOMAIN groups : AppOf(groups[i]) = y.cvm.app_id
  BY DEF Partitioned
<1>2. /\ n \in Nat /\ DOMAIN groups = 1 .. n /\ DOMAIN new = 1 .. n + 1
      /\ new \in Seq(Seq(Inst)) /\ new[n + 1] = <<x>>
      /\ \A i \in 1 .. n : new[i] = groups[i]
  BY <1>1, AppendProperties, LenProperties
<1> HIDE DEF n, new
<1>3. AppOf(new[n + 1]) = x.cvm.app_id
  BY <1>2 DEF AppOf
<1>4. \A i \in 1 .. n : AppOf(new[i]) = AppOf(groups[i])
  BY <1>2
<1>5. ASSUME NEW i \in 1 .. n + 1, NEW j \in 1 .. n + 1, AppOf(new[i]) = AppOf(new[j])
      PROVE  i = j
  <2>1. CASE i \in 1 .. n /\ j \in 1 .. n
    BY <1>1, <1>2, <1>4, <1>5, <2>1
  <2>2. \A l \in 1 .. n : AppOf(new[l]) # AppOf(new[n + 1])
    BY <1>2, <1>3, <1>4
  <2>3. \A l \in 1 .. n + 1 : l \in 1 .. n \/ l = n + 1
    BY <1>2
  <2>4. QED
    BY <1>5, <2>1, <2>2, <2>3
<1>6. ASSUME NEW i \in 1 .. n + 1
      PROVE  new[i] # << >> /\ new[i] = Keep(Append(s, x), OfApp(AppOf(new[i])))
  <2>1. CASE i \in 1 .. n
    <3>1. x \notin OfApp(AppOf(new[i]))
      BY <1>2, <1>4, <2>1 DEF OfApp
    <3>2. new[i] = groups[i] /\ groups[i] = Keep(s, OfApp(AppOf(new[i])))
      BY <1>2, <1>4, <2>1 DEF Partitioned
    <3> DEFINE P == OfApp(AppOf(new[i]))
    <3> HIDE DEF P
    <3>3. Keep(Append(s, x), P) = Keep(s, P)
      BY <3>1, KeepAppend DEF P
    <3>4. new[i] # << >>
      BY <1>1, <1>2, <2>1
    <3>5. QED
      BY <3>2, <3>3, <3>4 DEF P
  <2>2. CASE i = n + 1
    <3> DEFINE P == OfApp(x.cvm.app_id)
    <3>1. x \in P
      BY DEF OfApp
    <3>2. ToSet(s) \cap P = {}
      BY <1>1 DEF OfApp
    <3> HIDE DEF P
    <3>3. Keep(s, P) \in Seq(Inst) /\ ToSet(Keep(s, P)) = {}
      BY <3>2, KeepElements
    <3>4. Keep(s, P) = << >>
      <4>1. ASSUME Keep(s, P) # << >> PROVE FALSE
        <5>1. 1 \in DOMAIN Keep(s, P)
          BY <3>3, <4>1, EmptySeq, LenProperties
        <5>2. QED
          BY <3>3, <5>1 DEF ToSet
      <4>2. QED
        BY <4>1
    <3>5. Keep(Append(s, x), P) = Append(<< >>, x)
      BY <3>1, <3>4, KeepAppend
    <3>6. Append(<< >>, x) = <<x>> /\ <<x>> # << >>
      OBVIOUS
    <3>7. QED
      BY <1>2, <1>3, <2>2, <3>5, <3>6 DEF P
  <2>3. QED
    BY <1>2, <2>1, <2>2
<1>7. ASSUME NEW y \in ToSet(Append(s, x))
      PROVE  \E i \in 1 .. n + 1 : AppOf(new[i]) = y.cvm.app_id
  <2>1. CASE y = x
    <3>1. n + 1 \in 1 .. n + 1
      BY <1>2
    <3>2. QED
      BY <1>3, <2>1, <3>1
  <2>2. CASE y \in ToSet(s)
    <3>1. PICK i \in 1 .. n : AppOf(groups[i]) = y.cvm.app_id
      BY <1>1, <1>2, <2>2
    <3>2. i \in 1 .. n + 1 /\ AppOf(new[i]) = y.cvm.app_id
      BY <1>2, <1>4, <3>1
    <3>3. QED
      BY <3>2
  <2>3. QED
    BY <2>1, <2>2, ToSetAppend
<1>8. QED
  BY <1>2, <1>5, <1>6, <1>7 DEF Partitioned, new

LEMMA LongerGroup ==
  ASSUME NEW s \in Seq(Inst), NEW x \in Inst, NEW groups, Partitioned(s, groups),
         NEW k \in DOMAIN groups, AppOf(groups[k]) = x.cvm.app_id
  PROVE  Partitioned(Append(s, x), [groups EXCEPT ![k] = Append(@, x)])
<1> DEFINE n == Len(groups)
           new == [groups EXCEPT ![k] = Append(@, x)]
<1>1. /\ groups \in Seq(Seq(Inst))
      /\ \A i \in DOMAIN groups : groups[i] # << >>
      /\ \A i, j \in DOMAIN groups : AppOf(groups[i]) = AppOf(groups[j]) => i = j
      /\ \A y \in ToSet(s) : \E i \in DOMAIN groups : AppOf(groups[i]) = y.cvm.app_id
  BY DEF Partitioned
<1>2. /\ n \in Nat /\ DOMAIN groups = 1 .. n /\ groups[k] \in Seq(Inst)
      /\ Append(groups[k], x) \in Seq(Inst) /\ Append(groups[k], x) # << >>
  <2>1. n \in Nat /\ DOMAIN groups = 1 .. n /\ groups \in [1 .. n -> Seq(Inst)]
    BY <1>1, LenProperties
  <2>2. groups[k] \in Seq(Inst)
    BY <2>1
  <2>3. QED
    BY <2>1, <2>2, AppendProperties
<1>3. /\ new \in Seq(Seq(Inst)) /\ DOMAIN new = 1 .. n
      /\ new[k] = Append(groups[k], x)
      /\ \A i \in 1 .. n : i # k => new[i] = groups[i]
  <2>1. new \in Seq(Seq(Inst)) /\ Len(new) = n
    BY <1>1, <1>2, ExceptSeq
  <2>2. QED
    BY <1>2, <2>1
<1> HIDE DEF n, new
<1>4. AppOf(new[k]) = AppOf(groups[k])
  <2>1. 1 \in 1 .. Len(groups[k])
    BY <1>1, <1>2, EmptySeq
  <2>2. Append(groups[k], x)[1] = groups[k][1]
    BY <1>2, <2>1, AppendProperties
  <2>3. QED
    BY <1>3, <2>2 DEF AppOf
<1>5. \A i \in 1 .. n : AppOf(new[i]) = AppOf(groups[i])
  BY <1>3, <1>4
<1>6. ASSUME NEW i \in 1 .. n
      PROVE  new[i] # << >> /\ new[i] = Keep(Append(s, x), OfApp(AppOf(new[i])))
  <2> DEFINE P == OfApp(AppOf(groups[i]))
  <2>1. groups[i] = Keep(s, P) /\ AppOf(new[i]) = AppOf(groups[i])
    BY <1>2, <1>5 DEF Partitioned
  <2>2. CASE i = k
    <3>1. x \in P
      BY <2>2 DEF OfApp
    <3> HIDE DEF P
    <3>2. Keep(Append(s, x), P) = Append(groups[i], x)
      BY <2>1, <3>1, KeepAppend
    <3>3. QED
      BY <1>2, <1>3, <2>1, <2>2, <3>2 DEF P
  <2>3. CASE i # k
    <3>1. x \notin P
      BY <1>1, <1>2, <2>3 DEF OfApp
    <3> HIDE DEF P
    <3>2. Keep(Append(s, x), P) = groups[i]
      BY <2>1, <3>1, KeepAppend
    <3>3. QED
      BY <1>1, <1>2, <1>3, <2>1, <2>3, <3>2 DEF P
  <2>4. QED
    BY <2>2, <2>3
<1>7. ASSUME NEW y \in ToSet(Append(s, x))
      PROVE  \E i \in 1 .. n : AppOf(new[i]) = y.cvm.app_id
  <2>1. CASE y = x
    BY <1>2, <1>5, <2>1
  <2>2. CASE y \in ToSet(s)
    BY <1>1, <1>2, <1>5, <2>2
  <2>3. QED
    BY <2>1, <2>2, ToSetAppend
<1>8. QED
  BY <1>1, <1>2, <1>3, <1>5, <1>6, <1>7 DEF Partitioned, new

LEMMA GroupsPartition ==
  ASSUME NEW s \in Seq(Inst)
  PROVE  Partitioned(s, Grouped(s))
<1> DEFINE T == {t \in Seq(Inst) : Partitioned(t, Grouped(t))}
<1>1. << >> \in T
  <2>1. Partitioned(<< >>, << >>)
    BY EmptySeq, ToSetEmpty DEF Partitioned
  <2>2. QED
    BY <2>1, EmptySeq, GroupedEmpty
<1>2. ASSUME NEW t \in Seq(Inst), NEW x \in Inst, t \in T PROVE Append(t, x) \in T
  <2> DEFINE groups == Grouped(t)
             k == GroupOf(groups, x.cvm.app_id)
  <2>1. Partitioned(t, groups) /\ groups \in Seq(Seq(Inst))
    BY <1>2 DEF Partitioned
  <2>2. Grouped(Append(t, x)) = IF k = 0 THEN Append(groups, <<x>>)
                                ELSE [groups EXCEPT ![k] = Append(@, x)]
    <3>1. Grouped(Append(t, x)) = AddToGroup(groups, x)
      BY GroupedStep
    <3> HIDE DEF groups
    <3>2. AddToGroup(groups, x) = IF k = 0 THEN Append(groups, <<x>>)
                                  ELSE [groups EXCEPT ![k] = Append(@, x)]
      BY DEF AddToGroup, SelectInSeq, GroupOf, AppOf
    <3>3. QED
      BY <3>1, <3>2
  <2>3. \/ k = 0 /\ \A i \in DOMAIN groups : AppOf(groups[i]) # x.cvm.app_id
        \/ k \in DOMAIN groups /\ AppOf(groups[k]) = x.cvm.app_id
    <3> HIDE DEF groups
    <3>1. QED
      BY <2>1, GroupFound
  <2>4. DOMAIN groups = 1 .. Len(groups)
    BY <2>1, LenProperties
  <2> HIDE DEF k, groups
  <2>5. CASE k = 0
    <3>1. \A i \in DOMAIN groups : AppOf(groups[i]) # x.cvm.app_id
      BY <2>3, <2>4, <2>5
    <3>2. Partitioned(Append(t, x), Append(groups, <<x>>))
      BY <2>1, <3>1, NewGroup
    <3>3. QED
      BY <2>2, <2>5, <3>2, AppendProperties
  <2>6. CASE k \in DOMAIN groups /\ AppOf(groups[k]) = x.cvm.app_id
    <3>1. Partitioned(Append(t, x), [groups EXCEPT ![k] = Append(@, x)])
      BY <2>1, <2>6, LongerGroup
    <3>2. k # 0
      BY <2>4, <2>6
    <3>3. QED
      BY <2>2, <3>1, <3>2, AppendProperties
  <2>7. QED
    BY <2>3, <2>5, <2>6
<1>3. Seq(Inst) \subseteq T
  <2> HIDE DEF T
  <2> QED
    BY <1>1, <1>2, SeqSetInduction
<1>4. QED
  BY <1>3

-----------------------------------------------------------------------------
(* The site only reads: everything proved of the portal holds here.        *)
LEMMA SiteStep == [SiteNext]_siteVars => [Next]_vars
  BY DEF SiteNext, siteVars

(* A visitor changes nothing of the portal: the site's behaviours are, for *)
(* the portal, behaviours of its own specification.                        *)
THEOREM SiteRefinesPortal == SiteSpec => Spec
<1>1. SiteInit => Init
  BY DEF SiteInit
<1>2. QED
  BY <1>1, SiteStep, PTL DEF SiteSpec, Spec

-----------------------------------------------------------------------------
(* What a page is made from: one view of every stored report.              *)
View(map, n) ==
    [at |-> map[n].at, cvms |-> CvmsOf[map[n].push],
     verdicts |-> IF map[n].verdicts = None THEN << >> ELSE VerdictsOf[map[n].verdicts]]

Viewed == [at : Time, cvms : Seq(Cvms), verdicts : Seq(Verdicts)]
Stored(map) == {n \in Node : map[n] # None}

LEMMA ViewType ==
  ASSUME NEW map \in Map, NEW n \in Stored(map)
  PROVE  View(map, n) \in Viewed
<1>1. /\ map[n].push \in Push /\ map[n].at \in Time
      /\ map[n].verdicts \in Push \cup {None}
  BY EntryTypes DEF Stored
<1>2. CvmsOf[map[n].push] \in Seq(Cvms)
  BY <1>1, SiteAssumption
<1>3. map[n].verdicts # None => VerdictsOf[map[n].verdicts] \in Seq(Verdicts)
  BY <1>1, SiteAssumption
<1>4. << >> \in Seq(Verdicts)
  BY EmptySeq
<1>5. QED
  BY <1>1, <1>2, <1>3, <1>4 DEF View, Viewed

LEMMA SnapshotViews ==
  ASSUME NEW map \in Map
  PROVE  /\ Snapshot(map) \in Seq(Viewed)
         /\ ToSet(Snapshot(map)) = {View(map, n) : n \in Stored(map)}
<1> DEFINE known == Keep(NodeOrder, Stored(map))
<1>1. NodeOrder \in Seq(Node) /\ ToSet(NodeOrder) = Node
  <2>1. NodeOrder \in Seq(Node) /\ \A n \in Node : \E i \in DOMAIN NodeOrder : NodeOrder[i] = n
    BY SiteAssumption
  <2>2. ToSet(NodeOrder) \subseteq Node
    BY <2>1, ToSetType
  <2>3. QED
    BY <2>1, <2>2 DEF ToSet
<1>2. known \in Seq(Node) /\ ToSet(known) = Stored(map)
  <2>1. Stored(map) \subseteq Node
    BY DEF Stored
  <2>2. known \in Seq(Node) /\ ToSet(known) = ToSet(NodeOrder) \cap Stored(map)
    BY <1>1, KeepElements
  <2>3. QED
    BY <1>1, <2>1, <2>2
<1>3. Selected(NodeOrder, LAMBDA n : map[n] # None) = known
  <2>1. \A i \in DOMAIN NodeOrder : NodeOrder[i] \in Node
    BY <1>1, LenProperties
  <2>2. \A i \in DOMAIN NodeOrder : map[NodeOrder[i]] # None <=> NodeOrder[i] \in Stored(map)
    BY <2>1 DEF Stored
  <2>3. QED
    BY <2>2 DEF Selected, Keep, Pick
<1>4. Snapshot(map) = [i \in DOMAIN known |-> View(map, known[i])]
  BY <1>3 DEF Snapshot, View
<1> HIDE DEF known
<1>5. DOMAIN known = 1 .. Len(known) /\ Len(known) \in Nat
  BY <1>2, LenProperties
<1>6. \A i \in DOMAIN known : known[i] \in Stored(map)
  BY <1>2 DEF ToSet
<1>7. \A i \in DOMAIN known : View(map, known[i]) \in Viewed
  BY <1>6, ViewType
<1>8. Snapshot(map) \in Seq(Viewed)
  BY <1>4, <1>5, <1>7
<1>9. ToSet(Snapshot(map)) = {View(map, n) : n \in Stored(map)}
  BY <1>2, <1>4 DEF ToSet
<1>10. QED
  BY <1>8, <1>9

-----------------------------------------------------------------------------
(* The instances on a page: every CVM of every view, with what its own     *)
(* node says of it.                                                        *)
InstanceOf(d, c) == [cvm |-> c, verdicts |-> d.verdicts, at |-> d.at]

LEMMA InstancesAre ==
  ASSUME NEW nodes \in Seq(Viewed)
  PROVE  /\ Instances(nodes) \in Seq(Inst)
         /\ \A x : x \in ToSet(Instances(nodes)) <=>
                \E d \in ToSet(nodes) : \E c \in ToSet(d.cvms) : x = InstanceOf(d, c)
<1> DEFINE of(d) == [j \in DOMAIN d.cvms |-> InstanceOf(d, d.cvms[j])]
           all == [i \in DOMAIN nodes |-> of(nodes[i])]
<1>1. Instances(nodes) = FlattenSeq(all)
  BY DEF Instances, InstanceOf
<1>2. DOMAIN nodes = 1 .. Len(nodes) /\ Len(nodes) \in Nat
      /\ \A i \in DOMAIN nodes : nodes[i] \in Viewed
  BY LenProperties
<1>3. ASSUME NEW d \in Viewed PROVE of(d) \in Seq(Inst)
  <2>1. d.cvms \in Seq(Cvms) /\ d.verdicts \in Seq(Verdicts) /\ d.at \in Time
    BY DEF Viewed
  <2>2. DOMAIN d.cvms = 1 .. Len(d.cvms) /\ Len(d.cvms) \in Nat
        /\ \A j \in DOMAIN d.cvms : d.cvms[j] \in Cvms
    BY <2>1, LenProperties
  <2>3. \A j \in DOMAIN d.cvms : InstanceOf(d, d.cvms[j]) \in Inst
    BY <2>1, <2>2 DEF InstanceOf, Inst
  <2>4. QED
    BY <2>2, <2>3
<1>4. all \in Seq(Seq(Inst))
  <2> HIDE DEF of
  <2> QED
    BY <1>2, <1>3
<1>5. Instances(nodes) \in Seq(Inst)
  BY <1>1, <1>4, FlattenType
<1>6. ToSet(Instances(nodes)) = UNION {ToSet(t) : t \in ToSet(all)}
  BY <1>1, <1>4, FlattenElements
<1>7. ToSet(all) = {of(d) : d \in ToSet(nodes)}
  <2> HIDE DEF of
  <2> QED
    BY DEF ToSet
<1>8. \A d : ToSet(of(d)) = {InstanceOf(d, c) : c \in ToSet(d.cvms)}
  BY DEF ToSet
<1>9. ASSUME NEW x
      PROVE  x \in ToSet(Instances(nodes))
                <=> \E d \in ToSet(nodes) : \E c \in ToSet(d.cvms) : x = InstanceOf(d, c)
  <2> HIDE DEF of, all
  <2>1. x \in ToSet(Instances(nodes)) <=> \E d \in ToSet(nodes) : x \in ToSet(of(d))
    BY <1>6, <1>7
  <2>2. QED
    BY <1>8, <2>1
<1>10. QED
  BY <1>5, <1>9

-----------------------------------------------------------------------------
(* The rows: one for each app, made of all its instances.                  *)
AppsOf(s)  == {x.cvm.app_id : x \in ToSet(s)}
GroupFor(s, app) == Keep(s, OfApp(app))

LEMMA GroupForApp ==
  ASSUME NEW s \in Seq(Inst), NEW app \in AppsOf(s)
  PROVE  LET g == GroupFor(s, app)
         IN  /\ g \in Seq(Inst) /\ ToSet(g) = {x \in ToSet(s) : x.cvm.app_id = app}
             /\ g # << >> /\ 1 \in DOMAIN g /\ AppOf(g) = app
             /\ Len(g) = Cardinality({k \in DOMAIN s : s[k].cvm.app_id = app})
<1> DEFINE g == GroupFor(s, app)
<1>1. g \in Seq(Inst) /\ ToSet(g) = ToSet(s) \cap OfApp(app)
  BY KeepElements DEF GroupFor
<1>2. ToSet(s) \subseteq Inst /\ \A k \in DOMAIN s : s[k] \in Inst
  BY ToSetType, LenProperties
<1>3. Len(g) = Cardinality({k \in DOMAIN s : s[k].cvm.app_id = app})
  <2>1. {k \in DOMAIN s : s[k].cvm.app_id = app} = {k \in DOMAIN s : s[k] \in OfApp(app)}
    BY <1>2 DEF OfApp
  <2>2. QED
    BY <2>1, KeepCount DEF GroupFor
<1> HIDE DEF g
<1>4. ToSet(g) = {x \in ToSet(s) : x.cvm.app_id = app}
  BY <1>1, <1>2 DEF OfApp
<1>5. PICK x \in ToSet(s) : x.cvm.app_id = app
  BY DEF AppsOf
<1>6. g # << >>
  BY <1>4, <1>5, ToSetEmpty
<1>7. 1 \in DOMAIN g
  BY <1>1, <1>6, EmptySeq, LenProperties
<1>8. AppOf(g) = app
  BY <1>4, <1>7 DEF AppOf, ToSet
<1>9. QED
  BY <1>1, <1>3, <1>4, <1>6, <1>7, <1>8 DEF g

Row == {AppRow(g) : g \in Seq(Inst)}
RowApp == [r \in Row |-> r.app_id]

LEMMA RowsAre ==
  ASSUME NEW nodes \in Seq(Viewed)
  PROVE  LET s == Instances(nodes)
         IN  /\ Rows(nodes) \in Seq(Row) /\ Distinct(Rows(nodes), RowApp)
             /\ ToSet(Rows(nodes)) = {AppRow(GroupFor(s, app)) : app \in AppsOf(s)}
<1> DEFINE s == Instances(nodes)
           groups == Grouped(s)
<1>1. s \in Seq(Inst)
  BY InstancesAre
<1>2. Rows(nodes) = [i \in DOMAIN groups |-> AppRow(groups[i])]
  BY DEF Rows, GroupByApp, Grouped
<1> HIDE DEF s
<1>3. Partitioned(s, groups)
  BY <1>1, GroupsPartition
<1> HIDE DEF groups
<1>4. /\ groups \in Seq(Seq(Inst))
      /\ \A i \in DOMAIN groups : groups[i] # << >> /\ groups[i] = GroupFor(s, AppOf(groups[i]))
      /\ \A i, j \in DOMAIN groups : AppOf(groups[i]) = AppOf(groups[j]) => i = j
      /\ \A x \in ToSet(s) : \E i \in DOMAIN groups : AppOf(groups[i]) = x.cvm.app_id
  BY <1>3 DEF Partitioned, GroupFor
<1>5. /\ DOMAIN groups = 1 .. Len(groups) /\ Len(groups) \in Nat
      /\ \A i \in DOMAIN groups : groups[i] \in Seq(Inst)
  BY <1>4, LenProperties
<1>6. \A i \in DOMAIN groups : AppRow(groups[i]) \in Row
  BY <1>5 DEF Row
<1>7. Rows(nodes) \in Seq(Row) /\ DOMAIN Rows(nodes) = DOMAIN groups
  BY <1>2, <1>5, <1>6
<1>8. \A i \in DOMAIN groups : RowApp[Rows(nodes)[i]] = AppOf(groups[i])
  BY <1>2, <1>6 DEF RowApp, AppRow, AppOf
<1>9. Distinct(Rows(nodes), RowApp)
  BY <1>4, <1>7, <1>8 DEF Distinct
<1>10. {AppOf(groups[i]) : i \in DOMAIN groups} = AppsOf(s)
  <2>1. ASSUME NEW i \in DOMAIN groups PROVE AppOf(groups[i]) \in AppsOf(s)
    <3>1. 1 \in DOMAIN groups[i]
      BY <1>4, <1>5, EmptySeq, LenProperties
    <3>2. groups[i][1] \in ToSet(groups[i])
      BY <3>1 DEF ToSet
    <3>3. ToSet(groups[i]) = ToSet(s) \cap OfApp(AppOf(groups[i]))
      BY <1>1, <1>4, KeepElements DEF GroupFor
    <3>4. QED
      BY <3>2, <3>3 DEF AppsOf, AppOf
  <2>2. AppsOf(s) \subseteq {AppOf(groups[i]) : i \in DOMAIN groups}
    BY <1>4 DEF AppsOf
  <2>3. QED
    BY <2>1, <2>2
<1>11. ToSet(Rows(nodes)) = {AppRow(GroupFor(s, app)) : app \in AppsOf(s)}
  <2>1. ToSet(Rows(nodes)) = {AppRow(groups[i]) : i \in DOMAIN groups}
    BY <1>2, <1>7 DEF ToSet
  <2>2. {AppRow(groups[i]) : i \in DOMAIN groups}
           = {AppRow(GroupFor(s, AppOf(groups[i]))) : i \in DOMAIN groups}
    BY <1>4
  <2>3. QED
    BY <1>10, <2>1, <2>2
<1>12. QED
  BY <1>7, <1>9, <1>11 DEF s

(* Splitting the rows in two lists loses none and repeats none.            *)
LEMMA AllRowsAre ==
  ASSUME NEW nodes \in Seq(Viewed)
  PROVE  LET s == Instances(nodes)
             rows == AllRows(nodes)
         IN  /\ \A i, j \in DOMAIN rows : rows[i].app_id = rows[j].app_id => i = j
             /\ ToSet(rows) = {AppRow(GroupFor(s, app)) : app \in AppsOf(s)}
<1> DEFINE rows == Rows(nodes)
           Infra == {r \in Row : Infrastructure(r.role)}
           Primary == {r \in Row : ~Infrastructure(r.role)}
           first == Keep(rows, Primary)
           second == Keep(rows, Infra)
           all == first \o second
<1>1. rows \in Seq(Row) /\ Distinct(rows, RowApp)
  BY RowsAre
<1>2. AllRows(nodes) = all
  <2>1. \A i \in DOMAIN rows : rows[i] \in Row
    BY <1>1, LenProperties
  <2>2. \A i \in DOMAIN rows : /\ ~Infrastructure(rows[i].role) <=> rows[i] \in Primary
                               /\ Infrastructure(rows[i].role) <=> rows[i] \in Infra
    BY <2>1
  <2> HIDE DEF rows, Primary, Infra
  <2>3. Selected(rows, LAMBDA r : ~Infrastructure(r.role)) = first
    BY <2>2 DEF Selected, Keep, Pick
  <2>4. Selected(rows, LAMBDA r : Infrastructure(r.role)) = second
    BY <2>2 DEF Selected, Keep, Pick
  <2>5. QED
    BY <2>3, <2>4 DEF AllRows, FleetList, rows
<1> HIDE DEF rows
<1>3. /\ first \in Seq(Row) /\ ToSet(first) = ToSet(rows) \cap Primary
      /\ second \in Seq(Row) /\ ToSet(second) = ToSet(rows) \cap Infra
      /\ ToSet(rows) \subseteq Row
  BY <1>1, KeepElements, ToSetType
<1>4. Distinct(first, RowApp) /\ Distinct(second, RowApp)
  BY <1>1, KeepDistinct
<1>5. \A x \in ToSet(first), y \in ToSet(second) : RowApp[x] # RowApp[y]
  <2>1. \A x, y \in ToSet(rows) : RowApp[x] = RowApp[y] => x = y
    BY <1>1 DEF Distinct, ToSet
  <2>2. Primary \cap Infra = {}
    OBVIOUS
  <2>3. QED
    BY <1>3, <2>1, <2>2
<1> HIDE DEF first, second
<1>6. Distinct(all, RowApp) /\ all \in Seq(Row) /\ ToSet(all) = ToSet(first) \cup ToSet(second)
  BY <1>3, <1>4, <1>5, DistinctConcat, ToSetConcat, ConcatProperties
<1> HIDE DEF all
<1>7. ToSet(all) = ToSet(rows)
  BY <1>3, <1>6
<1>8. \A i \in DOMAIN all : all[i] \in Row
  BY <1>6, LenProperties
<1>9. \A i, j \in DOMAIN all : all[i].app_id = all[j].app_id => i = j
  BY <1>6, <1>8 DEF Distinct, RowApp
<1>10. QED
  BY <1>2, <1>7, <1>9, RowsAre DEF rows

-----------------------------------------------------------------------------
(* The cards: one for each instance of the app, in their order.            *)
LEMMA PageOfApp ==
  ASSUME NEW nodes \in Seq(Viewed), NEW app \in AppsOf(Instances(nodes)), app # "", NEW now
  PROVE  LET g == GroupFor(Instances(nodes), app)
             cards == RenderApp(app, now, nodes)
         IN  /\ DOMAIN cards = DOMAIN g /\ cards # << >> /\ Len(cards) = Len(g)
             /\ \A k \in DOMAIN g : cards[k] = Card(g[k], k, Len(g), now)
<1> DEFINE s == Instances(nodes)
           g == GroupFor(s, app)
           cards == RenderApp(app, now, nodes)
<1>1. s \in Seq(Inst) /\ g \in Seq(Inst) /\ 1 \in DOMAIN g
  BY InstancesAre, GroupForApp
<1>2. cards = [i \in DOMAIN g |-> Card(g[i], i, Len(g), now)]
  <2>1. \A i \in DOMAIN s : s[i] \in Inst
    BY <1>1, LenProperties
  <2>2. \A i \in DOMAIN s : s[i].cvm.app_id = app <=> s[i] \in OfApp(app)
    BY <2>1 DEF OfApp
  <2> HIDE DEF s
  <2>3. Selected(s, LAMBDA x : x.cvm.app_id = app) = GroupFor(s, app)
    BY <2>2 DEF Selected, GroupFor, Keep, Pick
  <2>4. QED
    BY <2>3 DEF RenderApp, s
<1> HIDE DEF s, g, cards
<1>3. DOMAIN cards = DOMAIN g /\ cards = [i \in DOMAIN g |-> cards[i]]
  BY <1>2
<1>4. Len(cards) = Len(g) /\ cards # << >>
  BY <1>1, <1>3, SameLength
<1>5. QED
  BY <1>2, <1>3, <1>4 DEF g, cards, s

LEMMA CardFields ==
  ASSUME NEW x, NEW i, NEW total, NEW now
  PROVE  /\ Card(x, i, total, now).role = x.cvm.role
         /\ Card(x, i, total, now).network = x.cvm.network
  BY DEF Card

LEMMA NodesAre ==
  ASSUME TypeOK
  PROVE  /\ Nodes \in Seq(Viewed)
         /\ ToSet(Nodes) = {View(reports, n) : n \in Stored(reports)}
  BY SnapshotViews DEF Nodes, TypeOK, PortalTypeOK

(* Type correctness of the portal, under the site.                         *)
LEMMA SiteTypeOK == SiteSpec => []TypeOK
  BY SiteRefinesPortal, TypeCorrect

(* The apps of the index are apps of CVMs, and those are in the reports.   *)
LEMMA RowsOfApps ==
  ASSUME NEW nodes \in Seq(Viewed)
  PROVE  AppIds(AllRows(nodes)) \subseteq AppsOf(Instances(nodes))
<1> DEFINE rows == AllRows(nodes)
           shown == Instances(nodes)
<1>1. ToSet(rows) = {AppRow(GroupFor(shown, app)) : app \in AppsOf(shown)}
  BY AllRowsAre
<1>2. \A app \in AppsOf(shown) : AppRow(GroupFor(shown, app)).app_id = app
  BY InstancesAre, GroupForApp DEF AppRow, AppOf
<1> HIDE DEF rows, shown
<1>3. AppIds(rows) \subseteq AppsOf(shown)
  BY <1>1, <1>2 DEF AppIds, ToSet
<1>4. QED
  BY <1>3 DEF rows, shown

LEMMA AppIsCarried ==
  ASSUME TypeOK, NEW app \in AppsOf(Instances(Nodes))
  PROVE  \E n \in Node : Carries(reports, n, app)
<1>1. Nodes \in Seq(Viewed) /\ ToSet(Nodes) = {View(reports, n) : n \in Stored(reports)}
  BY NodesAre
<1>2. PICK x \in ToSet(Instances(Nodes)) : x.cvm.app_id = app
  BY DEF AppsOf
<1>3. PICK d \in ToSet(Nodes) : \E c \in ToSet(d.cvms) : x = InstanceOf(d, c)
  BY <1>1, <1>2, InstancesAre
<1>4. PICK n \in Stored(reports) : d = View(reports, n)
  BY <1>1, <1>3
<1>5. PICK c \in ToSet(d.cvms) : x = InstanceOf(d, c)
  BY <1>3
<1>6. c \in ToSet(CvmsOf[reports[n].push]) /\ c.app_id = app
  BY <1>2, <1>4, <1>5 DEF View, InstanceOf
<1>7. Carries(reports, n, app) /\ n \in Node
  BY <1>4, <1>6 DEF Stored, Carries, ToSet
<1>8. QED
  BY <1>7

-----------------------------------------------------------------------------
(* The index lists every CVM of every stored report under its app, and     *)
(* every app once, for any reports of any nodes in any order.              *)
THEOREM IndexCompleteTheorem == SiteSpec => []IndexComplete
<1>1. TypeOK => IndexComplete
  <2> SUFFICES ASSUME TypeOK PROVE IndexComplete
    OBVIOUS
  <2> DEFINE rows == AllRows(Nodes)
             shown == Instances(Nodes)
  <2>1. Nodes \in Seq(Viewed) /\ shown \in Seq(Inst)
    BY NodesAre, InstancesAre
  <2>2. /\ \A i, j \in DOMAIN rows : rows[i].app_id = rows[j].app_id => i = j
        /\ ToSet(rows) = {AppRow(GroupFor(shown, app)) : app \in AppsOf(shown)}
    BY <2>1, AllRowsAre
  <2> HIDE DEF rows, shown
  <2> DEFINE count(app) == Cardinality({k \in DOMAIN shown : shown[k].cvm.app_id = app})
  <2>3. ASSUME NEW app \in AppsOf(shown)
        PROVE  LET r == AppRow(GroupFor(shown, app))
               IN  r.app_id = app /\ r.instance_count = count(app)
    BY <2>1, GroupForApp DEF AppRow, AppOf
  <2>4. ASSUME NEW i \in DOMAIN rows
        PROVE  rows[i].instance_count = count(rows[i].app_id)
    <3>1. PICK app \in AppsOf(shown) : rows[i] = AppRow(GroupFor(shown, app))
      BY <2>2 DEF ToSet
    <3> HIDE DEF count
    <3>2. rows[i].app_id = app /\ rows[i].instance_count = count(app)
      BY <2>3, <3>1
    <3>3. QED
      BY <3>2
  <2>5. ASSUME NEW k \in DOMAIN shown PROVE shown[k].cvm.app_id \in AppIds(rows)
    <3>1. shown[k].cvm.app_id \in AppsOf(shown)
      BY DEF AppsOf, ToSet
    <3>2. PICK i \in DOMAIN rows : rows[i] = AppRow(GroupFor(shown, shown[k].cvm.app_id))
      BY <2>2, <3>1 DEF ToSet
    <3>3. QED
      BY <2>3, <3>1, <3>2 DEF AppIds
  <2>6. QED
    BY <2>2, <2>4, <2>5 DEF IndexComplete, rows, shown
<1>2. QED
  BY SiteTypeOK, <1>1, PTL

(* Chips.                                                                  *)
LEMMA Chips ==
  /\ \A x : Chip(x) \in {"pending", "failed", "verified"}
  /\ \A x : Chip(x) = "verified" => VerdictOf(x) # None /\ Passes(VerdictOf(x))
  BY DEF Chip, Summary

LEMMA AggregateIs ==
  ASSUME NEW chips, chips # {}
  PROVE  Aggregate(chips) = IF "failed" \in chips THEN "failed"
                            ELSE IF "pending" \in chips THEN "pending" ELSE "verified"
  BY DEF Aggregate

(* The index and the detail pages agree about every app, whatever the      *)
(* map: the row counts the cards and has the colour of the worst.          *)
THEOREM RowMatchesPageTheorem == SiteSpec => []RowMatchesPage
<1>1. TypeOK => RowMatchesPage
  <2> SUFFICES ASSUME TypeOK PROVE RowMatchesPage
    OBVIOUS
  <2> DEFINE nodes == Nodes
             rows == AllRows(nodes)
             shown == Instances(nodes)
  <2>1. nodes \in Seq(Viewed) /\ shown \in Seq(Inst)
    BY NodesAre, InstancesAre
  <2> HIDE DEF nodes
  <2>2. ToSet(rows) = {AppRow(GroupFor(shown, app)) : app \in AppsOf(shown)}
    BY <2>1, AllRowsAre
  <2> HIDE DEF rows
  <2>3. SUFFICES ASSUME NEW i \in DOMAIN rows, rows[i].app_id # ""
                 PROVE  LET cards == RenderApp(rows[i].app_id, clock, nodes)
                            chips == {cards[k].chip : k \in DOMAIN cards}
                        IN  /\ cards # << >>
                            /\ Len(cards) = rows[i].instance_count
                            /\ rows[i].chip =
                                 IF "failed" \in chips THEN "failed"
                                 ELSE IF "pending" \in chips THEN "pending" ELSE "verified"
    BY DEF RowMatchesPage, nodes, rows
  <2>4. PICK app \in AppsOf(shown) : rows[i] = AppRow(GroupFor(shown, app))
    BY <2>2 DEF ToSet
  <2> DEFINE g == GroupFor(shown, app)
             cards == RenderApp(app, clock, nodes)
             chips == {cards[k].chip : k \in DOMAIN cards}
  <2>5. g \in Seq(Inst) /\ 1 \in DOMAIN g /\ AppOf(g) = app
    BY <2>1, GroupForApp
  <2> HIDE DEF g
  <2>6. /\ rows[i].app_id = app /\ rows[i].instance_count = Len(g)
        /\ rows[i].chip = Aggregate({Chip(x) : x \in ToSet(g)})
    BY <2>4, <2>5 DEF AppRow, AppOf, g
  <2>7. /\ DOMAIN cards = DOMAIN g /\ cards # << >> /\ Len(cards) = Len(g)
        /\ \A k \in DOMAIN g : cards[k] = Card(g[k], k, Len(g), clock)
    BY <2>1, <2>3, <2>6, PageOfApp DEF g
  <2> HIDE DEF cards
  <2>8. chips = {Chip(x) : x \in ToSet(g)}
    BY <2>7 DEF Card, ToSet
  <2>9. chips # {}
    BY <2>5, <2>7
  <2> HIDE DEF chips
  <2>10. rows[i].chip = IF "failed" \in chips THEN "failed"
                        ELSE IF "pending" \in chips THEN "pending" ELSE "verified"
    BY <2>6, <2>8, <2>9, AggregateIs
  <2>11. QED
    BY <2>6, <2>7, <2>10 DEF cards, chips
<1>2. QED
  BY SiteTypeOK, <1>1, PTL

(* The verdict a page joins to a CVM is one of its own node's, and of its  *)
(* vm_id.                                                                  *)
LEMMA VerdictFound ==
  ASSUME NEW x \in Inst, VerdictOf(x) # None
  PROVE  \E k \in DOMAIN x.verdicts : /\ x.verdicts[k].vm_id = x.cvm.vm_id
                                      /\ VerdictOf(x) = x.verdicts[k]
<1> DEFINE I == {i \in 1 .. Len(x.verdicts) : x.verdicts[i].vm_id = x.cvm.vm_id}
           k == IF I # {} THEN Min(I) ELSE 0
<1>1. VerdictOf(x) = IF k = 0 THEN None ELSE x.verdicts[k]
  BY DEF VerdictOf, SelectInSeq
<1>2. DOMAIN x.verdicts = 1 .. Len(x.verdicts) /\ I \in SUBSET Nat
  BY LenProperties DEF Inst
<1>3. I # {} => Min(I) \in I
  BY <1>2, MinOfNats
<1> HIDE DEF k
<1>4. k # 0
  BY <1>1
<1>5. k \in I
  BY <1>3, <1>4 DEF k
<1>6. QED
  BY <1>1, <1>2, <1>4, <1>5

(* ... and of a report received in the second of the one shown.            *)
LEMMA VerdictOfOwnNode ==
  ASSUME TypeOK, VerdictsOfSameSecond, ~mixed,
         NEW n \in Stored(reports), NEW c \in ToSet(CvmsOf[reports[n].push]),
         VerdictOf(InstanceOf(View(reports, n), c)) # None
  PROVE  \E p \in Push : \E j \in DOMAIN VerdictsOf[p] :
             /\ NodeOf[p] = n /\ received[p] = reports[n].at
             /\ VerdictsOf[p][j].vm_id = c.vm_id
             /\ VerdictOf(InstanceOf(View(reports, n), c)) = VerdictsOf[p][j]
<1> DEFINE d == View(reports, n)
           x == InstanceOf(d, c)
           p == reports[n].verdicts
<1>1. n \in Node /\ reports[n] # None /\ reports \in Map
  BY DEF Stored, TypeOK, PortalTypeOK
<1>2. x.cvm = c /\ x.verdicts = d.verdicts
  BY DEF InstanceOf
<1>3. x \in Inst
  <2>1. d \in Viewed /\ d.cvms = CvmsOf[reports[n].push]
    BY <1>1, ViewType DEF View
  <2>2. c \in Cvms
    BY <2>1, ToSetType DEF Viewed
  <2>3. QED
    BY <2>1, <2>2 DEF Viewed, InstanceOf, Inst
<1> HIDE DEF x
<1>4. PICK j \in DOMAIN d.verdicts : d.verdicts[j].vm_id = c.vm_id /\ VerdictOf(x) = d.verdicts[j]
  BY <1>2, <1>3, VerdictFound DEF x
<1>5. p # None
  <2>1. SUFFICES ASSUME p = None PROVE FALSE
    OBVIOUS
  <2>2. d.verdicts = << >>
    BY <2>1 DEF View
  <2>3. QED
    BY <1>4, <2>2
<1>6. NodeOf[p] = n /\ received[p] = reports[n].at
  BY <1>1, <1>5 DEF VerdictsOfSameSecond
<1>7. p \in Push
  BY <1>1, <1>5, EntryTypes
<1>8. d.verdicts = VerdictsOf[p]
  BY <1>5 DEF View
<1>9. QED
  BY <1>4, <1>6, <1>7, <1>8 DEF x

(* A green row is earned by every stored instance of its app, with a       *)
(* verdict of its own node's report of the second shown -- whatever        *)
(* handlers, tasks and restarts have done to the map.                      *)
THEOREM GreenRowIsEarnedTheorem == SiteSpec => []GreenRowIsEarned
<1>1. TypeOK /\ VerdictsOfSameSecond => GreenRowIsEarned
  <2> SUFFICES ASSUME TypeOK, VerdictsOfSameSecond, ~mixed PROVE GreenRowIsEarned
    BY DEF GreenRowIsEarned
  <2> DEFINE nodes == Nodes
             rows == AllRows(nodes)
             shown == Instances(nodes)
             green == {rows[i].app_id : i \in {j \in DOMAIN rows : rows[j].chip = "verified"}}
  <2>1. /\ nodes \in Seq(Viewed) /\ shown \in Seq(Inst)
        /\ ToSet(nodes) = {View(reports, n) : n \in Stored(reports)}
    BY NodesAre, InstancesAre
  <2>2. ToSet(rows) = {AppRow(GroupFor(shown, app)) : app \in AppsOf(shown)}
    BY <2>1, AllRowsAre
  <2>3. \A x : x \in ToSet(shown) <=>
               \E d \in ToSet(nodes) : \E c \in ToSet(d.cvms) : x = InstanceOf(d, c)
    BY <2>1, InstancesAre
  <2> HIDE DEF nodes, rows, shown
  <2>4. ASSUME NEW app \in green, NEW x \in ToSet(shown), x.cvm.app_id = app
        PROVE  Chip(x) = "verified"
    <3>1. PICK i \in DOMAIN rows : rows[i].app_id = app /\ rows[i].chip = "verified"
      BY <2>4
    <3>2. PICK a \in AppsOf(shown) : rows[i] = AppRow(GroupFor(shown, a))
      BY <2>2, <3>1 DEF ToSet
    <3> DEFINE g == GroupFor(shown, a)
               chips == {Chip(y) : y \in ToSet(g)}
    <3>3. AppOf(g) = a /\ ToSet(g) = {y \in ToSet(shown) : y.cvm.app_id = a}
      BY <2>1, GroupForApp
    <3> HIDE DEF g
    <3>4. a = app /\ Aggregate(chips) = "verified"
      BY <3>1, <3>2, <3>3 DEF AppRow, AppOf, g
    <3>5. Chip(x) \in chips
      BY <2>4, <3>3, <3>4
    <3> HIDE DEF chips
    <3>6. "failed" \notin chips /\ "pending" \notin chips
      BY <3>4, <3>5, AggregateIs
    <3>7. QED
      BY <3>5, <3>6, Chips
  <2>5. SUFFICES ASSUME NEW n \in Node, reports[n] # None,
                        NEW k \in DOMAIN CvmsOf[reports[n].push],
                        CvmsOf[reports[n].push][k].app_id \in green
                 PROVE  Earned(n, CvmsOf[reports[n].push][k])
    BY DEF GreenRowIsEarned, nodes, rows
  <2> DEFINE c == CvmsOf[reports[n].push][k]
             d == View(reports, n)
             x == InstanceOf(d, c)
  <2>6. d \in ToSet(nodes) /\ d \in Viewed /\ c \in ToSet(d.cvms)
    <3>1. n \in Stored(reports) /\ reports \in Map
      BY <2>5 DEF Stored, TypeOK, PortalTypeOK
    <3>2. QED
      BY <2>1, <2>5, <3>1, ViewType DEF View, ToSet
  <2>7. x \in ToSet(shown) /\ x \in Inst /\ x.cvm = c /\ x.verdicts = d.verdicts
    <3>1. x \in ToSet(shown)
      BY <2>3, <2>6
    <3>2. QED
      BY <2>1, <3>1, ToSetType DEF InstanceOf
  <2> HIDE DEF x
  <2>8. Chip(x) = "verified"
    BY <2>4, <2>5, <2>7
  <2>9. VerdictOf(x) # None /\ Passes(VerdictOf(x))
    BY <2>8, Chips
  <2>10. n \in Stored(reports) /\ c \in ToSet(CvmsOf[reports[n].push])
    BY <2>5 DEF Stored, ToSet
  <2>11. PICK p \in Push : \E j \in DOMAIN VerdictsOf[p] :
             /\ NodeOf[p] = n /\ received[p] = reports[n].at
             /\ VerdictsOf[p][j].vm_id = c.vm_id
             /\ VerdictOf(x) = VerdictsOf[p][j]
    BY <2>9, <2>10, VerdictOfOwnNode DEF x
  <2>12. QED
    BY <2>9, <2>11 DEF Earned
<1>2. SiteSpec => []VerdictsOfSameSecond
  BY SiteRefinesPortal, VerdictsOfSameSecondTheorem
<1>3. QED
  BY SiteTypeOK, <1>1, <1>2, PTL

(* What a card makes of a verdict that passes and is sound for c: the      *)
(* registers are the genuine quote's, and the contract that applies to c   *)
(* has approved claims which are those registers.                          *)
LEMMA CardAttests ==
  ASSUME NEW x, NEW i, NEW total, NEW now, NEW c,
         Sound(VerdictOf(x), c), Passes(VerdictOf(x)), VerdictOf(x).vm_id = x.cvm.vm_id,
         VerdictOf(x) # None
  PROVE  Attests(c, Card(x, i, total, now))
<1> DEFINE v == VerdictOf(x)
           q == QuoteOf(c)
           card == Card(x, i, total, now)
<1>1. /\ card.vm_id = x.cvm.vm_id
      /\ card.registers = IF v.decoded # None THEN v.decoded ELSE x.cvm.measurements
      /\ card.verdict.contract = v.contract /\ card.verdict.on_chain = OnChain(v)
  BY DEF Card, Registers, DecodedRows, BuildVerdict, VerdictView
<1> HIDE DEF v, card
<1>2. /\ v.vm_id = c.vm_id /\ v.sig_valid /\ v.error = None
      /\ v.match # "false" /\ v.approved # "false" /\ v.match \in Tri /\ v.approved \in Tri
      /\ q \in Quote /\ Kind[q] # "forged" /\ v.decoded = DecodeReport(q)
  BY DEF Passes, Sound, Backed, Verdicts, v
<1>3. Kind[q] = "td" => card.registers = Regs[q]
  <2>1. Regs[q] # None
    BY <1>2, SiteAssumption DEF EvidenceTypes
  <2>2. QED
    BY <1>1, <1>2, <2>1 DEF DecodeReport
<1>4. ASSUME ContractFor(c) # None
      PROVE  /\ v.approved = "true" /\ v.contract = ContractFor(c)
             /\ Kind[q] = "td" /\ MeasurementsEq(Regs[q], c.measurements)
  <2>1. v.approved = "true"
    BY <1>2, <1>4 DEF Sound, Explained, Tri, v
  <2>2. v.contract = ContractFor(c) /\ v.match = "true"
    BY <1>2, <2>1 DEF Sound, Backed, Tri, v
  <2>3. QED
    BY <2>1, <2>2 DEF Sound, Backed, v
<1>5. v.approved = "true" => OnChain(v) = "approved"
  BY DEF OnChain
<1>6. ContractFor(c) # None =>
         /\ Kind[q] = "td"
         /\ card.verdict.contract = ContractFor(c) /\ card.verdict.on_chain = "approved"
         /\ MeasurementsEq(card.registers, c.measurements)
  BY <1>1, <1>3, <1>4, <1>5
<1>7. c.vm_id = card.vm_id
  BY <1>1, <1>2 DEF v
<1>8. QED
  BY <1>2, <1>3, <1>6, <1>7 DEF Attests, card

(* What a green card says is so, whatever reports, restarts and late       *)
(* verdicts came before: it is about a genuine quote of a CVM of that      *)
(* vm_id, reported by the node in the second of the report shown, and its  *)
(* registers and approval are that quote's.                                *)
THEOREM GreenCardIsGenuineTheorem == SiteSpec => []GreenCardIsGenuine
<1>1. TypeOK /\ VerdictsOfSameSecond => GreenCardIsGenuine
  <2> SUFFICES ASSUME TypeOK, VerdictsOfSameSecond, ~mixed PROVE GreenCardIsGenuine
    BY DEF GreenCardIsGenuine
  <2> DEFINE nodes == Nodes
             rows == AllRows(nodes)
             shown == Instances(nodes)
  <2>1. /\ nodes \in Seq(Viewed) /\ shown \in Seq(Inst)
        /\ ToSet(nodes) = {View(reports, n) : n \in Stored(reports)}
    BY NodesAre, InstancesAre
  <2>2. \A app \in AppIds(rows) : app \in AppsOf(shown)
    BY <2>1, RowsOfApps
  <2>3. \A x : x \in ToSet(shown) <=>
               \E d \in ToSet(nodes) : \E c \in ToSet(d.cvms) : x = InstanceOf(d, c)
    BY <2>1, InstancesAre
  <2> HIDE DEF nodes, rows, shown
  <2>4. SUFFICES ASSUME NEW app \in AppIds(rows),
                        NEW k \in DOMAIN RenderApp(app, clock, nodes),
                        RenderApp(app, clock, nodes)[k].chip = "verified"
                 PROVE  \E n \in Node, p \in Push :
                            /\ reports[n] # None
                            /\ \E c \in ToSet(CvmsOf[reports[n].push]) :
                                   /\ c.app_id = app
                                   /\ c.vm_id = RenderApp(app, clock, nodes)[k].vm_id
                            /\ NodeOf[p] = n /\ received[p] = reports[n].at
                            /\ \E c \in ToSet(CvmsOf[p]) :
                                   Attests(c, RenderApp(app, clock, nodes)[k])
    BY DEF GreenCardIsGenuine, nodes, rows
  <2> DEFINE cards == RenderApp(app, clock, nodes)
             g == GroupFor(shown, app)
  <2>5. app # ""
    <3>1. SUFFICES ASSUME app = "" PROVE FALSE
      OBVIOUS
    <3>2. cards = << >>
      BY <3>1 DEF RenderApp
    <3> HIDE DEF cards
    <3>3. k \in DOMAIN cards
      BY DEF cards
    <3>4. QED
      BY <3>2, <3>3
  <2>6. /\ DOMAIN cards = DOMAIN g
        /\ \A l \in DOMAIN g : cards[l] = Card(g[l], l, Len(g), clock)
    BY <2>1, <2>2, <2>5, PageOfApp DEF shown
  <2>7. ToSet(g) = {y \in ToSet(shown) : y.cvm.app_id = app}
    BY <2>1, <2>2, GroupForApp
  <2> HIDE DEF g
  <2> DEFINE x == g[k]
  <2>8. x \in ToSet(shown) /\ x.cvm.app_id = app /\ cards[k] = Card(x, k, Len(g), clock)
    BY <2>6, <2>7 DEF ToSet
  <2>9. VerdictOf(x) # None /\ Passes(VerdictOf(x)) /\ cards[k].vm_id = x.cvm.vm_id
    <3>1. Chip(x) = "verified" /\ cards[k].vm_id = x.cvm.vm_id
      BY <2>4, <2>8 DEF Card
    <3>2. QED
      BY <3>1, Chips
  <2> HIDE DEF x, cards
  <2>10. PICK n \in Stored(reports) : \E c \in ToSet(CvmsOf[reports[n].push]) :
                                          x = InstanceOf(View(reports, n), c)
    <3>1. PICK d \in ToSet(nodes) : \E c \in ToSet(d.cvms) : x = InstanceOf(d, c)
      BY <2>3, <2>8
    <3>2. PICK n \in Stored(reports) : d = View(reports, n)
      BY <2>1, <3>1
    <3>3. d.cvms = CvmsOf[reports[n].push]
      BY <3>2 DEF View
    <3>4. QED
      BY <3>1, <3>2, <3>3
  <2>11. PICK c \in ToSet(CvmsOf[reports[n].push]) : x = InstanceOf(View(reports, n), c)
    BY <2>10
  <2>12. x.cvm = c
    BY <2>11 DEF InstanceOf
  <2>13. PICK p \in Push : \E j \in DOMAIN VerdictsOf[p] :
             /\ NodeOf[p] = n /\ received[p] = reports[n].at
             /\ VerdictsOf[p][j].vm_id = c.vm_id
             /\ VerdictOf(x) = VerdictsOf[p][j]
    BY <2>9, <2>11, VerdictOfOwnNode
  <2>14. PICK j \in DOMAIN VerdictsOf[p] :
             VerdictsOf[p][j].vm_id = c.vm_id /\ VerdictOf(x) = VerdictsOf[p][j]
    BY <2>13
  <2> DEFINE e == CvmsOf[p][j]
  <2>15. e \in ToSet(CvmsOf[p]) /\ Sound(VerdictOf(x), e)
    <3>1. /\ CvmsOf[p] \in Seq(Cvms) /\ VerdictsOf[p] \in Seq(Verdicts)
          /\ Len(VerdictsOf[p]) = Len(CvmsOf[p])
          /\ \A l \in DOMAIN CvmsOf[p] : Sound(VerdictsOf[p][l], CvmsOf[p][l])
      BY SiteAssumption
    <3>2. j \in DOMAIN CvmsOf[p]
      BY <3>1, LenProperties
    <3>3. QED
      BY <2>14, <3>1, <3>2 DEF ToSet
  <2> HIDE DEF e
  <2>16. Attests(e, cards[k])
    BY <2>8, <2>9, <2>12, <2>14, <2>15, CardAttests
  <2>17. QED
    BY <2>8, <2>9, <2>10, <2>12, <2>13, <2>15, <2>16 DEF Stored, cards
<1>2. SiteSpec => []VerdictsOfSameSecond
  BY SiteRefinesPortal, VerdictsOfSameSecondTheorem
<1>3. QED
  BY SiteTypeOK, <1>1, <1>2, PTL

-----------------------------------------------------------------------------
(* The stable link.                                                        *)
LEMMA KeystoreIsShown ==
  ASSUME NEW nodes \in Seq(Viewed), NEW net, NEW app \in KeystoresFound(nodes, net)
  PROVE  \E x \in ToSet(Instances(nodes)) : x.cvm.app_id = app /\ IsKeystore(x.cvm, net)
<1> DEFINE K == {c \in Cvms : IsKeystore(c, net)}
           matches(d) == Selected(d.cvms, LAMBDA c : IsKeystore(c, net))
<1>1. PICK d \in ToSet(nodes) : matches(d) # << >> /\ app = Last(matches(d)).app_id
  BY DEF KeystoresFound
<1>2. d.cvms \in Seq(Cvms)
  BY <1>1, ToSetType DEF Viewed
<1>3. matches(d) = Keep(d.cvms, K)
  <2>1. \A i \in DOMAIN d.cvms : d.cvms[i] \in Cvms
    BY <1>2, LenProperties
  <2>2. \A i \in DOMAIN d.cvms : IsKeystore(d.cvms[i], net) <=> d.cvms[i] \in K
    BY <2>1
  <2> HIDE DEF K
  <2>3. QED
    BY <2>2 DEF Selected, Keep, Pick
<1> DEFINE m == Keep(d.cvms, K)
           c == m[Len(m)]
<1>4. m \in Seq(Cvms) /\ ToSet(m) = ToSet(d.cvms) \cap K /\ m # << >>
  BY <1>1, <1>2, <1>3, KeepElements
<1>5. app = c.app_id
  BY <1>1, <1>3 DEF Last
<1> HIDE DEF m
<1>6. Len(m) \in DOMAIN m
  BY <1>4, EmptySeq, LenProperties
<1>7. c \in ToSet(d.cvms) /\ IsKeystore(c, net)
  BY <1>4, <1>6 DEF ToSet
<1> HIDE DEF c
<1>8. InstanceOf(d, c) \in ToSet(Instances(nodes)) /\ InstanceOf(d, c).cvm = c
  BY <1>1, <1>7, InstancesAre DEF InstanceOf
<1>9. QED
  BY <1>5, <1>7, <1>8

(* A network's stable link never leads to a dead page of the map it is     *)
(* answered from: the page exists and has a keystore of the network.       *)
THEOREM RedirectResolvesTheorem == SiteSpec => []RedirectResolves
<1>1. TypeOK => RedirectResolves
  <2> SUFFICES ASSUME TypeOK, NEW net \in Networks, NEW app \in KeystoresFound(Nodes, net) \ {""}
               PROVE  LET cards == RenderApp(app, clock, Nodes)
                      IN  /\ cards # << >>
                          /\ \E k \in DOMAIN cards :
                                 cards[k].role = "keystore" /\ cards[k].network = net
    BY DEF RedirectResolves
  <2> DEFINE shown == Instances(Nodes)
             g == GroupFor(shown, app)
             cards == RenderApp(app, clock, Nodes)
  <2>1. Nodes \in Seq(Viewed) /\ shown \in Seq(Inst)
    BY NodesAre, InstancesAre
  <2>2. PICK x \in ToSet(shown) : x.cvm.app_id = app /\ IsKeystore(x.cvm, net)
    BY <2>1, KeystoreIsShown
  <2>3. app \in AppsOf(shown) /\ app # ""
    BY <2>2 DEF AppsOf
  <2>4. x \in ToSet(g)
    <3>1. ToSet(g) = {y \in ToSet(shown) : y.cvm.app_id = app}
      BY <2>1, <2>3, GroupForApp
    <3> HIDE DEF g, shown
    <3>2. QED
      BY <2>2, <3>1
  <2>5. /\ DOMAIN cards = DOMAIN g /\ cards # << >>
        /\ \A k \in DOMAIN g : cards[k] = Card(g[k], k, Len(g), clock)
    BY <2>1, <2>3, PageOfApp
  <2> HIDE DEF shown, g, cards
  <2>6. PICK k \in DOMAIN g : g[k] = x
    BY <2>4 DEF ToSet
  <2>7. cards[k].role = x.cvm.role /\ cards[k].network = x.cvm.network
    <3>1. cards[k] = Card(x, k, Len(g), clock)
      BY <2>5, <2>6
    <3>2. QED
      BY <3>1, CardFields
  <2>8. QED
    BY <2>2, <2>5, <2>6, <2>7 DEF IsKeystore, cards
<1>2. QED
  BY SiteTypeOK, <1>1, PTL

(* The links a visitor has before him are apps of the map they were made   *)
(* from.                                                                   *)
LinksCarried == \A a \in screen.links : \E n \in Node : Carries(screen.from, n, a)

LEMMA LinksCarriedStep ==
  ASSUME TypeOK, LinksCarried, [SiteNext]_siteVars
  PROVE  LinksCarried'
<1>1. ASSUME screen' = screen PROVE LinksCarried'
  BY <1>1 DEF LinksCarried, Carries
<1>2. ASSUME NEW page, NEW app, Show(page, app) PROVE LinksCarried'
  BY <1>2 DEF LinksCarried, Show
<1>3. ASSUME NEW page, NEW links, Offer(page, links),
             links \subseteq AppsOf(Instances(Nodes))
      PROVE  LinksCarried'
  <2>1. screen'.links = links /\ screen'.from = reports
    BY <1>3 DEF Offer
  <2>2. \A a \in links : \E n \in Node : Carries(reports, n, a)
    BY <1>3, AppIsCarried
  <2>3. QED
    BY <2>1, <2>2 DEF LinksCarried, Carries
<1>4. CASE Index
  BY <1>3, <1>4, NodesAre, RowsOfApps DEF Index
<1>5. CASE AppDetail
  BY <1>2, <1>5 DEF AppDetail
<1>6. CASE KeystoreRedirect
  <2>1. PICK net \in Networks :
            \/ \E app \in KeystoresFound(Nodes, net) \ {""} : Offer("redirect", {app})
            \/ Show("no_keystore", None)
    BY <1>6 DEF KeystoreRedirect
  <2>2. ASSUME NEW app \in KeystoresFound(Nodes, net), Offer("redirect", {app})
        PROVE  LinksCarried'
    <3>1. app \in AppsOf(Instances(Nodes))
      BY NodesAre, KeystoreIsShown DEF AppsOf
    <3>2. QED
      BY <1>3, <2>2, <3>1
  <2>3. QED
    BY <1>2, <2>1, <2>2
<1>7. CASE Api
  BY <1>2, <1>7 DEF Api
<1>8. QED
  BY <1>1, <1>4, <1>5, <1>6, <1>7 DEF SiteNext, Visit, siteVars

(* A link that leads to a 404 was made from a report that carried the app; *)
(* and unless the app has no id -- a row of the index links to "/app/"     *)
(* then -- all such reports have since been replaced or lost.              *)
THEOREM DeadLinksAreOldTheorem == SiteSpec => DeadLinksAreOld
<1> DEFINE Gone(app) == \A n \in Node : Carries(screen.from, n, app) =>
                            reports[n] = None \/ reports[n].push # screen.from[n].push
           Old == AppDetail /\ screen'.page # "app" =>
                      /\ \E n \in Node : Carries(screen.from, n, screen'.app)
                      /\ screen'.app # "" => Gone(screen'.app)
<1>1. ASSUME AppDetail, screen'.page # "app"
      PROVE  screen'.app \in screen.links /\ RenderApp(screen'.app, clock, Nodes) = << >>
  <2>1. PICK a \in screen.links :
           IF RenderApp(a, clock, Nodes) # << >> THEN Show("app", a)
           ELSE Show(IF a = "" THEN "no_route" ELSE "unknown_app", a)
    BY <1>1 DEF AppDetail
  <2>2. ASSUME NEW page, Show(page, a) PROVE screen'.page = page /\ screen'.app = a
    BY <2>2 DEF Show
  <2>3. RenderApp(a, clock, Nodes) = << >>
    BY <1>1, <2>1, <2>2
  <2>4. screen'.app = a
    BY <2>1, <2>2, <2>3
  <2>5. QED
    BY <2>3, <2>4
<1>2. ASSUME TypeOK, NEW app, app # "", RenderApp(app, clock, Nodes) = << >>,
             NEW n \in Node, Carries(screen.from, n, app),
             reports[n] # None, reports[n].push = screen.from[n].push
      PROVE  FALSE
  <2> DEFINE shown == Instances(Nodes)
  <2>1. app # "" /\ RenderApp(app, clock, Nodes) = << >>
    BY <1>2
  <2>2. /\ Nodes \in Seq(Viewed) /\ shown \in Seq(Inst)
        /\ ToSet(Nodes) = {View(reports, m) : m \in Stored(reports)}
    BY <1>2, NodesAre, InstancesAre
  <2>3. PICK k \in DOMAIN CvmsOf[reports[n].push] : CvmsOf[reports[n].push][k].app_id = app
    BY <1>2 DEF Carries
  <2> DEFINE d == View(reports, n)
             c == CvmsOf[reports[n].push][k]
  <2>4. d \in ToSet(Nodes) /\ c \in ToSet(d.cvms)
    BY <1>2, <2>2, <2>3 DEF Stored, View, ToSet
  <2>5. InstanceOf(d, c) \in ToSet(shown)
    BY <2>2, <2>4, InstancesAre
  <2>6. InstanceOf(d, c).cvm.app_id = app
    BY <2>3 DEF InstanceOf
  <2> HIDE DEF d, c, shown
  <2>7. app \in AppsOf(shown)
    BY <2>5, <2>6 DEF AppsOf
  <2>8. QED
    BY <2>1, <2>2, <2>7, PageOfApp DEF shown
<1>3. TypeOK /\ LinksCarried /\ [SiteNext]_siteVars => LinksCarried' /\ [Old]_siteVars
  BY <1>1, <1>2, LinksCarriedStep DEF LinksCarried
<1>4. SiteInit => LinksCarried
  BY DEF SiteInit, LinksCarried
<1>5. QED
  BY SiteTypeOK, <1>3, <1>4, PTL DEF SiteSpec, DeadLinksAreOld
=============================================================================

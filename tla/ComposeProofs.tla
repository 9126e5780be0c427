---------------------------- MODULE ComposeProofs ----------------------------
(***************************************************************************)
(* Proofs about Compose, for any compose file of any length: the reader    *)
(* finds in the lines of a file what the file means.                       *)
(***************************************************************************)
EXTENDS Compose, SequenceLemmas

(* The lines of a file, the rows of a table, the images a file means.      *)
Keys  == Names \cup {"services", None}
Lines == [indent : Nat, kind : {"blank", "services", "key", "image", "other"},
          text : Keys \cup [image : Images, pinned : BOOLEAN]]
Rows  == [container : Keys \cup Images, image : Images, release : BOOLEAN]
Pins  == [container : Names, image : Images, after_nested : BOOLEAN]

-----------------------------------------------------------------------------
(* Reading one line, as a function of what is known before it.             *)
Known(place, indent, service, table) ==
    [place |-> place, indent |-> indent, service |-> service, table |-> table]

StepOn(k, l) ==
    IF l.kind = "blank" \/ (k.place = "outside" /\ l.kind # "services") THEN k
    ELSE IF k.place = "outside" THEN Known("inside", l.indent, k.service, k.table)
    ELSE IF l.indent <= k.indent /\ l.kind # "services"
         THEN Known("outside", k.indent, None, k.table)
    ELSE IF l.kind \in {"key", "services"} THEN Known("inside", k.indent, l.text, k.table)
    ELSE IF l.kind = "image" /\ l.text.pinned
         THEN Known("inside", k.indent, k.service,
                    Append(k.table, ImageRow(l.text.image, k.service)))
    ELSE k

IsRun(r, ls) == \A k \in 1 .. Len(ls) : r[k] = StepOn(r[k - 1], ls[k])

Reads(ls, from, to) == \E r : IsRun(r, ls) /\ r[0] = from /\ r[Len(ls)] = to

LEMMA ReadsNone == ASSUME NEW k PROVE Reads(<< >>, k, k)
<1>1. IsRun([i \in {0} |-> k], << >>)
  BY DEF IsRun
<1>2. QED
  BY <1>1 DEF Reads

LEMMA ReadsLine == ASSUME NEW k, NEW l PROVE Reads(<<l>>, k, StepOn(k, l))
<1> DEFINE r == [i \in 0 .. 1 |-> IF i = 0 THEN k ELSE StepOn(k, l)]
<1>1. r[0] = k /\ r[1] = StepOn(k, l)
  OBVIOUS
<1> HIDE DEF r
<1>2. Len(<<l>>) = 1 /\ <<l>>[1] = l
  OBVIOUS
<1>3. IsRun(r, <<l>>)
  BY <1>1, <1>2 DEF IsRun
<1>4. QED
  BY <1>1, <1>2, <1>3 DEF Reads

LEMMA ReadsTwo ==
  ASSUME NEW k, NEW l, NEW m
  PROVE  Reads(<<l, m>>, k, StepOn(StepOn(k, l), m))
<1> DEFINE r == [i \in 0 .. 2 |-> IF i = 0 THEN k ELSE IF i = 1 THEN StepOn(k, l)
                                  ELSE StepOn(StepOn(k, l), m)]
<1>1. r[0] = k /\ r[1] = StepOn(k, l) /\ r[2] = StepOn(r[1], m)
  OBVIOUS
<1>2. r[2] = StepOn(StepOn(k, l), m)
  OBVIOUS
<1> HIDE DEF r
<1>3. Len(<<l, m>>) = 2 /\ <<l, m>>[1] = l /\ <<l, m>>[2] = m
  OBVIOUS
<1>4. \A i \in 1 .. 2 : i = 1 \/ i = 2
  OBVIOUS
<1>5. IsRun(r, <<l, m>>)
  BY <1>1, <1>3, <1>4 DEF IsRun
<1>6. QED
  BY <1>1, <1>2, <1>3, <1>5 DEF Reads

LEMMA ReadsOn ==
  ASSUME NEW S, NEW ls \in Seq(S), NEW ms \in Seq(S), NEW a, NEW b, NEW c,
         Reads(ls, a, b), Reads(ms, b, c)
  PROVE  Reads(ls \o ms, a, c)
<1> DEFINE m == Len(ls)  n == Len(ms)  u == ls \o ms
<1>1. /\ m \in Nat /\ n \in Nat /\ Len(u) = m + n
      /\ \A i \in 1 .. m + n : u[i] = IF i <= m THEN ls[i] ELSE ms[i - m]
  BY ConcatProperties, LenProperties
<1>2. PICK r : IsRun(r, ls) /\ r[0] = a /\ r[m] = b
  BY DEF Reads
<1>3. PICK q : IsRun(q, ms) /\ q[0] = b /\ q[n] = c
  BY DEF Reads
<1> DEFINE w == [i \in 0 .. m + n |-> IF i <= m THEN r[i] ELSE q[i - m]]
<1>4. \A i \in 1 .. m : r[i] = StepOn(r[i - 1], ls[i])
  BY <1>2 DEF IsRun
<1>5. \A i \in 1 .. n : q[i] = StepOn(q[i - 1], ms[i])
  BY <1>3 DEF IsRun
<1> HIDE DEF m, n, u
<1>6. ASSUME NEW i \in 1 .. m + n PROVE w[i] = StepOn(w[i - 1], u[i])
  <2>1. CASE i <= m
    <3>1. w[i] = r[i] /\ w[i - 1] = r[i - 1] /\ u[i] = ls[i] /\ i \in 1 .. m
      BY <1>1, <2>1
    <3>2. QED
      BY <1>4, <3>1
  <2>2. CASE m < i
    <3>1. i - m \in 1 .. n /\ w[i] = q[i - m] /\ u[i] = ms[i - m]
      BY <1>1, <2>2
    <3>2. w[i - 1] = q[(i - m) - 1]
      <4>1. CASE i - 1 = m
        <5>1. w[i - 1] = r[m] /\ (i - m) - 1 = 0
          BY <1>1, <4>1
        <5>2. QED
          BY <1>2, <1>3, <5>1 DEF m
      <4>2. CASE i - 1 # m
        <5>1. m < i - 1 /\ i - 1 \in 0 .. m + n /\ (i - 1) - m = (i - m) - 1
          BY <1>1, <2>2, <4>2
        <5>2. QED
          BY <1>1, <5>1
      <4>3. QED
        BY <4>1, <4>2
    <3>3. QED
      BY <1>5, <3>1, <3>2
  <2>3. QED
    BY <1>1, <2>1, <2>2
<1>7. w[0] = a
  BY <1>1, <1>2
<1>8. w[m + n] = c
  <2>1. CASE n = 0
    BY <1>1, <1>2, <1>3, <2>1 DEF m, n
  <2>2. CASE n # 0
    BY <1>1, <1>3, <2>2 DEF n
  <2>3. QED
    BY <2>1, <2>2
<1> HIDE DEF w
<1>9. IsRun(w, u)
  BY <1>1, <1>6 DEF IsRun
<1>10. QED
  BY <1>1, <1>7, <1>8, <1>9 DEF Reads, u

-----------------------------------------------------------------------------
(* What one line does where the layout has it.  The only indent at which   *)
(* a block of services starts is 0.                                        *)
At(place, service, table) == Known(place, 0, service, table)

LEMMA LineFields ==
  ASSUME NEW indent, NEW kind, NEW text
  PROVE  LET l == Line(indent, kind, text)
         IN  l.indent = indent /\ l.kind = kind /\ l.text = text
  BY DEF Line

LEMMA AtFields ==
  ASSUME NEW place, NEW service, NEW table
  PROVE  LET k == At(place, service, table)
         IN  k.place = place /\ k.indent = 0 /\ k.service = service /\ k.table = table
  BY DEF At, Known

LEMMA LineAtZero ==
  ASSUME NEW service, NEW table, NEW text
  PROVE  /\ StepOn(At("inside", service, table), Line(0, "key", text)) = At("outside", None, table)
         /\ StepOn(At("inside", service, table), Line(0, "services", text))
               = At("inside", text, table)
         /\ StepOn(At("outside", service, table), Line(0, "services", text))
               = At("inside", service, table)
<1>1. StepOn(At("inside", service, table), Line(0, "key", text)) = At("outside", None, table)
  BY AtFields, LineFields DEF StepOn, At
<1>2. StepOn(At("inside", service, table), Line(0, "services", text)) = At("inside", text, table)
  BY AtFields, LineFields DEF StepOn, At
<1>3. StepOn(At("outside", service, table), Line(0, "services", text))
        = At("inside", service, table)
  BY AtFields, LineFields DEF StepOn, At
<1>4. QED
  BY <1>1, <1>2, <1>3

LEMMA LineInside ==
  ASSUME NEW service, NEW table, NEW text, NEW indent \in Nat \ {0}
  PROVE  LET k == At("inside", service, table)
         IN  /\ StepOn(k, Line(0, "blank", text)) = k
             /\ StepOn(k, Line(indent, "key", text)) = At("inside", text, table)
             /\ StepOn(k, Line(indent, "other", text)) = k
             /\ StepOn(k, Line(indent, "image", text)) =
                   IF text.pinned
                   THEN At("inside", service, Append(table, ImageRow(text.image, service)))
                   ELSE k
<1> DEFINE k == At("inside", service, table)
<1>1. k.place = "inside" /\ k.indent = 0 /\ k.service = service /\ k.table = table
  BY AtFields
<1> HIDE DEF k
<1>2. StepOn(k, Line(0, "blank", text)) = k
  BY LineFields DEF StepOn
<1>3. StepOn(k, Line(indent, "key", text)) = At("inside", text, table)
  BY <1>1, LineFields DEF StepOn, At
<1>4. StepOn(k, Line(indent, "other", text)) = k
  BY <1>1, LineFields DEF StepOn
<1>5. StepOn(k, Line(indent, "image", text)) =
         IF text.pinned
         THEN At("inside", service, Append(table, ImageRow(text.image, service))) ELSE k
  BY <1>1, LineFields DEF StepOn, At
<1>6. QED
  BY <1>2, <1>3, <1>4, <1>5 DEF k

LEMMA LineOutside ==
  ASSUME NEW service, NEW table, NEW text, NEW indent
  PROVE  LET k == At("outside", service, table)
         IN  /\ StepOn(k, Line(indent, "key", text)) = k
             /\ StepOn(k, Line(indent, "image", text)) = k
  BY AtFields, LineFields DEF StepOn

LEMMA LineTypes ==
  /\ Line(0, "blank", None) \in Lines
  /\ \A i \in Nat : Line(i, "other", None) \in Lines
  /\ \A i \in Nat, name \in Names : Line(i, "key", name) \in Lines
  /\ \A i \in Nat, text \in [image : Images, pinned : BOOLEAN] : Line(i, "image", text) \in Lines
  /\ Line(0, "services", "services") \in Lines
  BY DEF Line, Lines, Keys

(* A row is the row of an image, under its service where the image comes   *)
(* first.                                                                  *)
Like(table, pins) ==
    /\ Len(table) = Len(pins)
    /\ \A i \in DOMAIN pins :
           /\ table[i].image = pins[i].image
           /\ ~pins[i].after_nested => table[i].container = pins[i].container

LEMMA LikeConcat ==
  ASSUME NEW t1 \in Seq(Rows), NEW t2 \in Seq(Rows), NEW p1 \in Seq(Pins), NEW p2 \in Seq(Pins),
         Like(t1, p1), Like(t2, p2)
  PROVE  Like(t1 \o t2, p1 \o p2)
<1> DEFINE m == Len(p1)  n == Len(p2)  t == t1 \o t2  p == p1 \o p2
<1>0. /\ m \in Nat /\ n \in Nat /\ DOMAIN p1 = 1 .. m /\ DOMAIN p2 = 1 .. n
      /\ Len(t1) = m /\ Len(t2) = n
  BY LenProperties DEF Like
<1>a. /\ Len(t) = m + n
      /\ \A i \in 1 .. m + n : t[i] = IF i <= m THEN t1[i] ELSE t2[i - m]
  <2>1. /\ Len(t) = Len(t1) + Len(t2)
        /\ \A i \in 1 .. Len(t1) + Len(t2) :
               t[i] = IF i <= Len(t1) THEN t1[i] ELSE t2[i - Len(t1)]
    BY ConcatProperties
  <2> HIDE DEF t, m, n
  <2>2. QED
    BY <1>0, <2>1
<1>b. /\ Len(p) = m + n /\ p \in Seq(Pins)
      /\ \A i \in 1 .. m + n : p[i] = IF i <= m THEN p1[i] ELSE p2[i - m]
  BY ConcatProperties
<1>c. DOMAIN p = 1 .. m + n
  BY <1>b, LenProperties
<1>1. /\ m \in Nat /\ n \in Nat /\ DOMAIN p1 = 1 .. m /\ DOMAIN p2 = 1 .. n
      /\ Len(t1) = m /\ Len(t2) = n /\ Len(t) = m + n /\ Len(p) = m + n
      /\ DOMAIN p = 1 .. m + n
      /\ \A i \in 1 .. m + n : /\ t[i] = IF i <= m THEN t1[i] ELSE t2[i - m]
                               /\ p[i] = IF i <= m THEN p1[i] ELSE p2[i - m]
  BY <1>0, <1>a, <1>b, <1>c
<1> HIDE DEF m, n, t, p
<1>2. ASSUME NEW i \in 1 .. m + n
      PROVE  /\ t[i].image = p[i].image
             /\ ~p[i].after_nested => t[i].container = p[i].container
  <2>1. CASE i <= m
    <3>1. i \in 1 .. m /\ t[i] = t1[i] /\ p[i] = p1[i]
      BY <1>1, <2>1
    <3>2. QED
      BY <1>1, <3>1 DEF Like
  <2>2. CASE m < i
    <3>1. i - m \in 1 .. n /\ t[i] = t2[i - m] /\ p[i] = p2[i - m]
      BY <1>1, <2>2
    <3>2. QED
      BY <1>1, <3>1 DEF Like
  <2>3. QED
    BY <1>1, <2>1, <2>2
<1>3. QED
  BY <1>1, <1>2 DEF Like, t, p

LEMMA LikeEmpty == Like(<< >>, << >>)
  BY DEF Like

-----------------------------------------------------------------------------
(* An entry of a service.                                                  *)
IsPinned(e) == e.kind = "image" /\ e.pinned
NewRows(e, service) == IF IsPinned(e) THEN <<ImageRow(e.image, service)>> ELSE << >>

LEMMA RowType ==
  ASSUME NEW image \in Images, NEW service \in Keys
  PROVE  /\ ImageRow(image, service) \in Rows
         /\ ImageRow(image, service).image = image
         /\ service # None => ImageRow(image, service).container = service
  BY ComposeAssumption DEF ImageRow, Rows

LEMMA EntryRead ==
  ASSUME NEW e \in Entry, NEW service \in Keys, NEW table \in Seq(Rows)
  PROVE  /\ EntryLines(e) \in Seq(Lines) /\ NewRows(e, service) \in Seq(Rows)
         /\ Reads(EntryLines(e), At("inside", service, table),
                  At("inside", IF e.kind = "nested" THEN e.name ELSE service,
                     table \o NewRows(e, service)))
<1> DEFINE from == At("inside", service, table)
<1>1. table \o << >> = table
  BY ConcatEmptySeq
<1>2. 4 \in Nat \ {0} /\ 6 \in Nat \ {0}
  OBVIOUS
<1>3. CASE e.kind = "image"
  <2> DEFINE text == [image |-> e.image, pinned |-> e.pinned]
  <2>1. EntryLines(e) = <<Line(4, "image", text)>> /\ e.image \in Images /\ e.pinned \in BOOLEAN
    BY <1>3 DEF EntryLines, Entry
  <2>2. Line(4, "image", text) \in Lines
    BY <2>1, LineTypes
  <2>3. ImageRow(e.image, service) \in Rows
    BY <2>1, RowType
  <2>4. StepOn(from, Line(4, "image", text))
          = At("inside", service, IF e.pinned THEN Append(table, ImageRow(e.image, service)) ELSE table)
    BY <1>2, LineInside
  <2>5. (IF e.pinned THEN Append(table, ImageRow(e.image, service)) ELSE table)
           = table \o NewRows(e, service)
    BY <1>1, <1>3, <2>3, AppendIsConcat DEF NewRows, IsPinned
  <2>6. Reads(EntryLines(e), from, At("inside", service, table \o NewRows(e, service)))
    BY <2>1, <2>4, <2>5, ReadsLine
  <2>7. EntryLines(e) \in Seq(Lines) /\ NewRows(e, service) \in Seq(Rows)
    BY <2>1, <2>2, <2>3 DEF NewRows
  <2>8. QED
    BY <1>3, <2>6, <2>7
<1>4. CASE e.kind = "nested"
  <2>1. EntryLines(e) = <<Line(4, "key", e.name), Line(6, "other", None)>> /\ e.name \in Names
    BY <1>4 DEF EntryLines, Entry
  <2> DEFINE k == Line(4, "key", e.name)
             o == Line(6, "other", None)
  <2>2. k \in Lines /\ o \in Lines
    BY <2>1, LineTypes
  <2>3. StepOn(from, k) = At("inside", e.name, table)
    BY <1>2, LineInside
  <2>4. StepOn(At("inside", e.name, table), o) = At("inside", e.name, table)
    BY <1>2, LineInside
  <2> HIDE DEF k, o
  <2>5. <<k, o>> \in Seq(Lines)
    BY <2>2
  <2>6. Reads(<<k, o>>, from, At("inside", e.name, table))
    BY <2>3, <2>4, ReadsTwo
  <2>9. NewRows(e, service) = << >>
    BY <1>4 DEF NewRows, IsPinned
  <2>10. EntryLines(e) = <<k, o>>
    BY <2>1 DEF k, o
  <2>11. << >> \in Seq(Rows)
    BY EmptySeq
  <2>12. QED
    BY <1>1, <1>4, <2>5, <2>6, <2>9, <2>10, <2>11
<1>5. CASE e.kind \in {"scalar", "blank"}
  <2> DEFINE l == IF e.kind = "scalar" THEN Line(4, "other", None) ELSE Line(0, "blank", None)
  <2>1. EntryLines(e) = <<l>> /\ NewRows(e, service) = << >>
    BY <1>5 DEF EntryLines, NewRows, IsPinned
  <2>2. l \in Lines
    BY LineTypes
  <2>3. StepOn(from, l) = from
    BY <1>2, <1>5, LineInside
  <2> HIDE DEF l
  <2>4. EntryLines(e) \in Seq(Lines)
    BY <2>1, <2>2
  <2>5. Reads(EntryLines(e), from, from)
    BY <2>1, <2>3, ReadsLine
  <2>6. << >> \in Seq(Rows)
    BY EmptySeq
  <2>7. QED
    BY <1>1, <1>5, <2>1, <2>4, <2>5, <2>6
<1>6. QED
  BY <1>3, <1>4, <1>5 DEF Entry

-----------------------------------------------------------------------------
(* A service: its entries one after the other.  What they mean, as Compose *)
(* has it: PinnedIn.                                                       *)
EntriesLines(es) == FlattenSeq([i \in DOMAIN es |-> EntryLines(es[i])])
Nested(es, i)    == \E j \in 1 .. i : es[j].kind = "nested"
PinAt(es, name, i) == [container |-> name, image |-> es[i].image, after_nested |-> Nested(es, i)]
PinsAt(es, name, i) == IF IsPinned(es[i]) THEN <<PinAt(es, name, i)>> ELSE << >>
EntriesPins(es, name) == FlattenSeq([i \in DOMAIN es |-> PinsAt(es, name, i)])

LEMMA EntriesLinesAppend ==
  ASSUME NEW es \in Seq(Entry), NEW e \in Entry
  PROVE  /\ EntriesLines(es) \in Seq(Lines)
         /\ EntriesLines(Append(es, e)) = EntriesLines(es) \o EntryLines(e)
<1> DEFINE f == [x \in Entry |-> EntryLines(x)]
<1>1. \A x \in Entry : f[x] \in Seq(Lines)
  <2>1. << >> \in Seq(Rows) /\ None \in Keys
    BY EmptySeq DEF Keys
  <2>2. QED
    BY <2>1, EntryRead
<1>2. \A t \in Seq(Entry) : EntriesLines(t) = Joined(t, f)
  <2> SUFFICES ASSUME NEW t \in Seq(Entry) PROVE EntriesLines(t) = Joined(t, f)
    OBVIOUS
  <2>1. \A i \in DOMAIN t : t[i] \in Entry
    BY LenProperties
  <2>2. QED
    BY <2>1 DEF EntriesLines, Joined, Mapped
<1>3. Append(es, e) \in Seq(Entry) /\ f[e] = EntryLines(e)
  BY AppendProperties
<1> HIDE DEF f
<1>4. Joined(es, f) \in Seq(Lines) /\ Joined(Append(es, e), f) = Joined(es, f) \o f[e]
  BY <1>1, JoinedType, JoinedAppend
<1>5. QED
  BY <1>2, <1>3, <1>4

LEMMA PinsAtType ==
  ASSUME NEW es \in Seq(Entry), NEW name \in Names, NEW i \in DOMAIN es
  PROVE  PinsAt(es, name, i) \in Seq(Pins)
<1>1. es[i] \in Entry
  BY LenProperties
<1>2. CASE IsPinned(es[i])
  <2>1. es[i].image \in Images
    BY <1>1, <1>2 DEF Entry, IsPinned
  <2>2. PinAt(es, name, i) \in Pins
    BY <2>1 DEF PinAt, Pins, Nested
  <2>3. QED
    BY <1>2, <2>2 DEF PinsAt
<1>3. CASE ~IsPinned(es[i])
  <2>1. << >> \in Seq(Pins)
    BY EmptySeq
  <2>2. QED
    BY <1>3, <2>1 DEF PinsAt
<1>4. QED
  BY <1>2, <1>3

LEMMA EntriesPinsAppend ==
  ASSUME NEW es \in Seq(Entry), NEW e \in Entry, NEW name \in Names
  PROVE  /\ EntriesPins(es, name) \in Seq(Pins)
         /\ EntriesPins(Append(es, e), name)
               = EntriesPins(es, name) \o PinsAt(Append(es, e), name, Len(es) + 1)
<1> DEFINE n == Len(es)
           fs == Append(es, e)
           pins == [i \in DOMAIN es |-> PinsAt(es, name, i)]
           more == [i \in DOMAIN fs |-> PinsAt(fs, name, i)]
           new == PinsAt(fs, name, n + 1)
           U == Seq(Pins)
           u == Append(pins, new)
<1>1. /\ n \in Nat /\ DOMAIN es = 1 .. n /\ fs \in Seq(Entry) /\ DOMAIN fs = 1 .. n + 1
      /\ \A i \in 1 .. n : fs[i] = es[i]
  BY AppendProperties, LenProperties
<1>2. \A i \in 1 .. n : PinsAt(es, name, i) \in U
  BY <1>1, PinsAtType
<1>3. new \in U
  <2>1. n + 1 \in DOMAIN fs
    BY <1>1
  <2> HIDE DEF fs, n
  <2>2. QED
    BY <1>1, <2>1, PinsAtType
<1>4. \A i \in 1 .. n : PinsAt(fs, name, i) = PinsAt(es, name, i)
  <2> SUFFICES ASSUME NEW i \in 1 .. n PROVE PinsAt(fs, name, i) = PinsAt(es, name, i)
    OBVIOUS
  <2>1. \A j \in 1 .. i : fs[j] = es[j]
    BY <1>1
  <2> HIDE DEF fs
  <2>2. Nested(fs, i) = Nested(es, i)
    BY <2>1 DEF Nested
  <2>3. PinAt(fs, name, i) = PinAt(es, name, i)
    BY <1>1, <2>2 DEF PinAt
  <2>4. QED
    BY <1>1, <2>3 DEF PinsAt
<1> HIDE DEF n, fs, new, U
<1>5. pins \in Seq(U) /\ Len(pins) = n /\ \A i \in 1 .. n : pins[i] = PinsAt(es, name, i)
  <2>1. pins \in [1 .. n -> U]
    BY <1>1, <1>2
  <2>2. QED
    BY <1>1, <2>1
<1>6. /\ u \in Seq(U) /\ Len(u) = n + 1 /\ u[n + 1] = new
      /\ \A i \in 1 .. n : u[i] = pins[i]
  BY <1>3, <1>5, AppendProperties
<1>7. more = [i \in 1 .. n + 1 |-> more[i]] /\ \A i \in 1 .. n + 1 : more[i] = PinsAt(fs, name, i)
  BY <1>1
<1>8. EntriesPins(es, name) = FlattenSeq(pins) /\ EntriesPins(fs, name) = FlattenSeq(more)
  BY DEF EntriesPins
<1> HIDE DEF pins, more, u
<1>9. u = [i \in 1 .. n + 1 |-> u[i]]
  BY <1>6, LenProperties
<1>10. ASSUME NEW i \in 1 .. n + 1 PROVE more[i] = u[i]
  <2>1. CASE i = n + 1
    BY <1>6, <1>7, <2>1 DEF new
  <2>2. CASE i \in 1 .. n
    BY <1>4, <1>5, <1>6, <1>7, <2>2
  <2>3. QED
    BY <1>1, <2>1, <2>2
<1>11. more = u
  BY <1>7, <1>9, <1>10
<1>12. FlattenSeq(Append(pins, new)) = FlattenSeq(pins) \o new /\ FlattenSeq(pins) \in Seq(Pins)
  BY <1>3, <1>5, FlattenAppend, FlattenType DEF U
<1>13. QED
  BY <1>8, <1>11, <1>12 DEF u, fs, new, n

(* The lines of a service's entries, read after its key.                   *)
EntriesRead(es, name) ==
    \A table \in Seq(Rows) : \E service \in Names, new \in Seq(Rows) :
        /\ Reads(EntriesLines(es), At("inside", name, table), At("inside", service, table \o new))
        /\ Like(new, EntriesPins(es, name))
        /\ ~Nested(es, Len(es)) => service = name

LEMMA EntriesReadAll ==
  ASSUME NEW name \in Names
  PROVE  \A es \in Seq(Entry) : EntriesRead(es, name)
<1> DEFINE T == {es \in Seq(Entry) : EntriesRead(es, name)}
<1>1. << >> \in T
  <2>1. EntriesLines(<< >>) = << >> /\ EntriesPins(<< >>, name) = << >>
    <3>1. [i \in DOMAIN << >> |-> EntryLines(<< >>[i])] = << >>
      OBVIOUS
    <3>2. [i \in DOMAIN << >> |-> PinsAt(<< >>, name, i)] = << >>
      OBVIOUS
    <3>3. QED
      BY <3>1, <3>2, FlattenEmpty DEF EntriesLines, EntriesPins
  <2>2. ASSUME NEW table \in Seq(Rows)
        PROVE  \E service \in Names, new \in Seq(Rows) :
                   /\ Reads(<< >>, At("inside", name, table), At("inside", service, table \o new))
                   /\ Like(new, << >>)
                   /\ ~Nested(<< >>, Len(<< >>)) => service = name
    <3>1. table \o << >> = table /\ << >> \in Seq(Rows)
      BY ConcatEmptySeq, EmptySeq
    <3>2. Reads(<< >>, At("inside", name, table), At("inside", name, table))
      BY ReadsNone
    <3>3. QED
      BY <3>1, <3>2, LikeEmpty
  <2>3. QED
    BY <2>1, <2>2, EmptySeq DEF EntriesRead
<1>2. ASSUME NEW es \in Seq(Entry), NEW e \in Entry, es \in T PROVE Append(es, e) \in T
  <2> DEFINE fs == Append(es, e)
             n == Len(es)
             pins == PinsAt(fs, name, n + 1)
  <2>1. /\ fs \in Seq(Entry) /\ Len(fs) = n + 1 /\ n \in Nat /\ fs[n + 1] = e
        /\ \A i \in 1 .. n : fs[i] = es[i]
    BY AppendProperties, LenProperties
  <2>2. /\ EntriesLines(es) \in Seq(Lines)
        /\ EntriesLines(fs) = EntriesLines(es) \o EntryLines(e)
    BY EntriesLinesAppend
  <2>3. /\ EntriesPins(es, name) \in Seq(Pins)
        /\ EntriesPins(fs, name) = EntriesPins(es, name) \o pins
    BY EntriesPinsAppend
  <2> HIDE DEF fs, n
  <2>4. pins \in Seq(Pins)
    <3>1. n + 1 \in DOMAIN fs
      BY <2>1, LenProperties
    <3>2. QED
      BY <2>1, <3>1, PinsAtType
  <2> HIDE DEF pins
  <2>5. SUFFICES ASSUME NEW table \in Seq(Rows)
                 PROVE  \E service \in Names, new \in Seq(Rows) :
                          /\ Reads(EntriesLines(fs), At("inside", name, table),
                                   At("inside", service, table \o new))
                          /\ Like(new, EntriesPins(fs, name))
                          /\ ~Nested(fs, Len(fs)) => service = name
    BY <2>1 DEF EntriesRead, fs
  <2>6. PICK s \in Names, old \in Seq(Rows) :
            /\ Reads(EntriesLines(es), At("inside", name, table), At("inside", s, table \o old))
            /\ Like(old, EntriesPins(es, name))
            /\ ~Nested(es, n) => s = name
    BY <1>2 DEF EntriesRead, n
  <2> DEFINE more == NewRows(e, s)
             service == IF e.kind = "nested" THEN e.name ELSE s
             before == table \o old
  <2>7. s \in Keys /\ before \in Seq(Rows)
    BY ConcatProperties DEF Keys
  <2> HIDE DEF before
  <2>8. /\ EntryLines(e) \in Seq(Lines) /\ more \in Seq(Rows)
        /\ Reads(EntryLines(e), At("inside", s, before), At("inside", service, before \o more))
    BY <2>7, EntryRead
  <2> HIDE DEF service, more
  <2>9. Reads(EntriesLines(fs), At("inside", name, table), At("inside", service, before \o more))
    <3>1. Reads(EntriesLines(es), At("inside", name, table), At("inside", s, before))
      BY <2>6 DEF before
    <3>2. QED
      BY <2>2, <2>8, <3>1, ReadsOn
  <2>10. before \o more = table \o (old \o more) /\ old \o more \in Seq(Rows)
    BY <2>8, ConcatAssociative, ConcatProperties DEF before
  <2>11. Like(more, pins)
    <3>1. CASE IsPinned(e)
      <4>1. more = <<ImageRow(e.image, s)>> /\ pins = <<PinAt(fs, name, n + 1)>>
        BY <2>1, <3>1 DEF more, NewRows, pins, PinsAt
      <4>2. e.image \in Images
        BY <3>1 DEF IsPinned, Entry
      <4>3. /\ ImageRow(e.image, s).image = e.image
            /\ s # None => ImageRow(e.image, s).container = s
        BY <2>7, <4>2, RowType
      <4>4. s # None
        BY ComposeAssumption
      <4>5. PinAt(fs, name, n + 1).image = e.image /\ PinAt(fs, name, n + 1).container = name
        BY <2>1 DEF PinAt
      <4>6. ~PinAt(fs, name, n + 1).after_nested => ~Nested(es, n)
        <5>1. Nested(es, n) => Nested(fs, n + 1)
          BY <2>1 DEF Nested
        <5>2. PinAt(fs, name, n + 1).after_nested = Nested(fs, n + 1)
          BY DEF PinAt
        <5>3. QED
          BY <5>1, <5>2
      <4> DEFINE row == ImageRow(e.image, s)
                 pin == PinAt(fs, name, n + 1)
      <4>7. /\ row.image = pin.image
            /\ ~pin.after_nested => row.container = pin.container
        BY <2>6, <4>3, <4>4, <4>5, <4>6
      <4> HIDE DEF row, pin
      <4>8. Like(<<row>>, <<pin>>)
        BY <4>7 DEF Like
      <4>9. QED
        BY <4>1, <4>8 DEF row, pin
    <3>2. CASE ~IsPinned(e)
      BY <2>1, <3>2, LikeEmpty DEF more, NewRows, pins, PinsAt
    <3>3. QED
      BY <3>1, <3>2
  <2>12. Like(old \o more, EntriesPins(fs, name))
    BY <2>3, <2>4, <2>6, <2>8, <2>11, LikeConcat
  <2>13. service \in Names /\ (~Nested(fs, n + 1) => service = name)
    <3>1. e.kind = "nested" => e.name \in Names
      BY DEF Entry
    <3>2. ~Nested(fs, n + 1) => e.kind # "nested" /\ ~Nested(es, n)
      BY <2>1 DEF Nested
    <3>3. QED
      BY <2>6, <3>1, <3>2 DEF service
  <2>14. QED
    BY <2>1, <2>9, <2>10, <2>12, <2>13
<1>3. Seq(Entry) \subseteq T
  <2> HIDE DEF T
  <2> QED
    BY <1>1, <1>2, SeqSetInduction
<1>4. QED
  BY <1>3

-----------------------------------------------------------------------------
(* Reading ls adds rows like pins to the table, whatever was read before,  *)
(* and ends in one of the places it may start in.                          *)
Finds(ls, pins, places) ==
    /\ ls \in Seq(Lines) /\ pins \in Seq(Pins)
    /\ \A place \in places, service \in Keys, table \in Seq(Rows) :
           \E then \in places, after \in Keys, new \in Seq(Rows) :
               /\ Reads(ls, At(place, service, table), At(then, after, table \o new))
               /\ Like(new, pins)

LEMMA FindsNone == ASSUME NEW places PROVE Finds(<< >>, << >>, places)
<1>1. << >> \in Seq(Lines) /\ << >> \in Seq(Pins) /\ << >> \in Seq(Rows)
  BY EmptySeq
<1>2. ASSUME NEW place \in places, NEW service \in Keys, NEW table \in Seq(Rows)
      PROVE  \E then \in places, after \in Keys, new \in Seq(Rows) :
                 /\ Reads(<< >>, At(place, service, table), At(then, after, table \o new))
                 /\ Like(new, << >>)
  <2>1. table \o << >> = table
    BY ConcatEmptySeq
  <2>2. Reads(<< >>, At(place, service, table), At(place, service, table \o << >>))
    BY <2>1, ReadsNone
  <2>3. QED
    BY <1>1, <2>2, LikeEmpty
<1>3. QED
  BY <1>1, <1>2 DEF Finds

LEMMA FindsOn ==
  ASSUME NEW places, NEW l1, NEW l2, NEW p1, NEW p2,
         Finds(l1, p1, places), Finds(l2, p2, places)
  PROVE  Finds(l1 \o l2, p1 \o p2, places)
<1>1. /\ l1 \in Seq(Lines) /\ l2 \in Seq(Lines) /\ p1 \in Seq(Pins) /\ p2 \in Seq(Pins)
  BY DEF Finds
<1>2. l1 \o l2 \in Seq(Lines) /\ p1 \o p2 \in Seq(Pins)
  BY <1>1, ConcatProperties
<1>3. ASSUME NEW place \in places, NEW service \in Keys, NEW table \in Seq(Rows)
      PROVE  \E then \in places, after \in Keys, new \in Seq(Rows) :
                 /\ Reads(l1 \o l2, At(place, service, table), At(then, after, table \o new))
                 /\ Like(new, p1 \o p2)
  <2>1. PICK mid \in places, sm \in Keys, old \in Seq(Rows) :
            /\ Reads(l1, At(place, service, table), At(mid, sm, table \o old))
            /\ Like(old, p1)
    BY DEF Finds
  <2> DEFINE before == table \o old
  <2>2. before \in Seq(Rows)
    BY ConcatProperties
  <2>3. Reads(l1, At(place, service, table), At(mid, sm, before))
    BY <2>1
  <2> HIDE DEF before
  <2>4. PICK then \in places, after \in Keys, more \in Seq(Rows) :
            /\ Reads(l2, At(mid, sm, before), At(then, after, before \o more))
            /\ Like(more, p2)
    BY <2>2 DEF Finds
  <2>5. Reads(l1 \o l2, At(place, service, table), At(then, after, before \o more))
    BY <1>1, <2>3, <2>4, ReadsOn
  <2>6. before \o more = table \o (old \o more) /\ old \o more \in Seq(Rows)
    BY ConcatAssociative, ConcatProperties DEF before
  <2>7. Like(old \o more, p1 \o p2)
    BY <1>1, <2>1, <2>4, LikeConcat
  <2>8. QED
    BY <2>5, <2>6, <2>7
<1>4. QED
  BY <1>2, <1>3 DEF Finds

(* One after the other, any number of them.                                *)
LEMMA FindsAll ==
  ASSUME NEW S, NEW f, NEW g, NEW places, \A x \in S : Finds(f[x], g[x], places)
  PROVE  \A s \in Seq(S) : Finds(Joined(s, f), Joined(s, g), places)
<1> DEFINE T == {s \in Seq(S) : Finds(Joined(s, f), Joined(s, g), places)}
<1>1. << >> \in T
  BY EmptySeq, JoinedEmpty, FindsNone
<1>2. ASSUME NEW s \in Seq(S), NEW e \in S, s \in T PROVE Append(s, e) \in T
  <2>1. (\A x \in S : f[x] \in Seq(Lines)) /\ (\A x \in S : g[x] \in Seq(Pins))
    BY DEF Finds
  <2>2. /\ Joined(Append(s, e), f) = Joined(s, f) \o f[e]
        /\ Joined(Append(s, e), g) = Joined(s, g) \o g[e]
    BY <2>1, JoinedAppend
  <2>3. Finds(Joined(s, f) \o f[e], Joined(s, g) \o g[e], places)
    BY <1>2, FindsOn
  <2>4. QED
    BY <2>2, <2>3, AppendProperties
<1>3. Seq(S) \subseteq T
  <2> HIDE DEF T
  <2> QED
    BY <1>1, <1>2, SeqSetInduction
<1>4. QED
  BY <1>3

-----------------------------------------------------------------------------
(* A service, the services of a block, a block, a file.                    *)
LEMMA ServiceFinds ==
  ASSUME NEW s \in Service
  PROVE  Finds(ServiceLines(s), PinnedIn(s), {"inside"})
<1> DEFINE es == s.entries
           key == Line(2, "key", s.name)
<1>1. es \in Seq(Entry) /\ s.name \in Names
  BY DEF Service
<1>2. PinnedIn(s) = EntriesPins(es, s.name)
  BY DEF PinnedIn, EntriesPins, PinsAt, PinAt, IsPinned, Nested
<1>3. ServiceLines(s) = <<key>> \o EntriesLines(es)
  BY DEF ServiceLines, Below, EntriesLines
<1>4. EntriesLines(es) \in Seq(Lines) /\ EntriesPins(es, s.name) \in Seq(Pins)
  <2>1. [kind |-> "scalar"] \in Entry
    BY DEF Entry
  <2>2. QED
    BY <1>1, <2>1, EntriesLinesAppend, EntriesPinsAppend
<1>5. key \in Lines /\ <<key>> \in Seq(Lines)
  <2>1. key \in Lines
    BY <1>1, LineTypes
  <2> HIDE DEF key
  <2>2. QED
    BY <2>1
<1>6. ASSUME NEW service \in Keys, NEW table \in Seq(Rows)
      PROVE  \E after \in Keys, new \in Seq(Rows) :
                 /\ Reads(ServiceLines(s), At("inside", service, table),
                          At("inside", after, table \o new))
                 /\ Like(new, PinnedIn(s))
  <2>1. StepOn(At("inside", service, table), key) = At("inside", s.name, table)
    <3>1. 2 \in Nat \ {0}
      OBVIOUS
    <3>2. QED
      BY <3>1, LineInside
  <2>2. Reads(<<key>>, At("inside", service, table), At("inside", s.name, table))
    BY <2>1, ReadsLine
  <2>3. PICK after \in Names, new \in Seq(Rows) :
            /\ Reads(EntriesLines(es), At("inside", s.name, table),
                     At("inside", after, table \o new))
            /\ Like(new, EntriesPins(es, s.name))
    BY <1>1, EntriesReadAll DEF EntriesRead
  <2> HIDE DEF key, es
  <2>4. Reads(ServiceLines(s), At("inside", service, table), At("inside", after, table \o new))
    BY <1>3, <1>4, <1>5, <2>2, <2>3, ReadsOn
  <2>5. QED
    BY <1>2, <2>3, <2>4 DEF Keys
<1>7. ServiceLines(s) \in Seq(Lines)
  <2> HIDE DEF key, es
  <2>1. QED
    BY <1>3, <1>4, <1>5, ConcatProperties
<1>8. QED
  BY <1>2, <1>4, <1>6, <1>7 DEF Finds

LEMMA ServicesFind ==
  ASSUME NEW ss \in Seq(Service)
  PROVE  Finds(Below(ss, ServiceLines), Below(ss, PinnedIn), {"inside"})
<1> DEFINE f == [s \in Service |-> ServiceLines(s)]
           g == [s \in Service |-> PinnedIn(s)]
<1>1. \A i \in DOMAIN ss : ss[i] \in Service
  BY LenProperties
<1>2. Below(ss, ServiceLines) = Joined(ss, f) /\ Below(ss, PinnedIn) = Joined(ss, g)
  BY <1>1 DEF Below, Joined, Mapped
<1>3. \A s \in Service : Finds(f[s], g[s], {"inside"})
  BY ServiceFinds
<1> HIDE DEF f, g
<1>4. Finds(Joined(ss, f), Joined(ss, g), {"inside"})
  BY <1>3, FindsAll
<1>5. QED
  BY <1>2, <1>4

Places == {"inside", "outside"}

LEMMA BlockFinds ==
  ASSUME NEW b \in Block
  PROVE  Finds(BlockLines(b), PinnedOf(b), Places)
<1>1. CASE b.kind = "services"
  <2> DEFINE head == Line(0, "services", "services")
             body == Below(b.services, ServiceLines)
             pins == Below(b.services, PinnedIn)
  <2>1. b.services \in Seq(Service)
    BY <1>1 DEF Block
  <2>2. Finds(body, pins, {"inside"})
    BY <2>1, ServicesFind
  <2>3. BlockLines(b) = <<head>> \o body /\ PinnedOf(b) = pins
    BY <1>1 DEF BlockLines, PinnedOf
  <2>4. head \in Lines
    BY LineTypes
  <2>5. "services" \in Keys
    BY DEF Keys
  <2>6. ASSUME NEW place \in Places, NEW service \in Keys, NEW table \in Seq(Rows)
        PROVE  \E s \in Keys : StepOn(At(place, service, table), head) = At("inside", s, table)
    <3>1. CASE place = "inside"
      BY <2>5, <3>1, LineAtZero
    <3>2. CASE place = "outside"
      BY <3>2, LineAtZero
    <3>3. QED
      BY <3>1, <3>2 DEF Places
  <2> HIDE DEF head, body, pins
  <2>7. <<head>> \in Seq(Lines) /\ body \in Seq(Lines) /\ pins \in Seq(Pins)
    BY <2>2, <2>4 DEF Finds
  <2>8. ASSUME NEW place \in Places, NEW service \in Keys, NEW table \in Seq(Rows)
        PROVE  \E then \in Places, after \in Keys, new \in Seq(Rows) :
                   /\ Reads(<<head>> \o body, At(place, service, table),
                            At(then, after, table \o new))
                   /\ Like(new, pins)
    <3>1. PICK s \in Keys : StepOn(At(place, service, table), head) = At("inside", s, table)
      BY <2>6
    <3>2. Reads(<<head>>, At(place, service, table), At("inside", s, table))
      BY <3>1, ReadsLine
    <3>3. PICK after \in Keys, new \in Seq(Rows) :
              /\ Reads(body, At("inside", s, table), At("inside", after, table \o new))
              /\ Like(new, pins)
      BY <2>2 DEF Finds
    <3>4. Reads(<<head>> \o body, At(place, service, table), At("inside", after, table \o new))
      BY <2>7, <3>2, <3>3, ReadsOn
    <3>5. QED
      BY <3>3, <3>4 DEF Places
  <2>9. <<head>> \o body \in Seq(Lines)
    BY <2>7, ConcatProperties
  <2>10. Finds(<<head>> \o body, pins, Places)
    BY <2>7, <2>8, <2>9 DEF Finds
  <2>11. QED
    BY <2>3, <2>10 DEF head, body, pins
<1>2. CASE b.kind = "other"
  <2> DEFINE text == [image |-> b.image, pinned |-> TRUE]
             key == Line(0, "key", b.name)
             image == Line(2, "image", text)
  <2>1. b.name \in Names /\ b.image \in Images
    BY <1>2 DEF Block
  <2>2. key \in Lines /\ image \in Lines
    BY <2>1, LineTypes
  <2>3. BlockLines(b) = <<key, image>> /\ PinnedOf(b) = << >>
    BY <1>2 DEF BlockLines, PinnedOf
  <2>4. ASSUME NEW place \in Places, NEW service \in Keys, NEW table \in Seq(Rows)
        PROVE  \E s \in Keys : StepOn(StepOn(At(place, service, table), key), image)
                                 = At("outside", s, table)
    <3>1. None \in Keys
      BY DEF Keys
    <3>2. \A s : StepOn(At("outside", s, table), image) = At("outside", s, table)
      BY LineOutside
    <3>3. CASE place = "inside"
      <4>1. StepOn(At(place, service, table), key) = At("outside", None, table)
        BY <3>3, LineAtZero
      <4>2. QED
        BY <3>1, <3>2, <4>1
    <3>4. CASE place = "outside"
      <4>1. StepOn(At(place, service, table), key) = At("outside", service, table)
        BY <3>4, LineOutside
      <4>2. QED
        BY <3>2, <4>1
    <3>5. QED
      BY <3>3, <3>4 DEF Places
  <2> HIDE DEF key, image
  <2>5. <<key, image>> \in Seq(Lines) /\ << >> \in Seq(Pins) /\ << >> \in Seq(Rows)
    BY <2>2, EmptySeq
  <2>6. ASSUME NEW place \in Places, NEW service \in Keys, NEW table \in Seq(Rows)
        PROVE  \E then \in Places, after \in Keys, new \in Seq(Rows) :
                   /\ Reads(<<key, image>>, At(place, service, table),
                            At(then, after, table \o new))
                   /\ Like(new, << >>)
    <3>1. PICK s \in Keys : StepOn(StepOn(At(place, service, table), key), image)
                              = At("outside", s, table)
      BY <2>4
    <3>2. table \o << >> = table
      BY ConcatEmptySeq
    <3>3. Reads(<<key, image>>, At(place, service, table), At("outside", s, table \o << >>))
      BY <3>1, <3>2, ReadsTwo
    <3>4. "outside" \in Places
      BY DEF Places
    <3>5. QED
      BY <2>5, <3>3, <3>4, LikeEmpty
  <2>7. Finds(<<key, image>>, << >>, Places)
    BY <2>5, <2>6 DEF Finds
  <2>8. QED
    BY <2>3, <2>7 DEF key, image
<1>3. QED
  BY <1>1, <1>2 DEF Block

LEMMA FileFinds ==
  ASSUME NEW f \in Seq(Block)
  PROVE  Finds(Layout(f), Below(f, PinnedOf), Places)
<1> DEFINE l == [b \in Block |-> BlockLines(b)]
           g == [b \in Block |-> PinnedOf(b)]
<1>1. \A i \in DOMAIN f : f[i] \in Block
  BY LenProperties
<1>2. Layout(f) = Joined(f, l) /\ Below(f, PinnedOf) = Joined(f, g)
  BY <1>1 DEF Layout, Below, Joined, Mapped
<1>3. \A b \in Block : Finds(l[b], g[b], Places)
  BY BlockFinds
<1> HIDE DEF l, g
<1>4. Finds(Joined(f, l), Joined(f, g), Places)
  BY <1>3, FindsAll
<1>5. QED
  BY <1>2, <1>4

-----------------------------------------------------------------------------
(* The reader is a run over the lines of its file: what it knows is what   *)
(* that run knows after the lines read so far.                             *)
Now == Known(IF in_services THEN "inside" ELSE "outside", services_indent, current_service, rows)

Finished(table) == table \in Seq(Rows) /\ Like(table, Meaning)

Inv ==
    /\ lines \in Seq(Lines)
    /\ line \in 1 .. Len(lines) + 1
    /\ in_services \in BOOLEAN
    /\ Meaning \in Seq(Pins)
    /\ \E r : IsRun(r, lines) /\ r[line - 1] = Now /\ Finished(r[Len(lines)].table)

LEMMA InvInit == Init => Inv
<1> SUFFICES ASSUME Init PROVE Inv
  OBVIOUS
<1>1. file \in Seq(Block) /\ lines = Layout(file) /\ Meaning = Below(file, PinnedOf)
  BY ComposeAssumption DEF Init, Meaning
<1>2. Finds(lines, Meaning, Places)
  BY <1>1, FileFinds
<1>3. lines \in Seq(Lines) /\ Len(lines) \in Nat /\ Meaning \in Seq(Pins)
  BY <1>2, LenProperties DEF Finds
<1>4. Now = At("outside", None, << >>)
  BY DEF Init, Now, At
<1>5. PICK then \in Places, after \in Keys, new \in Seq(Rows) :
          /\ Reads(lines, At("outside", None, << >>), At(then, after, << >> \o new))
          /\ Like(new, Meaning)
  <2>1. "outside" \in Places /\ None \in Keys /\ << >> \in Seq(Rows)
    BY EmptySeq DEF Places, Keys
  <2>2. QED
    BY <1>2, <2>1 DEF Finds
<1>6. << >> \o new = new
  BY ConcatEmptySeq
<1>7. PICK r : IsRun(r, lines) /\ r[0] = Now /\ r[Len(lines)] = At(then, after, new)
  BY <1>4, <1>5, <1>6 DEF Reads
<1>8. Finished(r[Len(lines)].table)
  BY <1>5, <1>7, AtFields DEF Finished
<1>9. line = 1 /\ in_services = FALSE
  BY DEF Init
<1>10. r[line - 1] = Now /\ line \in 1 .. Len(lines) + 1
  BY <1>3, <1>7, <1>9
<1>11. in_services \in BOOLEAN
  BY <1>9
<1>12. QED
  BY <1>3, <1>7, <1>8, <1>10, <1>11 DEF Inv

LEMMA NowStep ==
  ASSUME in_services \in BOOLEAN, Next
  PROVE  Now' = StepOn(Now, lines[line]) /\ in_services' \in BOOLEAN
<1> DEFINE l == lines[line]
<1>1. Now.indent = services_indent /\ Now.service = current_service /\ Now.table = rows
  BY DEF Now, Known
<1>2. (in_services => Now.place = "inside") /\ (~in_services => Now.place = "outside")
  BY DEF Now, Known
<1>3. /\ in_services' => Now' = Known("inside", services_indent', current_service', rows')
      /\ ~in_services' => Now' = Known("outside", services_indent', current_service', rows')
  BY DEF Now
<1> USE DEF Current
<1>4. CASE Skip
  <2>1. Now' = Now
    BY <1>4 DEF Skip, Now
  <2>2. StepOn(Now, l) = Now
    BY <1>2, <1>4 DEF Skip, StepOn
  <2>3. QED
    BY <1>4, <2>1, <2>2 DEF Skip
<1>5. CASE EnterServices
  BY <1>1, <1>2, <1>3, <1>5 DEF EnterServices, StepOn
<1>6. CASE LeaveServices
  BY <1>1, <1>2, <1>3, <1>6 DEF LeaveServices, Outdented, StepOn
<1>7. CASE Key
  BY <1>1, <1>2, <1>3, <1>7 DEF Key, Inside, Outdented, StepOn
<1>8. CASE Image
  BY <1>1, <1>2, <1>3, <1>8 DEF Image, Inside, Outdented, StepOn, Now
<1>9. CASE Other
  BY <1>1, <1>2, <1>3, <1>9 DEF Other, Inside, Outdented, StepOn, Now
<1>10. QED
  BY <1>4, <1>5, <1>6, <1>7, <1>8, <1>9 DEF Next

LEMMA InvStep == Inv /\ [Next]_vars => Inv'
<1> SUFFICES ASSUME Inv, [Next]_vars PROVE Inv'
  OBVIOUS
<1>1. ASSUME Next PROVE Inv'
  <2>1. /\ line <= Len(lines) /\ line' = line + 1 /\ file' = file /\ lines' = lines
    BY <1>1 DEF Next, Skip, EnterServices, LeaveServices, Key, Image, Other, Read
  <2>2. Now' = StepOn(Now, lines[line]) /\ in_services' \in BOOLEAN
    BY <1>1, NowStep DEF Inv
  <2>3. PICK r : IsRun(r, lines) /\ r[line - 1] = Now /\ Finished(r[Len(lines)].table)
    BY DEF Inv
  <2>4. Len(lines) \in Nat
    BY LenProperties DEF Inv
  <2>5. line \in 1 .. Len(lines)
    BY <2>1, <2>4 DEF Inv
  <2>6. r[line] = Now'
    BY <2>2, <2>3, <2>5 DEF IsRun
  <2>7. line' - 1 = line /\ line' \in 1 .. Len(lines) + 1
    BY <2>1, <2>4, <2>5
  <2>8. Meaning' = Meaning
    BY <2>1 DEF Meaning
  <2>9. QED
    BY <2>1, <2>2, <2>3, <2>6, <2>7, <2>8 DEF Inv, Finished
<1>2. CASE UNCHANGED vars
  <2>1. Meaning' = Meaning /\ Now' = Now
    BY <1>2 DEF vars, Meaning, Now
  <2>2. QED
    BY <1>2, <2>1 DEF vars, Inv, Finished
<1>3. QED
  BY <1>1, <1>2

LEMMA AlwaysInv == Spec => []Inv
  BY InvInit, InvStep, PTL DEF Spec

LEMMA WhenDone ==
  ASSUME Inv, Done
  PROVE  /\ DOMAIN rows = DOMAIN Meaning
         /\ \A i \in DOMAIN Meaning :
                /\ rows[i].image = Meaning[i].image
                /\ ~Meaning[i].after_nested => rows[i].container = Meaning[i].container
<1>1. PICK r : IsRun(r, lines) /\ r[line - 1] = Now /\ Finished(r[Len(lines)].table)
  BY DEF Inv
<1>2. Len(lines) \in Nat
  BY LenProperties DEF Inv
<1>3. line - 1 = Len(lines)
  BY <1>2 DEF Inv, Done
<1>4. Now.table = rows
  BY DEF Now, Known
<1>5. rows \in Seq(Rows) /\ Like(rows, Meaning)
  BY <1>1, <1>3, <1>4 DEF Finished
<1>6. Meaning \in Seq(Pins)
  BY DEF Inv
<1>7. DOMAIN rows = DOMAIN Meaning
  BY <1>5, <1>6, LenProperties DEF Like
<1>8. QED
  BY <1>5, <1>7 DEF Like

(* The table has a row for every pinned image of every service, in their   *)
(* order, and no other, for compose files of any length whose blocks are   *)
(* laid out as Compose lays them out (page.rs:435-496).                    *)
THEOREM EveryImageOnceTheorem == Spec => []EveryImageOnce
<1>1. Inv => EveryImageOnce
  BY WhenDone DEF EveryImageOnce
<1>2. QED
  BY AlwaysInv, <1>1, PTL

(* An image that comes before the nested mappings of its service is listed *)
(* under its service.                                                      *)
THEOREM ImageFirstIsNamedTheorem == Spec => []ImageFirstIsNamed
<1>1. Inv => ImageFirstIsNamed
  BY WhenDone DEF ImageFirstIsNamed
<1>2. QED
  BY AlwaysInv, <1>1, PTL

=============================================================================

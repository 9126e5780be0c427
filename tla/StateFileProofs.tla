--------------------------- MODULE StateFileProofs ---------------------------
(***************************************************************************)
(* Proofs about StateFile, for any number of calls, any maps and any       *)
(* lengths: without an overlap the state file is never torn, and a restart *)
(* loads a mixture of snapshots only when two calls have overlapped and,   *)
(* besides, a write was cut into pieces or the power has failed.           *)
(***************************************************************************)
EXTENDS StateFile, TLAPS

(* A call that has not created its inode has none: it carries no name,     *)
(* nobody has it open, and there is nothing in it.                         *)
NamesCreated ==
    \A s \in Saver : saver[s].at \in {"idle", "create"} =>
        /\ s # tmp /\ s # path
        /\ \A t \in Saver : saver[t].fd # s
        /\ data[s] = Blank

(* Without an overlap at most one call runs, the inode it works on is the  *)
(* temporary file, and the state file is another one that nobody has open  *)
(* and that was whole when it was last renamed.                            *)
OneAtATime == \A s, t \in Saver : Busy(s) /\ Busy(t) => s = t

TmpInHand ==
    \A s \in Saver :
        /\ saver[s].at = "write"  => /\ saver[s].fd = tmp
                                     /\ data[tmp] = Beginning(saver[s].map, saver[s].off)
        /\ saver[s].at = "rename" => tmp # None /\ data[tmp] = Whole(saver[s].map)

PathApart == path # None => path # tmp /\ (~dark => Readable(data[path]))

Discipline == ~clash => OneAtATime /\ TmpInHand /\ PathApart

(* A call is in the middle of its bytes only if its write was cut short;   *)
(* bytes of several maps meet in a file only if two calls overlapped and,  *)
(* besides, a write was cut short or the power failed.                     *)
WholeWrites == ~short => \A s \in Saver : saver[s].off = 0
NoMixture   == ~Spliceable => \A i \in Saver : ~Mixture(data[i])

FileInv == FileTypeOK /\ NamesCreated /\ Discipline /\ WholeWrites /\ NoMixture

-----------------------------------------------------------------------------
LEMMA BeginningTypes ==
  ASSUME NEW m \in Map, NEW k \in Nat
  PROVE  /\ Beginning(m, k) \in Content
         /\ Beginning(m, k).head \in {m, None}
         /\ ~Mixture(Beginning(m, k))
         /\ Agreed(Beginning(m, k), m) = k
         /\ Beginning(m, k).size = k
<1>1. Beginning(m, k).upto = k /\ Beginning(m, k).size = k
  BY DEF Beginning
<1>2. k # 0 => Beginning(m, k).head = m
  BY DEF Beginning
<1>3. k = 0 => Beginning(m, k).head = None
  BY DEF Beginning
<1>4. Beginning(m, k) \in Content
  BY DEF Beginning, Content
<1>5. ~Mixture(Beginning(m, k))
  BY <1>1 DEF Mixture
<1>6. Agreed(Beginning(m, k), m) = k
  BY <1>1, <1>2, <1>3, FileAssumption DEF Agreed
<1>7. QED
  BY <1>1, <1>2, <1>3, <1>4, <1>5, <1>6

LEMMA ContentTypes ==
    /\ Blank \in Content /\ Blank.head = None /\ Blank.size = 0
    /\ ~Readable(Blank) /\ ~Mixture(Blank)
    /\ \A m \in Map : /\ Whole(m) \in Content
                      /\ Readable(Whole(m))
                      /\ Beginning(m, 0) = Blank
<1>1. Blank.head = None /\ Blank.size = 0
  BY DEF Blank, Beginning
<1>2. Blank \in Content /\ ~Mixture(Blank)
  BY FileAssumption, BeginningTypes DEF Blank
<1>3. ~Readable(Blank)
  BY <1>1 DEF Readable
<1>4. ASSUME NEW m \in Map
      PROVE  Whole(m) \in Content /\ Readable(Whole(m)) /\ Beginning(m, 0) = Blank
  <2>1. Whole(m) \in Content
    BY FileAssumption, BeginningTypes DEF Whole
  <2>2. Readable(Whole(m))
    BY FileAssumption DEF Whole, Beginning, Readable
  <2>3. QED
    BY <2>1, <2>2 DEF Beginning, Blank
<1>5. QED
  BY <1>1, <1>2, <1>3, <1>4

LEMMA PutTypes ==
  ASSUME NEW c \in Content, NEW m \in Map, NEW from \in Nat, NEW to \in Nat
  PROVE  Put(c, m, from, to) \in Content /\ Put(c, m, from, to).head \in {m, None}
<1>1. Longest(c.size, to) \in Nat /\ Longest(Agreed(c, m), to) \in Nat
  BY DEF Content, Longest, Agreed
<1>2. \A h \in Map \cup {None}, u \in Nat, n \in Nat :
          [head |-> h, upto |-> u, size |-> n] \in Content
  BY DEF Content
<1>3. \E h \in {m, None} : \E u \in {0, Longest(Agreed(c, m), to)} :
          Put(c, m, from, to) = [head |-> h, upto |-> u, size |-> Longest(c.size, to)]
  BY Zenon DEF Put
<1>4. PICK h \in {m, None}, u \in {0, Longest(Agreed(c, m), to)} :
          Put(c, m, from, to) = [head |-> h, upto |-> u, size |-> Longest(c.size, to)]
  BY <1>3
<1>5. u \in Nat /\ h \in Map \cup {None}
  BY <1>1
<1>6. Put(c, m, from, to) \in Content
  BY <1>1, <1>2, <1>4, <1>5
<1>7. Put(c, m, from, to).head = h
  BY <1>4
<1>8. QED
  BY <1>6, <1>7

(* A call that has its file to itself extends the beginning it has written;*)
(* a whole map written at one go is never a mixture.                       *)
LEMMA PutExtends ==
  ASSUME NEW m \in Map, NEW from \in Nat, NEW to \in Nat, from < to
  PROVE  Put(Beginning(m, from), m, from, to) = Beginning(m, to)
<1>1. Longest(from, to) = to /\ to # 0
  BY DEF Longest
<1>2. Agreed(Beginning(m, from), m) = from /\ Beginning(m, from).size = from
  BY BeginningTypes
<1>3. Put(Beginning(m, from), m, from, to) = [head |-> m, upto |-> to, size |-> to]
  BY <1>1, <1>2 DEF Put
<1>4. QED
  BY <1>1, <1>3 DEF Beginning

LEMMA PutWhole ==
  ASSUME NEW c \in Content, NEW m \in Map
  PROVE  ~Mixture(Put(c, m, 0, Size(m)))
<1>1. Agreed(c, m) \in Nat /\ Size(m) \in Nat
  BY FileAssumption DEF Agreed, Content
<1>2. /\ Put(c, m, 0, Size(m)).head = m
      /\ Put(c, m, 0, Size(m)).upto = Longest(Agreed(c, m), Size(m))
  BY <1>1 DEF Put
<1>3. ~(Longest(Agreed(c, m), Size(m)) < Size(m))
  BY <1>1 DEF Longest
<1>4. QED
  BY <1>2, <1>3 DEF Mixture

LEMMA StoppedTypes ==
    FileTypeOK => /\ Stopped \in [Saver -> [at : Stage, map : Map, fd : Link, off : Nat]]
                  /\ \A s \in Saver : /\ Stopped[s].at \in {"idle", "done"}
                                      /\ Stopped[s].fd = None
                                      /\ Stopped[s].off = 0
                                      /\ Stopped[s].map = saver[s].map
                                      /\ Stopped[s].at = "idle" <=> saver[s].at = "idle"
  BY DEF Stopped, Busy, FileTypeOK, Stage, Link

(* What a call is left with once its file is closed. *)
LEMMA RestTypes ==
  ASSUME FileTypeOK, NEW s \in Saver, NEW a \in Stage,
         saver' = [saver EXCEPT ![s].at = a, ![s].fd = None, ![s].off = 0]
  PROVE  saver' \in [Saver -> [at : Stage, map : Map, fd : Link, off : Nat]]
<1>1. \A t \in Saver : saver[t] \in [at : Stage, map : Map, fd : Link, off : Nat]
  BY DEF FileTypeOK
<1>2. [saver[s] EXCEPT !.at = a, !.fd = None, !.off = 0]
          \in [at : Stage, map : Map, fd : Link, off : Nat]
  BY <1>1 DEF Link
<1>3. saver' = [saver EXCEPT ![s] = [saver[s] EXCEPT !.at = a, !.fd = None, !.off = 0]]
  BY DEF FileTypeOK
<1>4. QED
  BY <1>1, <1>2, <1>3 DEF FileTypeOK

(* The bytes that a call writes go to one inode. *)
LEMMA WriteTypes ==
  ASSUME FileTypeOK, NEW s \in Saver, saver[s].at = "write", NEW k \in Nat,
         data' = [data EXCEPT ![saver[s].fd] = Put(@, saver[s].map, saver[s].off, k)]
  PROVE  /\ data' \in [Saver -> Content]
         /\ \A i \in Saver : data'[i].head \in {saver[s].map, None, data[i].head}
  <1>1. Put(data[saver[s].fd], saver[s].map, saver[s].off, k) \in Content
    BY PutTypes DEF FileTypeOK
  <1>2. Put(data[saver[s].fd], saver[s].map, saver[s].off, k).head \in {saver[s].map, None}
    BY PutTypes DEF FileTypeOK
  <1>3. QED
    BY <1>1, <1>2 DEF FileTypeOK

(* After a power failure the state file, if there is one, is the inode of  *)
(* some call that has begun; without an overlap it parses.                 *)
LEMMA PowerCutTypes ==
  ASSUME FileTypeOK, NamesCreated, PowerCut
  PROVE  /\ path' \in Link
         /\ path' # None => saver[path'].at \notin {"idle", "create"}
         /\ data' \in [Saver -> Content]
         /\ \A i \in Saver : /\ data'[i] = Blank \/ i = path'
                             /\ data'[i].head \in {None, data[i].head, saver[i].map}
                             /\ ~clash => ~Mixture(data'[i])
<1> USE FileAssumption, ContentTypes DEF FileTypeOK, Link
<1>1. CASE Recovered(None, Blank)
  BY <1>1 DEF Recovered
<1>2. ASSUME NEW p \in Saver \ {tmp}, Readable(data[p]), Recovered(p, data[p])
      PROVE  /\ path' = p
             /\ saver[p].at \notin {"idle", "create"}
             /\ data' \in [Saver -> Content]
             /\ \A i \in Saver : /\ data'[i] = Blank \/ i = path'
                                 /\ data'[i].head \in {None, data[i].head}
                                 /\ ~Mixture(data'[i])
  <2>1. path' = p /\ saver[p].at \notin {"idle", "create"}
    BY <1>2 DEF Recovered, NamesCreated
  <2>2. \A i \in Saver : data'[i] = IF i = p THEN data[i] ELSE Blank
    BY <1>2 DEF Recovered
  <2>3. data' \in [Saver -> Content]
    BY <1>2 DEF Recovered
  <2>4. ~Mixture(data[p])
    BY <1>2 DEF Readable, Mixture, Content
  <2>5. QED
    BY <2>1, <2>2, <2>3, <2>4
<1>3. ASSUME path # None, clash, Recovered(path, Mixed(saver[path].map))
      PROVE  /\ path' = path
             /\ saver[path].at \notin {"idle", "create"}
             /\ data' \in [Saver -> Content]
             /\ \A i \in Saver : /\ data'[i] = Blank \/ i = path'
                                 /\ data'[i].head \in {None, saver[i].map}
  <2>1. path \in Saver /\ saver[path].map \in Map
    BY <1>3
  <2>2. Mixed(saver[path].map) \in Content /\ Mixed(saver[path].map).head = saver[path].map
    BY <2>1 DEF Mixed, Content
  <2>3. \A i \in Saver : data'[i] = IF i = path THEN Mixed(saver[path].map) ELSE Blank
    BY <1>3 DEF Recovered
  <2>4. data' \in [Saver -> Content]
    BY <1>3, <2>2 DEF Recovered
  <2>5. QED
    BY <1>3, <2>1, <2>2, <2>3, <2>4 DEF Recovered, NamesCreated
<1>4. QED
  BY <1>1, <1>2, <1>3 DEF PowerCut

(* Type correctness of every step of the file. *)
LEMMA FileTypeStep == FileTypeOK /\ NamesCreated /\ [FileNext]_fileVars => FileTypeOK'
<1> SUFFICES ASSUME FileTypeOK, NamesCreated, [FileNext]_fileVars PROVE FileTypeOK'
  OBVIOUS
<1> USE FileAssumption, ContentTypes DEF FileTypeOK, Link, Stage
<1>1. ASSUME NEW s \in Saver, NEW m \in Map, Begin(s, m) PROVE FileTypeOK'
  BY <1>1 DEF Begin
<1>2. ASSUME NEW s \in Saver, Create(s) PROVE FileTypeOK'
  BY <1>2 DEF Create
<1>s. ASSUME NEW s \in Saver, Short(s) PROVE FileTypeOK'
  <2>1. PICK k \in saver[s].off + 1 .. Size(saver[s].map) - 1 :
           /\ data' = [data EXCEPT ![saver[s].fd] = Put(@, saver[s].map, saver[s].off, k)]
           /\ saver' = [saver EXCEPT ![s].off = k]
    BY <1>s DEF Short
  <2>2. k \in Nat /\ k < Size(saver[s].map) /\ saver[s].at = "write"
    BY <1>s DEF Short
  <2>3. data' \in [Saver -> Content]
    BY <2>1, <2>2, WriteTypes
  <2>4. saver' \in [Saver -> [at : Stage, map : Map, fd : Link, off : Nat]]
    BY <2>1, <2>2
  <2>5. \A t \in Saver : IF saver'[t].at = "write"
                        THEN saver'[t].fd \in Saver /\ saver'[t].off < Size(saver'[t].map)
                        ELSE saver'[t].fd = None /\ saver'[t].off = 0
    BY <2>1, <2>2
  <2>6. QED
    BY <1>s, <2>3, <2>4, <2>5 DEF Short
<1>3. ASSUME NEW s \in Saver, Write(s) PROVE FileTypeOK'
  <2>1. data' \in [Saver -> Content]
    BY <1>3, WriteTypes DEF Write
  <2>2. saver' = [saver EXCEPT ![s].at = "rename", ![s].fd = None, ![s].off = 0]
    BY <1>3 DEF Write
  <2>3. saver' \in [Saver -> [at : Stage, map : Map, fd : Link, off : Nat]]
    BY <2>2, RestTypes DEF Stage
  <2>4. QED
    BY <1>3, <2>1, <2>2, <2>3 DEF Write
<1>4. ASSUME NEW s \in Saver, Rename(s) PROVE FileTypeOK'
  BY <1>4 DEF Rename
<1>5. ASSUME NEW s \in Saver, Abort(s) PROVE FileTypeOK'
  <2>1. saver' = [saver EXCEPT ![s].at = "done", ![s].fd = None, ![s].off = 0]
    BY <1>5 DEF Abort
  <2>2. saver' \in [Saver -> [at : Stage, map : Map, fd : Link, off : Nat]]
    BY <2>1, RestTypes DEF Stage
  <2>3. QED
    BY <1>5, <2>1, <2>2 DEF Abort
<1>6. CASE Crash
  BY <1>6, StoppedTypes DEF Crash
<1>7. CASE PowerCut
  <2>1. tmp' \in Link /\ path' \in Link /\ data' \in [Saver -> Content]
    BY <1>7, PowerCutTypes DEF PowerCut
  <2>2. QED
    BY <1>7, <2>1, StoppedTypes DEF PowerCut
<1>8. CASE UNCHANGED fileVars
  BY <1>8 DEF fileVars
<1>9. QED
  BY <1>1, <1>2, <1>s, <1>3, <1>4, <1>5, <1>6, <1>7, <1>8 DEF FileNext, Step

LEMMA FileInvInit == FileInit => FileInv
<1> SUFFICES ASSUME FileInit PROVE FileInv
  OBVIOUS
<1>1. FileTypeOK
  BY FileAssumption, ContentTypes DEF FileInit, FileTypeOK, Link, Stage
<1>2. NamesCreated
  BY FileAssumption DEF FileInit, NamesCreated
<1>3. Discipline
  BY DEF FileInit, Discipline, OneAtATime, TmpInHand, PathApart, Busy
<1>4. WholeWrites /\ NoMixture
  BY ContentTypes DEF FileInit, WholeWrites, NoMixture
<1>5. QED
  BY <1>1, <1>2, <1>3, <1>4 DEF FileInv

(* Each part of the invariant, step by step. *)
LEMMA NamesStep == FileInv /\ [FileNext]_fileVars => NamesCreated'
<1> SUFFICES ASSUME FileInv, [FileNext]_fileVars PROVE NamesCreated'
  OBVIOUS
<1> USE FileAssumption DEF FileInv, NamesCreated, FileTypeOK, Link
<1>1. ASSUME NEW s \in Saver, NEW m \in Map, Begin(s, m) PROVE NamesCreated'
  BY <1>1 DEF Begin
<1>2. ASSUME NEW s \in Saver, Create(s) PROVE NamesCreated'
  BY <1>2 DEF Create
<1>3. ASSUME NEW s \in Saver, Short(s) PROVE NamesCreated'
  BY <1>3 DEF Short
<1>4. ASSUME NEW s \in Saver, Write(s) PROVE NamesCreated'
  BY <1>4 DEF Write
<1>5. ASSUME NEW s \in Saver, Rename(s) PROVE NamesCreated'
  BY <1>5 DEF Rename
<1>6. ASSUME NEW s \in Saver, Abort(s) PROVE NamesCreated'
  BY <1>6 DEF Abort
<1>7. CASE Crash
  BY <1>7, StoppedTypes DEF Crash
<1>8. CASE PowerCut
  <2>1. tmp' = None /\ saver' = Stopped
    BY <1>8 DEF PowerCut
  <2>2. /\ path' # None => saver[path'].at \notin {"idle", "create"}
        /\ \A i \in Saver : data'[i] = Blank \/ i = path'
    BY <1>8, PowerCutTypes
  <2>3. QED
    BY <2>1, <2>2, StoppedTypes
<1>9. CASE UNCHANGED fileVars
  BY <1>9 DEF fileVars
<1>10. QED
  BY <1>1, <1>2, <1>3, <1>4, <1>5, <1>6, <1>7, <1>8, <1>9 DEF FileNext, Step

LEMMA DisciplineStep == FileInv /\ [FileNext]_fileVars => Discipline'
<1> SUFFICES ASSUME FileInv, [FileNext]_fileVars, ~clash'
             PROVE  OneAtATime' /\ TmpInHand' /\ PathApart'
  BY DEF Discipline
<1> USE FileAssumption, ContentTypes DEF FileInv
<1> USE DEF NamesCreated, Discipline, OneAtATime, TmpInHand, PathApart, Busy
<1>1. ASSUME NEW s \in Saver, NEW m \in Map, Begin(s, m)
      PROVE  OneAtATime' /\ TmpInHand' /\ PathApart'
  BY <1>1 DEF Begin, FileTypeOK, Quiet
<1>2. ASSUME NEW s \in Saver, Create(s) PROVE OneAtATime' /\ TmpInHand' /\ PathApart'
  BY <1>2 DEF Create, FileTypeOK, Link
<1>3. ASSUME NEW s \in Saver, Short(s) PROVE OneAtATime' /\ TmpInHand' /\ PathApart'
  <2> USE <1>3 DEF FileTypeOK, Link
  <2>1. PICK k \in saver[s].off + 1 .. Size(saver[s].map) - 1 :
           /\ data' = [data EXCEPT ![saver[s].fd] = Put(@, saver[s].map, saver[s].off, k)]
           /\ saver' = [saver EXCEPT ![s].off = k]
    BY DEF Short
  <2>2. k \in Nat /\ saver[s].off < k
    OBVIOUS
  <2>3. ~clash /\ tmp' = tmp /\ path' = path /\ dark' = dark /\ saver[s].at = "write"
    BY DEF Short
  <2>4. data[saver[s].fd] = Beginning(saver[s].map, saver[s].off) /\ saver[s].fd = tmp
    BY <2>3
  <2>5. Put(data[saver[s].fd], saver[s].map, saver[s].off, k) = Beginning(saver[s].map, k)
    BY <2>2, <2>4, PutExtends
  <2>6. data'[tmp] = Beginning(saver[s].map, k)
    BY <2>1, <2>3, <2>4, <2>5
  <2>7. OneAtATime'
    BY <2>1, <2>3
  <2>8. TmpInHand'
    BY <2>1, <2>3, <2>4, <2>6
  <2>9. PathApart'
    BY <2>1, <2>3, <2>4 DEF Readable
  <2>10. QED
    BY <2>7, <2>8, <2>9
<1>4. ASSUME NEW s \in Saver, Write(s) PROVE OneAtATime' /\ TmpInHand' /\ PathApart'
  <2> USE <1>4 DEF FileTypeOK, Link
  <2>1. /\ data' = [data EXCEPT ![saver[s].fd] =
                       Put(@, saver[s].map, saver[s].off, Size(saver[s].map))]
        /\ saver' = [saver EXCEPT ![s].at = "rename", ![s].fd = None, ![s].off = 0]
    BY DEF Write
  <2>2. ~clash /\ tmp' = tmp /\ path' = path /\ dark' = dark /\ saver[s].at = "write"
    BY DEF Write
  <2>3. data[saver[s].fd] = Beginning(saver[s].map, saver[s].off) /\ saver[s].fd = tmp
    BY <2>2
  <2>4. Put(data[saver[s].fd], saver[s].map, saver[s].off, Size(saver[s].map))
            = Whole(saver[s].map)
    BY <2>2, <2>3, PutExtends DEF Whole
  <2>5. data'[tmp] = Whole(saver[s].map)
    BY <2>1, <2>2, <2>3, <2>4
  <2>6. OneAtATime'
    BY <2>1, <2>2
  <2>7. TmpInHand'
    BY <2>1, <2>2, <2>3, <2>5
  <2>8. PathApart'
    BY <2>1, <2>2, <2>3 DEF Readable
  <2>9. QED
    BY <2>6, <2>7, <2>8
<1>5. ASSUME NEW s \in Saver, Rename(s) PROVE OneAtATime' /\ TmpInHand' /\ PathApart'
  BY <1>5 DEF Rename, FileTypeOK, Link
<1>6. ASSUME NEW s \in Saver, Abort(s) PROVE OneAtATime' /\ TmpInHand' /\ PathApart'
  BY <1>6 DEF Abort, FileTypeOK, Link, Readable
<1>s. \A s \in Saver : Stopped[s].at \notin {"create", "write", "rename"}
  BY StoppedTypes
<1>7. CASE Crash
  BY <1>7, <1>s DEF Crash, Readable
<1>8. CASE PowerCut
  BY <1>8, <1>s DEF PowerCut
<1>9. CASE UNCHANGED fileVars
  BY <1>9 DEF fileVars, Readable
<1>10. QED
  <2> HIDE DEF FileInv, Discipline, OneAtATime, TmpInHand, PathApart
  <2> QED
    BY <1>1, <1>2, <1>3, <1>4, <1>5, <1>6, <1>7, <1>8, <1>9 DEF FileNext, Step

LEMMA WholeWritesStep == FileInv /\ [FileNext]_fileVars => WholeWrites'
<1> SUFFICES ASSUME FileInv, [FileNext]_fileVars, ~short', NEW t \in Saver
             PROVE  saver'[t].off = 0
  BY DEF WholeWrites
<1> USE DEF FileInv, WholeWrites, FileTypeOK
<1>1. ASSUME NEW s \in Saver, NEW m \in Map, Begin(s, m) PROVE saver'[t].off = 0
  BY <1>1 DEF Begin
<1>2. ASSUME NEW s \in Saver, Step(s) PROVE saver'[t].off = 0
  BY <1>2 DEF Step, Create, Short, Write, Rename, Abort
<1>3. CASE Crash \/ PowerCut
  BY <1>3, StoppedTypes DEF Crash, PowerCut
<1>4. CASE UNCHANGED fileVars
  BY <1>4 DEF fileVars
<1>5. QED
  BY <1>1, <1>2, <1>3, <1>4 DEF FileNext

(* A write makes a mixture only of a file that two calls have in hand, and *)
(* only when one of them is in the middle of its bytes.                    *)
LEMMA NoMixtureStep == FileInv /\ [FileNext]_fileVars => NoMixture'
<1> SUFFICES ASSUME FileInv, [FileNext]_fileVars, ~Spliceable', NEW i \in Saver
             PROVE  ~Mixture(data'[i])
  BY DEF NoMixture
<1> USE ContentTypes DEF FileInv, FileTypeOK, Spliceable
<1>1. ASSUME NEW s \in Saver, NEW m \in Map, Begin(s, m) PROVE ~Mixture(data'[i])
  BY <1>1 DEF Begin, NoMixture
<1>2. ASSUME NEW s \in Saver, Create(s) PROVE ~Mixture(data'[i])
  BY <1>2 DEF Create, NoMixture
<1>3. ASSUME NEW s \in Saver, Short(s) PROVE ~Mixture(data'[i])
  <2>1. ~clash /\ ~Spliceable /\ saver[s].at = "write"
    BY <1>3 DEF Short
  <2>2. PICK k \in saver[s].off + 1 .. Size(saver[s].map) - 1 :
           data' = [data EXCEPT ![saver[s].fd] = Put(@, saver[s].map, saver[s].off, k)]
    BY <1>3 DEF Short
  <2>3. data[saver[s].fd] = Beginning(saver[s].map, saver[s].off)
    BY <2>1 DEF Discipline, TmpInHand
  <2>4. ~Mixture(Put(data[saver[s].fd], saver[s].map, saver[s].off, k))
    <3>1. k \in Nat /\ saver[s].off \in Nat /\ saver[s].off < k /\ saver[s].map \in Map
      BY <2>2
    <3>2. Put(data[saver[s].fd], saver[s].map, saver[s].off, k) = Beginning(saver[s].map, k)
      BY <2>3, <3>1, PutExtends
    <3>3. QED
      BY <3>1, <3>2, BeginningTypes
  <2>5. QED
    BY <2>1, <2>2, <2>4 DEF NoMixture
<1>4. ASSUME NEW s \in Saver, Write(s) PROVE ~Mixture(data'[i])
  <2> DEFINE m == saver[s].map
             new == Put(data[saver[s].fd], m, saver[s].off, Size(m))
  <2>1. ~Spliceable /\ saver[s].at = "write" /\ data' = [data EXCEPT ![saver[s].fd] = new]
    BY <1>4 DEF Write
  <2>2. ~Mixture(new)
    <3>1. CASE clash
      <4>1. saver[s].off = 0
        BY <2>1, <3>1 DEF WholeWrites
      <4>2. QED
        BY <2>1, <4>1, PutWhole
    <3>2. CASE ~clash
      <4>1. data[saver[s].fd] = Beginning(m, saver[s].off)
        BY <2>1, <3>2 DEF Discipline, TmpInHand
      <4>2. Size(m) \in Nat /\ saver[s].off \in Nat /\ saver[s].off < Size(m) /\ m \in Map
        BY <2>1, FileAssumption
      <4>3. new = Beginning(m, Size(m))
        BY <4>1, <4>2, PutExtends
      <4>4. QED
        BY <4>2, <4>3, BeginningTypes
    <3>3. QED
      BY <3>1, <3>2
  <2>3. QED
    BY <2>1, <2>2 DEF NoMixture
<1>5. ASSUME NEW s \in Saver, Rename(s) \/ Abort(s) PROVE ~Mixture(data'[i])
  BY <1>5 DEF Rename, Abort, NoMixture
<1>6. CASE Crash
  BY <1>6 DEF Crash, NoMixture
<1>7. CASE PowerCut
  <2>1. ~clash /\ ~Spliceable
    BY <1>7 DEF PowerCut
  <2>2. QED
    BY <1>7, <2>1, PowerCutTypes DEF NoMixture
<1>8. CASE UNCHANGED fileVars
  BY <1>8 DEF fileVars, NoMixture
<1>9. QED
  BY <1>1, <1>2, <1>3, <1>4, <1>5, <1>6, <1>7, <1>8 DEF FileNext, Step

LEMMA FileInvStep == FileInv /\ [FileNext]_fileVars => FileInv'
<1>1. FileInv => FileTypeOK
  BY DEF FileInv
<1>2. QED
  BY <1>1, FileTypeStep, NamesStep, DisciplineStep, WholeWritesStep, NoMixtureStep DEF FileInv

(* The descriptors: a call of save_state has a file open from its open to  *)
(* the end of its write, and at no other time, whatever the others do,     *)
(* whatever fails, and across crashes and power failures.                  *)
THEOREM FileTypeCorrect == FileSpec => []FileTypeOK
<1>1. FileInv => FileTypeOK
  BY DEF FileInv
<1>2. QED
  BY FileInvInit, FileInvStep, <1>1, PTL DEF FileSpec

(* The state file is one whole map, or absent, as long as no two calls of  *)
(* save_state have overlapped and the power has not failed: main.rs:387    *)
(* holds for calls in sequence, whatever fails and whenever the process    *)
(* dies.                                                                   *)
THEOREM NeverTornTheorem == FileSpec => []NeverTorn
<1>1. FileInv => NeverTorn
  BY DEF FileInv, Discipline, PathApart, NeverTorn
<1>2. QED
  BY FileInvInit, FileInvStep, <1>1, PTL DEF FileSpec
-----------------------------------------------------------------------------
(* Without an overlap only a rename changes what a restart would load.     *)
LEMMA KeepsLoaded ==
  ASSUME FileInv, ~clash,
         \/ Crash
         \/ \E s \in Saver : Create(s) \/ Short(s) \/ Write(s) \/ Abort(s)
  PROVE  Loaded' = Loaded
<1> USE FileAssumption DEF FileInv, Discipline, TmpInHand, PathApart, NamesCreated,
                           FileTypeOK, Link
<1>1. path' = path
  BY DEF Crash, Create, Short, Write, Abort
<1>2. ASSUME path # None PROVE data'[path] = data[path]
  <2>1. CASE Crash
    BY <2>1 DEF Crash
  <2>2. ASSUME NEW s \in Saver, Create(s) PROVE data'[path] = data[path]
    BY <1>2, <2>2 DEF Create
  <2>3. ASSUME NEW s \in Saver, Short(s) PROVE data'[path] = data[path]
    BY <1>2, <2>3 DEF Short
  <2>4. ASSUME NEW s \in Saver, Write(s) PROVE data'[path] = data[path]
    BY <1>2, <2>4 DEF Write
  <2>5. ASSUME NEW s \in Saver, Abort(s) PROVE data'[path] = data[path]
    BY <1>2, <2>5 DEF Abort
  <2>6. QED
    BY <2>1, <2>2, <2>3, <2>4, <2>5
<1>3. QED
  BY <1>1, <1>2 DEF Loaded, Readable

LEMMA RenameLoads ==
  ASSUME FileInv, ~clash, NEW s \in Saver, Rename(s)
  PROVE  Loaded' = saver[s].map /\ ~failed'
<1>1. tmp # None /\ data[tmp] = Whole(saver[s].map) /\ saver[s].map \in Map
  BY DEF FileInv, Discipline, TmpInHand, FileTypeOK, Rename
<1>2. path' = tmp /\ data' = data /\ failed' = FALSE
  BY <1>1 DEF Rename
<1>3. path' # None /\ data'[path'] = Whole(saver[s].map)
  BY <1>1, <1>2
<1>4. Readable(data'[path']) /\ data'[path'].head = saver[s].map
  BY <1>1, <1>3, FileAssumption, ContentTypes DEF Whole, Beginning
<1>5. QED
  BY <1>2, <1>3, <1>4 DEF Loaded, Readable

(* Failed calls and crashes never change what a restart would load, and a  *)
(* successful call publishes exactly its own map (main.rs:388-397), in     *)
(* executions whose calls do not overlap.                                  *)
THEOREM OnlyRenamePublishesTheorem == FileSpec => OnlyRenamePublishes
<1> DEFINE Published == (~clash /\ Loaded' # Loaded)
              => \/ PowerCut
                 \/ \E s \in Saver : saver[s].at = "rename" /\ saver'[s].at = "done"
                                     /\ Loaded' = saver[s].map
<1>1. FileInv /\ [FileNext]_fileVars => [Published]_fileVars
  <2> SUFFICES ASSUME FileInv, FileNext, ~PowerCut, ~clash, Loaded' # Loaded
               PROVE  \E s \in Saver : saver[s].at = "rename" /\ saver'[s].at = "done"
                                      /\ Loaded' = saver[s].map
    OBVIOUS
  <2>1. ASSUME NEW s \in Saver, NEW m \in Map, Begin(s, m) PROVE FALSE
    BY <2>1 DEF Begin, Loaded, Readable
  <2>2. ASSUME NEW s \in Saver, Rename(s)
        PROVE  saver[s].at = "rename" /\ saver'[s].at = "done" /\ Loaded' = saver[s].map
    BY <2>2, RenameLoads DEF Rename, FileInv, FileTypeOK
  <2>3. QED
    BY <2>1, <2>2, KeepsLoaded DEF FileNext, Step
<1>2. QED
  BY FileInvInit, FileInvStep, <1>1, PTL DEF FileSpec, OnlyRenamePublishes

-----------------------------------------------------------------------------
(* The maps handed to save_state: a call that begins adds its own, no      *)
(* other step changes them.                                                *)
LEMMA GivenBegin ==
  ASSUME FileTypeOK, NEW s \in Saver, NEW m, Begin(s, m)
  PROVE  Given' = Given \cup {m}
  BY DEF FileTypeOK, Begin, Given

LEMMA GivenKept ==
  ASSUME FileTypeOK, Crash \/ PowerCut \/ \E s \in Saver : Step(s)
  PROVE  Given' = Given
<1>1. CASE Crash \/ PowerCut
  <2>1. \A t \in Saver : /\ saver'[t].map = saver[t].map
                         /\ saver'[t].at = "idle" <=> saver[t].at = "idle"
    BY <1>1, StoppedTypes DEF Crash, PowerCut
  <2>2. QED
    BY <2>1 DEF Given
<1>2. ASSUME NEW s \in Saver, Step(s) PROVE Given' = Given
  <2>1. \A t \in Saver : /\ saver'[t].map = saver[t].map
                         /\ saver'[t].at = "idle" <=> saver[t].at = "idle"
    <3>1. CASE Create(s) \/ Short(s)
      BY <3>1 DEF Create, Short, FileTypeOK
    <3>2. CASE Write(s) \/ Rename(s)
      BY <3>2 DEF Write, Rename, FileTypeOK
    <3>3. CASE Abort(s)
      BY <3>3 DEF Abort, Busy, FileTypeOK
    <3>4. QED
      BY <1>2, <3>1, <3>2, <3>3 DEF Step
  <2>2. QED
    BY <2>1 DEF Given
<1>3. QED
  BY <1>1, <1>2

(* Whatever file it is, the complete map it begins with was handed to some *)
(* call of save_state.                                                     *)
HeadsGiven == \A i \in Saver : data[i].head \in Given \cup {None}

LEMMA HeadsGivenStep == FileTypeOK /\ NamesCreated /\ HeadsGiven /\ [FileNext]_fileVars => HeadsGiven'
<1> SUFFICES ASSUME FileTypeOK, NamesCreated, HeadsGiven, [FileNext]_fileVars PROVE HeadsGiven'
  OBVIOUS
<1> USE DEF HeadsGiven
<1>1. ASSUME NEW s \in Saver, NEW m \in Map, Begin(s, m) PROVE HeadsGiven'
  BY <1>1, GivenBegin DEF Begin
<1>2. CASE Crash \/ PowerCut
  <2>1. Given' = Given
    BY <1>2, GivenKept
  <2>2. CASE Crash
    BY <2>1, <2>2 DEF Crash
  <2>3. CASE PowerCut
    <3>1. ASSUME NEW i \in Saver PROVE data'[i].head \in Given \cup {None}
      <4>1. CASE data'[i] = Blank
        BY <4>1, ContentTypes
      <4>2. CASE i = path'
        <5>1. saver[i].map \in Given
          BY <2>3, <4>2, PowerCutTypes, FileAssumption DEF Given
        <5>2. data'[i].head \in {None, data[i].head, saver[i].map}
          BY <2>3, PowerCutTypes
        <5>3. QED
          BY <5>1, <5>2
      <4>3. QED
        BY <2>3, <4>1, <4>2, PowerCutTypes
    <3>2. QED
      BY <2>1, <3>1
  <2>4. QED
    BY <1>2, <2>2, <2>3
<1>3. ASSUME NEW s \in Saver, Step(s) PROVE HeadsGiven'
  <2>1. Given' = Given
    BY <1>3, GivenKept
  <2>2. CASE Create(s)
    BY <2>1, <2>2, ContentTypes DEF Create, FileTypeOK
  <2>3. CASE Short(s)
    <3>1. saver[s].map \in Given
      BY <2>3 DEF Short, Given
    <3>2. \A i \in Saver : data'[i].head \in {saver[s].map, None, data[i].head}
      <4>1. PICK k \in saver[s].off + 1 .. Size(saver[s].map) - 1 :
               data' = [data EXCEPT ![saver[s].fd] = Put(@, saver[s].map, saver[s].off, k)]
        BY <2>3 DEF Short
      <4>2. k \in Nat
        BY FileAssumption DEF FileTypeOK
      <4>3. QED
        BY <2>3, <4>1, <4>2, WriteTypes DEF Short
    <3>3. QED
      BY <2>1, <3>1, <3>2
  <2>4. CASE Write(s)
    <3>1. saver[s].map \in Given
      BY <2>4 DEF Write, Given
    <3>2. \A i \in Saver : data'[i].head \in {saver[s].map, None, data[i].head}
      BY <2>4, WriteTypes, FileAssumption DEF Write, FileTypeOK
    <3>3. QED
      BY <2>1, <3>1, <3>2
  <2>5. CASE Rename(s) \/ Abort(s)
    BY <2>1, <2>5 DEF Rename, Abort
  <2>6. QED
    BY <1>3, <2>2, <2>3, <2>4, <2>5 DEF Step
<1>4. CASE UNCHANGED fileVars
  BY <1>4 DEF fileVars, Given
<1>5. QED
  BY <1>1, <1>2, <1>3, <1>4 DEF FileNext

LEMMA FileSafety ==
    /\ FileInit => FileInv /\ HeadsGiven
    /\ (FileInv /\ HeadsGiven) /\ [FileNext]_fileVars => (FileInv /\ HeadsGiven)'
<1>1. FileInit => HeadsGiven
  <2>1. Blank.head = None
    BY ContentTypes
  <2>2. ASSUME FileInit, NEW i \in Saver PROVE data[i] = Blank
    BY <2>2 DEF FileInit
  <2>3. QED
    BY <2>1, <2>2 DEF HeadsGiven
<1>2. FileInv /\ HeadsGiven /\ [FileNext]_fileVars => HeadsGiven'
  BY HeadsGivenStep DEF FileInv
<1>3. QED
  BY <1>1, <1>2, FileInvInit, FileInvStep

(* What a restart may load: without a mixture, what is in the file.        *)
LEMMA LoadableUnmixed ==
    FileInv /\ ~Spliceable => Loadable = {Loaded}
  BY DEF FileInv, FileTypeOK, Link, NoMixture, Loadable

LEMMA LoadedGiven ==
    FileTypeOK /\ HeadsGiven => Loaded \in {EmptyMap} \cup Given
  BY DEF FileTypeOK, Link, HeadsGiven, Loaded, Readable

(* In every interleaving, with every failure and crash, a restart loads    *)
(* nothing or one snapshot, whole (main.rs:377-397): overlapping calls lose*)
(* snapshots but do not mix them, as long as no write is cut short and the *)
(* power stays; and without an overlap nothing ever mixes them.            *)
THEOREM LoadedIsASnapshotTheorem == FileSpec => []LoadedIsASnapshot
<1>1. FileInv /\ HeadsGiven => LoadedIsASnapshot
  BY LoadableUnmixed, LoadedGiven DEF FileInv, LoadedIsASnapshot
<1>2. QED
  BY FileSafety, <1>1, PTL DEF FileSpec
=============================================================================

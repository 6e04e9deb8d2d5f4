---------------------------- MODULE LoggingProofs ----------------------------
(***************************************************************************)
(* What the write-ahead log keeps.                                         *)
(***************************************************************************)
EXTENDS Logging, SequenceTheorems, WellFoundedInduction, TLAPS

-----------------------------------------------------------------------------
(* Filters                                                                 *)

\* Of some numbers one is the least.
LEMMA Least ==
    ASSUME NEW B \in SUBSET Nat, B # {}
    PROVE  \E n \in B : \A m \in B : n <= m
  <1>1. IsWellFoundedOn(OpToRel(<, Nat), Nat)
    BY NatLessThanWellFounded
  <1>2. PICK n \in B : \A m \in B : <<m, n>> \notin OpToRel(<, Nat)
    BY <1>1, WFMin
  <1>3. ASSUME NEW m \in B PROVE n <= m
    <2>1. m \in Nat /\ n \in Nat
      OBVIOUS
    <2>2. ~ (m < n)
      BY <1>2, <2>1 DEF OpToRel
    <2>. QED
      BY <2>1, <2>2
  <1>. QED
    BY <1>3

\* f is the recursive function that Picked is defined by, up to n.
Filters(f, s, S, n) ==
    f = [i \in 0..n |->
            IF i = 0 THEN <<>> ELSE IF i \in S THEN Append(f[i - 1], s[i]) ELSE f[i - 1]]

LEMMA FilterExists ==
    ASSUME NEW s, NEW S, NEW n \in Nat
    PROVE  \E f : Filters(f, s, S, n)
  <1> DEFINE Bad == {k \in Nat : ~ \E f : Filters(f, s, S, k)}
  <1> SUFFICES ASSUME Bad # {}
               PROVE  FALSE
    OBVIOUS
  <1>1. PICK m \in Bad : \A k \in Bad : m <= k
    BY Least
  <1>2. m # 0
    <2>1. Filters([i \in 0..0 |-> <<>>], s, S, 0)
      BY DEF Filters
    <2>. QED
      BY <1>1, <2>1
  <1>3. m - 1 \in Nat /\ m \in Nat /\ ~ (m <= m - 1)
    BY <1>2
  <1>4. PICK f : Filters(f, s, S, m - 1)
    BY <1>1, <1>3
  <1> DEFINE g == [i \in 0..m |->
                     IF i < m THEN f[i] ELSE IF m \in S THEN Append(f[m - 1], s[m]) ELSE f[m - 1]]
  <1>5. ASSUME NEW i \in 0..m
        PROVE  g[i] = IF i = 0 THEN <<>> ELSE IF i \in S THEN Append(g[i - 1], s[i]) ELSE g[i - 1]
    <2>1. CASE i < m
      <3>1. i \in 0..(m - 1) /\ (i # 0 => i - 1 \in 0..m /\ i - 1 < m)
        BY <2>1
      <3>. QED
        BY <1>4, <2>1, <3>1 DEF Filters
    <2>2. CASE i = m
      <3>1. m - 1 \in 0..m /\ m - 1 < m
        BY <1>3
      <3>. QED
        BY <1>2, <2>2, <3>1
    <2>. QED
      BY <2>1, <2>2
  <1>6. Filters(g, s, S, m)
    <2> HIDE DEF g
    <2>1. g = [i \in 0..m |-> g[i]]
      BY DEF g
    <2>. QED
      BY <1>5, <2>1 DEF Filters
  <1>. QED
    BY <1>1, <1>6

LEMMA PickedByFilter ==
    ASSUME NEW s, NEW S, Len(s) \in Nat
    PROVE  \E f : Picked(s, S) = f[Len(s)] /\ Filters(f, s, S, Len(s))
  <1> DEFINE f == CHOOSE f : Filters(f, s, S, Len(s))
  <1>1. Filters(f, s, S, Len(s))
    BY FilterExists
  <1>2. Picked(s, S) = f[Len(s)]
    BY DEF Picked, Filters
  <1>. QED
    BY <1>1, <1>2

\* e says where in s the elements of p are: at the positions T, in their order.
Selects(e, p, s, T) ==
    /\ e \in [1..Len(p) -> T]
    /\ \A k \in 1..Len(p) : p[k] = s[e[k]]
    /\ \A k, l \in 1..Len(p) : k < l => e[k] < e[l]
    /\ \A i \in T : \E k \in 1..Len(p) : e[k] = i

LEMMA SelectsMore ==
    ASSUME NEW A, NEW s \in Seq(A), NEW p \in Seq(A), NEW n \in 1..Len(s),
           NEW T \in SUBSET (1..(n - 1)), NEW e, Selects(e, p, s, T)
    PROVE  /\ Append(p, s[n]) \in Seq(A)
           /\ \E d : Selects(d, Append(p, s[n]), s, T \cup {n})
  <1> DEFINE q == Append(p, s[n])
             d == [k \in 1..(Len(p) + 1) |-> IF k \in 1..Len(p) THEN e[k] ELSE n]
  <1>1. /\ q \in Seq(A) /\ Len(q) = Len(p) + 1 /\ Len(p) \in Nat
        /\ \A k \in 1..Len(p) : q[k] = p[k]
        /\ q[Len(p) + 1] = s[n]
    OBVIOUS
  <1> HIDE DEF q
  <1>2. \A k \in 1..Len(p) : e[k] \in T /\ e[k] \in 1..(n - 1) /\ e[k] < n
    <2>1. n \in Nat /\ \A i \in T : i \in 1..(n - 1) /\ i < n
      <3>1. Len(s) \in Nat
        OBVIOUS
      <3>. QED
        BY <3>1
    <2>2. \A k \in 1..Len(p) : e[k] \in T
      BY DEF Selects
    <2>. QED
      BY <2>1, <2>2
  <1>3. \A k \in 1..Len(q) : k \in 1..Len(p) \/ (k = Len(p) + 1 /\ k \notin 1..Len(p))
    BY <1>1
  <1>4. d \in [1..Len(q) -> T \cup {n}]
    BY <1>1, <1>2
  <1>5. ASSUME NEW k \in 1..Len(q) PROVE q[k] = s[d[k]]
    BY <1>1, <1>3 DEF Selects
  <1>6. ASSUME NEW k \in 1..Len(q), NEW l \in 1..Len(q), k < l PROVE d[k] < d[l]
    <2>1. k \in 1..Len(p)
      BY <1>1, <1>6
    <2>2. CASE l \in 1..Len(p)
      BY <1>1, <1>6, <2>1, <2>2 DEF Selects
    <2>3. CASE l \notin 1..Len(p)
      BY <1>1, <1>2, <2>1, <2>3
    <2>. QED
      BY <2>2, <2>3
  <1>7. ASSUME NEW i \in T \cup {n} PROVE \E k \in 1..Len(q) : d[k] = i
    <2>1. CASE i \in T
      <3>1. PICK k \in 1..Len(p) : e[k] = i
        BY <2>1 DEF Selects
      <3>. QED
        BY <1>1, <3>1
    <2>2. CASE i = n
      <3>1. Len(p) + 1 \in 1..Len(q) /\ Len(p) + 1 \notin 1..Len(p)
        BY <1>1
      <3>. QED
        BY <1>1, <2>2, <3>1
    <2>. QED
      BY <2>1, <2>2
  <1>8. Selects(d, q, s, T \cup {n})
    <2> HIDE DEF d
    <2>. QED
      BY <1>4, <1>5, <1>6, <1>7 DEF Selects
  <1>. QED
    BY <1>1, <1>8 DEF q

\* What Picked returns: the elements of s at the positions in S, in their order.
LEMMA PickedSelects ==
    ASSUME NEW A, NEW s \in Seq(A), NEW S \in SUBSET (1..Len(s))
    PROVE  /\ Picked(s, S) \in Seq(A)
           /\ \E e : Selects(e, Picked(s, S), s, S)
  <1>1. Len(s) \in Nat
    OBVIOUS
  <1>2. PICK f : Picked(s, S) = f[Len(s)] /\ Filters(f, s, S, Len(s))
    BY <1>1, PickedByFilter
  <1>3. /\ f[0] = <<>>
        /\ \A i \in 1..Len(s) : f[i] = IF i \in S THEN Append(f[i - 1], s[i]) ELSE f[i - 1]
    <2>1. 0 \in 0..Len(s) /\ \A i \in 1..Len(s) : i \in 0..Len(s) /\ i # 0
      BY <1>1
    <2>. QED
      BY <1>2, <2>1 DEF Filters
  <1> DEFINE Good(n) == f[n] \in Seq(A) /\ \E e : Selects(e, f[n], s, S \cap (1..n))
             Bad == {n \in 0..Len(s) : ~ Good(n)}
  <1>4. Bad = {}
    <2> SUFFICES ASSUME Bad # {}
                 PROVE  FALSE
      OBVIOUS
    <2>1. Bad \in SUBSET Nat
      BY <1>1
    <2>2. PICK n \in Bad : \A m \in Bad : n <= m
      <3> HIDE DEF Bad
      <3>. QED
        BY <2>1, Least
    <2>3. n # 0
      <3>1. <<>> \in Seq(A) /\ Len(<<>>) = 0 /\ S \cap (1..0) = {} /\ 1..0 = {}
        OBVIOUS
      <3>2. Selects([k \in {} |-> 0], <<>>, s, {})
        BY <3>1 DEF Selects
      <3>3. Good(0)
        BY <1>3, <3>1, <3>2
      <3>. QED
        BY <2>2, <3>3
    <2>4. n \in 1..Len(s) /\ n - 1 \in 0..Len(s) /\ ~ (n <= n - 1) /\ n \in Nat
      BY <1>1, <2>1, <2>2, <2>3
    <2>5. Good(n - 1)
      BY <2>2, <2>4
    <2>6. CASE n \in S
      <3> DEFINE T == S \cap (1..(n - 1))
      <3>1. PICK e : Selects(e, f[n - 1], s, T)
        BY <2>5
      <3>2. f[n] = Append(f[n - 1], s[n]) /\ f[n - 1] \in Seq(A) /\ T \in SUBSET (1..(n - 1))
        BY <1>3, <2>4, <2>5, <2>6
      <3>3. S \cap (1..n) = T \cup {n}
        BY <2>4, <2>6
      <3>4. f[n] \in Seq(A) /\ \E d : Selects(d, f[n], s, T \cup {n})
        <4>1. PICK p \in Seq(A) : p = f[n - 1]
          BY <3>2
        <4> HIDE DEF T, Good, Bad
        <4>2. Append(p, s[n]) \in Seq(A) /\ \E d : Selects(d, Append(p, s[n]), s, T \cup {n})
          BY <2>4, <3>1, <3>2, <4>1, SelectsMore
        <4>. QED
          BY <3>2, <4>1, <4>2
      <3>. QED
        BY <2>2, <3>3, <3>4
    <2>7. CASE n \notin S
      <3>1. f[n] = f[n - 1]
        BY <1>3, <2>4, <2>7
      <3>2. S \cap (1..n) = S \cap (1..(n - 1))
        BY <2>4, <2>7
      <3>. QED
        BY <2>2, <2>5, <3>1, <3>2
    <2>. QED
      BY <2>6, <2>7
  <1>5. Good(Len(s)) /\ S \cap (1..Len(s)) = S
    <2>1. Len(s) \in 0..Len(s)
      BY <1>1
    <2>. QED
      BY <1>4, <2>1
  <1>. QED
    BY <1>2, <1>5

\* f is the recursive function that FlattenSeq is defined by, up to n.
Flattens(f, ss, n) == f = [i \in 1..n |-> IF i = 1 THEN ss[i] ELSE f[i - 1] \o ss[i]]

LEMMA FlattenExists ==
    ASSUME NEW ss, NEW n \in Nat \ {0}
    PROVE  \E f : Flattens(f, ss, n)
  <1> DEFINE Bad == {k \in Nat \ {0} : ~ \E f : Flattens(f, ss, k)}
  <1> SUFFICES ASSUME Bad # {}
               PROVE  FALSE
    OBVIOUS
  <1>1. PICK m \in Bad : \A k \in Bad : m <= k
    BY Least
  <1>2. m # 1
    <2>1. Flattens([i \in 1..1 |-> ss[i]], ss, 1)
      BY DEF Flattens
    <2>. QED
      BY <1>1, <2>1
  <1>3. m - 1 \in Nat \ {0} /\ m \in Nat /\ ~ (m <= m - 1)
    BY <1>2
  <1>4. PICK f : Flattens(f, ss, m - 1)
    BY <1>1, <1>3
  <1> DEFINE g == [i \in 1..m |-> IF i < m THEN f[i] ELSE f[m - 1] \o ss[m]]
  <1>5. ASSUME NEW i \in 1..m
        PROVE  g[i] = IF i = 1 THEN ss[i] ELSE g[i - 1] \o ss[i]
    <2>1. CASE i < m
      <3>1. i \in 1..(m - 1) /\ (i # 1 => i - 1 \in 1..m /\ i - 1 < m)
        BY <2>1
      <3>. QED
        BY <1>4, <2>1, <3>1 DEF Flattens
    <2>2. CASE i = m
      <3>1. m - 1 \in 1..m /\ m \in 1..m /\ m - 1 < m /\ ~ (m < m)
        BY <1>3
      <3>2. g[m] = f[m - 1] \o ss[m] /\ g[m - 1] = f[m - 1]
        BY <3>1
      <3>. QED
        BY <1>2, <2>2, <3>2
    <2>3. i < m \/ i = m
      BY <1>3
    <2>. QED
      BY <2>1, <2>2, <2>3
  <1>6. Flattens(g, ss, m)
    <2> HIDE DEF g
    <2>1. g = [i \in 1..m |-> g[i]]
      BY DEF g
    <2>. QED
      BY <1>5, <2>1 DEF Flattens
  <1>. QED
    BY <1>1, <1>6

\* What FlattenSeq returns holds every element of every sequence, and no other.
LEMMA FlattenKeeps ==
    ASSUME NEW A, NEW n \in Nat \ {0}, NEW ss \in [1..n -> Seq(A)]
    PROVE  /\ FlattenSeq(ss) \in Seq(A)
           /\ n = 1 => FlattenSeq(ss) = ss[1]
           /\ \A i \in 1..n : ToSet(ss[i]) \subseteq ToSet(FlattenSeq(ss))
  <1> DEFINE f == CHOOSE f : Flattens(f, ss, n)
  <1>1. Len(ss) = n /\ n # 0 /\ n \in Nat
    OBVIOUS
  <1>2. Flattens(f, ss, n)
    BY FlattenExists
  <1>3. FlattenSeq(ss) = f[n]
    BY <1>1 DEF FlattenSeq, Flattens
  <1> HIDE DEF f
  <1>4. f[1] = ss[1] /\ \A i \in 2..n : f[i] = f[i - 1] \o ss[i]
    <2>1. 1 \in 1..n /\ \A i \in 2..n : i \in 1..n /\ i # 1
      BY <1>1
    <2>. QED
      BY <1>2, <2>1 DEF Flattens
  <1> DEFINE Good(m) == f[m] \in Seq(A) /\ \A i \in 1..m : ToSet(ss[i]) \subseteq ToSet(f[m])
             Bad == {m \in 1..n : ~ Good(m)}
  <1>5. Bad = {}
    <2> SUFFICES ASSUME Bad # {}
                 PROVE  FALSE
      OBVIOUS
    <2>1. Bad \in SUBSET Nat
      BY <1>1
    <2>2. PICK m \in Bad : \A k \in Bad : m <= k
      <3> HIDE DEF Bad
      <3>. QED
        BY <2>1, Least
    <2>3. m # 1
      <3>1. \A i \in 1..1 : i = 1
        OBVIOUS
      <3>2. Good(1)
        BY <1>1, <1>4, <3>1
      <3>. QED
        BY <2>2, <3>2
    <2>4. m \in 2..n /\ m - 1 \in 1..n /\ ~ (m <= m - 1) /\ m \in 1..n
      BY <1>1, <2>1, <2>2, <2>3
    <2>5. f[m] = f[m - 1] \o ss[m] /\ f[m - 1] \in Seq(A) /\ ss[m] \in Seq(A)
          /\ \A i \in 1..(m - 1) : ToSet(ss[i]) \subseteq ToSet(f[m - 1])
      <3>1. Good(m - 1)
        BY <2>2, <2>4
      <3>. QED
        BY <1>4, <2>4, <3>1
    <2>6. \A p, q \in Seq(A) : p \o q \in Seq(A) /\ ToSet(p) \subseteq ToSet(p \o q)
                               /\ ToSet(q) \subseteq ToSet(p \o q)
      <3> TAKE p, q \in Seq(A)
      <3>1. /\ DOMAIN p = 1..Len(p) /\ DOMAIN q = 1..Len(q) /\ Len(p) \in Nat /\ Len(q) \in Nat
            /\ p \o q \in Seq(A) /\ DOMAIN (p \o q) = 1..(Len(p) + Len(q))
            /\ \A i \in 1..Len(p) : (p \o q)[i] = p[i]
            /\ \A i \in 1..Len(q) : (p \o q)[Len(p) + i] = q[i]
        OBVIOUS
      <3>2. ASSUME NEW i \in DOMAIN p PROVE p[i] \in ToSet(p \o q)
        <4>1. i \in DOMAIN (p \o q)
          BY <3>1
        <4>. QED
          BY <3>1, <4>1 DEF ToSet
      <3>3. ASSUME NEW i \in DOMAIN q PROVE q[i] \in ToSet(p \o q)
        <4>1. Len(p) + i \in DOMAIN (p \o q) /\ (p \o q)[Len(p) + i] = q[i]
          BY <3>1
        <4>. QED
          BY <3>1, <4>1 DEF ToSet
      <3>. QED
        BY <3>1, <3>2, <3>3 DEF ToSet
    <2>7. \A i \in 1..m : i \in 1..(m - 1) \/ i = m
      BY <2>4
    <2>8. Good(m)
      <3> HIDE DEF Bad
      <3>. QED
        BY <2>5, <2>6, <2>7
    <2>. QED
      BY <2>2, <2>8
  <1>6. Good(n)
    <2>1. n \in 1..n
      BY <1>1
    <2>. QED
      BY <1>5, <2>1
  <1>. QED
    BY <1>3, <1>4, <1>6

-----------------------------------------------------------------------------
(* What is true of the log at every moment                                 *)

\* The daemon: its writers live one at a time, and a file is rotated only when something is
\* in it; the maintenance task is no writer.
LogAssumption ==
    Serialized /\ RotateLen > 0 /\ Maint \notin Writers \cup {Nobody}

LineType ==
    {line \in [kind : {"marker", "event", "torn", "glued"}, w : Writers \cup {Nobody},
               n : 0..MaxAppends, seq : Nat, ts : 0..MaxClock] :
        line.kind = "event" => line.w \in Writers /\ line.n \in 1..MaxAppends}
Owners == Writers \cup {Nobody, Maint}
File == [lines : Seq(LineType), flock : Owners]
WriterType(n) ==
    [pc : {"none", "createOpen", "createLock", "createWrite", "ready", "appendLock",
           "appendWrite", "closed"},
     fd : 0..n, seq : Nat, sent : 0..MaxAppends, late : BOOLEAN]
MaintType(n) ==
    [pc : {"idle", "cleanupLock", "cleanupRead", "cleanupRename", "cleanupError", "cleaned",
           "rotateLock", "rotate", "renamed"},
     fd : 0..n, ticks : 0..MaxTicks]

WalTypes ==
    /\ files \in Seq(File)
    /\ cur \in 0..Len(files) /\ tmp \in 0..Len(files)
    /\ arch \in [1..MaxRotations -> 0..Len(files)]
    /\ wr \in [Writers -> WriterType(Len(files))]
    /\ mt \in MaintType(Len(files))
    /\ clock \in 0..MaxClock /\ faults \in 0..MaxFaults
    /\ acked \subseteq Events /\ exposed \subseteq Events /\ rotatedOut \subseteq Events

\* The path, the temporary file and the archives are files of their own, and the archives
\* have no gap.
NamesApart ==
    /\ cur # 0 => cur # tmp
    /\ \A i \in 1..MaxRotations : arch[i] # 0 => arch[i] # cur /\ arch[i] # tmp
    /\ \A i, j \in 1..MaxRotations : i < j /\ arch[i] = 0 => arch[j] = 0

Alive(w) == wr[w].pc \notin {"none", "closed"}
Opened(w) == wr[w].pc \in {"createOpen", "createLock", "createWrite", "appendLock", "appendWrite"}
Pending(w) == wr[w].pc \in {"appendLock", "appendWrite"}

\* One writer lives; it holds what it writes to, and that is no temporary file.
WriterHolds(w) ==
    /\ Alive(w) => \A v \in Writers \ {w} : ~ Alive(v)
    /\ Opened(w) => wr[w].fd # 0 /\ wr[w].fd # tmp
    /\ wr[w].pc \in {"createWrite", "appendWrite"} => files[wr[w].fd].flock = w

\* Where a pending append ends up: in the current file; in the newest archive, while nothing
\* came after it; or in a file without a name, and then it is exposed.
PendingWhere(w) ==
    Pending(w) =>
        /\ wr[w].sent < MaxAppends
        /\ \/ wr[w].fd = cur
           \/ wr[w].fd = arch[1] /\ Lines(cur) = <<>>
           \/ wr[w].late /\ wr[w].fd # cur /\ \A i \in 1..MaxRotations : arch[i] # wr[w].fd
        /\ InRotationWindow /\ wr[w].fd = cur => wr[w].late

\* Maintenance works on the file the path names, holds it, and rotates no empty file.
MaintHolds ==
    /\ mt.pc \in {"cleanupLock", "cleanupRead", "cleanupRename", "cleanupError", "rotateLock",
                  "rotate"} => cur # 0 /\ mt.fd = cur
    /\ mt.pc \in {"cleanupRead", "cleanupRename", "cleanupError", "rotate"}
         => files[cur].flock = Maint
    /\ mt.pc = "cleanupRename" => tmp # 0 /\ Lines(cur) # <<>>
    /\ mt.pc \in {"rotateLock", "rotate"} => Len(Lines(cur)) >= RotateLen
    /\ InRotationWindow => mt.fd # 0 /\ files[mt.fd].flock = Maint

WalBase ==
    /\ WalTypes /\ NamesApart /\ MaintHolds
    /\ \A w \in Writers : WriterHolds(w) /\ PendingWhere(w)

InLog(e) ==
    \/ e \in EventsIn(Lines(cur))
    \/ \E i \in 1..MaxRotations : e \in EventsIn(Lines(arch[i]))

\* Nothing is lost without a reason; a cleanup has copied what it must, and what is in the
\* file that a rotation is about to empty is exposed.
Explained ==
    /\ \A e \in acked : e \in MayLose \/ InLog(e)
    /\ mt.pc = "cleanupRename" => EventsIn(Lines(cur)) \subseteq Expired \cup EventsIn(Lines(tmp))
    /\ InRotationWindow => EventsIn(Lines(cur)) \subseteq exposed

\* The numbers of a file that has a writer to come: each event is above all before it.
Numbered(lines) ==
    \A k, l \in DOMAIN lines : k < l =>
        /\ lines[k].seq <= lines[l].seq
        /\ lines[l].kind = "event" => lines[k].seq < lines[l].seq
EventsNumbered(lines) ==
    \A k, l \in DOMAIN lines :
        k < l /\ lines[k].kind = "event" /\ lines[l].kind = "event" => lines[k].seq < lines[l].seq
Whole(lines) ==
    \A k \in DOMAIN lines : lines[k].kind \in {"marker", "event"}
                            /\ (lines[k].kind = "event" => lines[k].seq > 0)

\* As long as nothing failed, the writer's next number is above all it may follow.
NumbersBelow(w) ==
    wr[w].pc \in {"ready", "appendLock", "appendWrite"} =>
        /\ wr[w].seq > 0
        /\ \A k \in DOMAIN Lines(cur) : Lines(cur)[k].seq < wr[w].seq
        /\ Pending(w) => \A k \in DOMAIN Lines(wr[w].fd) :
               Lines(wr[w].fd)[k].kind = "event" => Lines(wr[w].fd)[k].seq < wr[w].seq

\* A cleanup's copy has no number above those of the file.
CopyBelow ==
    \A k \in DOMAIN Lines(tmp) :
        \/ Lines(tmp)[k].seq = 0
        \/ \E l \in DOMAIN Lines(cur) : Lines(tmp)[k].seq <= Lines(cur)[l].seq

Numbering ==
    /\ tmp # 0 => mt.pc = "cleanupRename"
    /\ CopyBelow
    /\ \A i \in DOMAIN files : Whole(files[i].lines) /\ EventsNumbered(files[i].lines)
    /\ Numbered(Lines(cur)) /\ Numbered(Lines(tmp))
    /\ \A w \in Writers : NumbersBelow(w)

Timed(lines) ==
    \A k, l \in DOMAIN lines :
        k < l /\ lines[k].kind = "event" /\ lines[l].kind = "event" => lines[k].ts <= lines[l].ts
Before(a, b) ==
    \A k \in DOMAIN a, l \in DOMAIN b : a[k].kind = "event" /\ b[l].kind = "event" => a[k].ts <= b[l].ts

Timing ==
    /\ \A i \in DOMAIN files : /\ Timed(files[i].lines)
                               /\ \A k \in DOMAIN files[i].lines : files[i].lines[k].ts <= clock
    /\ Before(Lines(arch[1]), Lines(cur)) /\ Before(Lines(arch[1]), Lines(tmp))

-----------------------------------------------------------------------------
(* Files and lines                                                         *)

LEMMA Relocked ==
    ASSUME NEW F \in Seq(File), NEW i \in 1..Len(F), NEW who \in Owners
    PROVE  LET G == [F EXCEPT ![i].flock = who] IN
           /\ G \in Seq(File) /\ Len(G) = Len(F)
           /\ \A k \in 1..Len(F) : /\ G[k].lines = F[k].lines
                                   /\ G[k].flock = IF k = i THEN who ELSE F[k].flock
  <1> DEFINE g == [F[i] EXCEPT !.flock = who]
  <1>1. F[i] \in File
    BY ElementOfSeq
  <1>2. g \in File /\ g.lines = F[i].lines /\ g.flock = who
    BY <1>1 DEF File
  <1>3. [F EXCEPT ![i].flock = who] = [F EXCEPT ![i] = g]
    OBVIOUS
  <1> HIDE DEF g
  <1>. QED
    BY <1>2, <1>3, ExceptSeq

LEMMA Rewritten ==
    ASSUME NEW F \in Seq(File), NEW i \in 1..Len(F), NEW g \in File
    PROVE  LET G == [F EXCEPT ![i] = g] IN
           /\ G \in Seq(File) /\ Len(G) = Len(F)
           /\ \A k \in 1..Len(F) : G[k] = IF k = i THEN g ELSE F[k]
  BY ExceptSeq

LEMMA Relined ==
    ASSUME NEW F \in Seq(File), NEW i \in 1..Len(F), NEW ls \in Seq(LineType)
    PROVE  LET G == [F EXCEPT ![i].lines = ls] IN
           /\ G \in Seq(File) /\ Len(G) = Len(F)
           /\ \A k \in 1..Len(F) : /\ G[k].flock = F[k].flock
                                   /\ G[k].lines = IF k = i THEN ls ELSE F[k].lines
  <1> DEFINE g == [F[i] EXCEPT !.lines = ls]
  <1>1. F[i] \in File
    BY ElementOfSeq
  <1>2. g \in File /\ g.flock = F[i].flock /\ g.lines = ls
    BY <1>1 DEF File
  <1>3. [F EXCEPT ![i].lines = ls] = [F EXCEPT ![i] = g]
    OBVIOUS
  <1> HIDE DEF g
  <1>. QED
    BY <1>2, <1>3, ExceptSeq

LEMMA Created ==
    ASSUME NEW F \in Seq(File), NEW g \in File
    PROVE  LET G == Append(F, g) IN
           /\ G \in Seq(File) /\ Len(G) = Len(F) + 1 /\ Len(F) \in Nat
           /\ G[Len(F) + 1] = g
           /\ \A k \in 1..Len(F) : G[k] = F[k]
  OBVIOUS

LEMMA NewLine ==
    ASSUME WalTypes, NEW k \in {"marker", "event", "torn", "glued"}, NEW w \in Writers,
           NEW n \in 0..MaxAppends, NEW s \in Nat, k = "event" => n \in 1..MaxAppends
    PROVE  Line(k, w, n, s) \in LineType
  BY DEF WalTypes, Line, LineType

\* A pushed line follows the others, or replaces a torn one.
LEMMA Pushed ==
    ASSUME NEW ls \in Seq(LineType), NEW line \in LineType
    PROVE  LET p == Push(ls, line) IN
           /\ p \in Seq(LineType) /\ Len(p) \in Nat /\ Len(ls) \in Nat /\ DOMAIN p = 1..Len(p)
           /\ Len(p) >= Len(ls) /\ Len(p) > 0
           /\ \/ /\ Len(p) = Len(ls) + 1 /\ p[Len(p)] = line
                 /\ \A k \in 1..Len(ls) : p[k] = ls[k]
              \/ /\ Len(p) = Len(ls) /\ p[Len(p)] = [line EXCEPT !.kind = "glued"]
                 /\ ls[Len(ls)].kind = "torn"
                 /\ \A k \in 1..(Len(ls) - 1) : p[k] = ls[k]
  <1> DEFINE torn == ls # <<>> /\ Last(ls).kind = "torn"
             glued == [line EXCEPT !.kind = "glued"]
  <1>1. glued \in LineType
    BY DEF LineType
  <1>2. CASE ~ torn
    <2>1. Push(ls, line) = Append(ls, line)
      BY <1>2 DEF Push
    <2>. QED
      BY <2>1
  <1>3. CASE torn
    <2>1. Push(ls, line) = Append(Front(ls), glued)
      BY <1>3 DEF Push
    <2> HIDE DEF glued
    <2>2. /\ Front(ls) \in Seq(LineType) /\ Len(Front(ls)) = Len(ls) - 1 /\ Len(ls) \in Nat \ {0}
          /\ \A k \in 1..(Len(ls) - 1) : Front(ls)[k] = ls[k]
          /\ ls[Len(ls)].kind = "torn"
      BY <1>3 DEF Front, Last
    <2>3. Append(Front(ls), glued) \in Seq(LineType)
      BY <1>1, <2>2
    <2>. QED
      BY <2>1, <2>2, <2>3 DEF glued
  <1>. QED
    BY <1>2, <1>3

\* Of the elements of a sequence of numbers one is the largest.
LEMMA Largest ==
    ASSUME NEW n \in Nat \ {0}, NEW q \in [1..n -> Nat]
    PROVE  \E k \in 1..n : \A l \in 1..n : q[l] <= q[k]
  <1> DEFINE Good(m) == \E k \in 1..m : \A l \in 1..m : q[l] <= q[k]
             Bad == {m \in 1..n : ~ Good(m)}
  <1>1. ASSUME Bad # {} PROVE FALSE
    <2>1. PICK m \in Bad : \A k \in Bad : m <= k
      <3>1. Bad \in SUBSET Nat
        OBVIOUS
      <3> HIDE DEF Bad
      <3>. QED
        BY <1>1, <3>1, Least
    <2>2. m # 1
      <3>1. \A l \in 1..1 : l = 1
        OBVIOUS
      <3>2. 1 \in 1..1 /\ q[1] \in Nat /\ q[1] <= q[1]
        OBVIOUS
      <3>3. Good(1)
        BY <3>1, <3>2
      <3>. QED
        BY <2>1, <3>3
    <2>3. m - 1 \in 1..n /\ m \in 1..n /\ ~ (m <= m - 1) /\ m \in 1..m
      BY <2>1, <2>2
    <2>4. PICK k \in 1..(m - 1) : \A l \in 1..(m - 1) : q[l] <= q[k]
      BY <2>1, <2>3
    <2>5. \A l \in 1..m : l \in 1..(m - 1) \/ l = m
      BY <2>3
    <2>6. k \in 1..m /\ q[k] \in Nat /\ q[m] \in Nat /\ \A l \in 1..m : q[l] \in Nat
      BY <2>3
    <2>7. CASE q[m] <= q[k]
      <3>1. Good(m)
        BY <2>4, <2>5, <2>6, <2>7
      <3>. QED
        BY <2>1, <3>1
    <2>8. CASE ~ (q[m] <= q[k])
      <3>1. ASSUME NEW l \in 1..m PROVE q[l] <= q[m]
        <4>1. CASE l = m
          BY <2>6, <4>1
        <4>2. CASE l \in 1..(m - 1)
          <5>1. q[l] <= q[k]
            BY <2>4, <4>2
          <5>. QED
            BY <2>6, <2>8, <5>1
        <4>. QED
          BY <2>5, <4>1, <4>2
      <3>2. Good(m)
        BY <2>3, <3>1
      <3>. QED
        BY <2>1, <3>2
    <2>. QED
      BY <2>7, <2>8
  <1>2. Good(n)
    <2>1. n \in 1..n
      OBVIOUS
    <2>. QED
      BY <1>1, <2>1
  <1>. QED
    BY <1>2

LEMMA ParsedIs ==
    ASSUME NEW A, NEW ls \in Seq(A)
    PROVE  /\ Parsed(ls) \in Seq(A)
           /\ \E e : Selects(e, Parsed(ls), ls, {k \in 1..Len(ls) : Parses(ls[k])})
  <1>1. DOMAIN ls = 1..Len(ls)
    OBVIOUS
  <1>2. {k \in 1..Len(ls) : Parses(ls[k])} \in SUBSET (1..Len(ls))
    OBVIOUS
  <1>. QED
    BY <1>1, <1>2, PickedSelects DEF Parsed

\* What WalWriter::create recovers is 0 or a number of the file, and the largest one if the
\* numbers are in order.
LEMMA RecoveredOf ==
    ASSUME NEW A, \A line \in A : line.seq \in Nat, NEW ls \in Seq(A), NEW base \in RecoveredSeqs(ls)
    PROVE  /\ base \in Nat
           /\ ls = <<>> => base = 0
           /\ Whole(ls) /\ Numbered(ls) => \A k \in 1..Len(ls) : ls[k].seq <= base
  <1> DEFINE p == Parsed(ls)
             seqs == {line.seq : line \in ToSet(p)}
             T == {k \in 1..Len(ls) : Parses(ls[k])}
  <1>1. p \in Seq(A) /\ \E e : Selects(e, p, ls, T)
    BY ParsedIs
  <1>2. PICK e : Selects(e, p, ls, T)
    BY <1>1
  <1>3. base \in (IF seqs = {} THEN {0} ELSE {Last(p).seq, Max(seqs)})
    BY DEF RecoveredSeqs
  <1> HIDE DEF p, T
  <1>4. /\ Len(p) \in Nat /\ DOMAIN p = 1..Len(p) /\ \A k \in 1..Len(p) : p[k] \in A
        /\ Len(ls) \in Nat /\ \A k \in 1..Len(ls) : ls[k].seq \in Nat
    BY <1>1
  <1>5. seqs = {p[k].seq : k \in 1..Len(p)}
    BY <1>4 DEF ToSet
  <1> HIDE DEF seqs
  <1>6. CASE Len(p) = 0
    <2>1. base = 0
      BY <1>3, <1>5, <1>6
    <2>2. ASSUME Whole(ls), NEW k \in 1..Len(ls)
          PROVE  FALSE
      <3>1. k \in T
        BY <1>4, <2>2 DEF T, Whole, Parses
      <3>. QED
        BY <1>2, <1>6, <3>1 DEF Selects
    <2>. QED
      BY <2>1, <2>2
  <1>7. CASE Len(p) # 0
    <2> DEFINE q == [k \in 1..Len(p) |-> p[k].seq]
    <2>1. Len(p) \in Nat \ {0} /\ q \in [1..Len(p) -> Nat]
      BY <1>4, <1>7
    <2>2. PICK m \in 1..Len(p) : \A l \in 1..Len(p) : q[l] <= q[m]
      <3> HIDE DEF q
      <3>. QED
        BY <2>1, Largest
    <2>3. Max(seqs) \in seqs /\ \A x \in seqs : Max(seqs) >= x
      <3>1. q[m] \in seqs /\ \A x \in seqs : q[m] >= x
        BY <1>5, <2>1, <2>2
      <3>. QED
        BY <3>1 DEF Max
    <2>4. Len(p) \in 1..Len(p) /\ Last(p) = p[Len(p)] /\ seqs # {}
      BY <1>4, <1>5, <1>7 DEF Last
    <2>5. base \in seqs
      BY <1>3, <1>5, <2>3, <2>4
    <2>6. base \in Nat
      BY <1>5, <2>1, <2>5
    <2>7. ls # <<>>
      BY <1>2, <2>4 DEF Selects, T
    <2>8. ASSUME Whole(ls), Numbered(ls), NEW k \in 1..Len(ls)
          PROVE  ls[k].seq <= base
      <3>1. k \in T
        BY <1>4, <2>8 DEF T, Whole, Parses
      <3>2. PICK i \in 1..Len(p) : e[i] = k /\ p[i] = ls[k]
        BY <1>2, <3>1 DEF Selects
      <3>3. CASE base = Max(seqs)
        BY <1>4, <1>5, <2>3, <2>6, <3>2, <3>3
      <3>4. CASE base = p[Len(p)].seq
        <4>1. CASE i = Len(p)
          BY <1>4, <2>6, <3>2, <3>4, <4>1
        <4>2. CASE i # Len(p)
          <5>0. Len(p) \in Nat
            BY <1>4
          <5>1. i < Len(p)
            BY <4>2, <5>0
          <5>2. e[i] < e[Len(p)] /\ e[Len(p)] \in T /\ p[Len(p)] = ls[e[Len(p)]]
            BY <1>2, <2>4, <5>1 DEF Selects
          <5>3. e[Len(p)] \in DOMAIN ls /\ k \in DOMAIN ls
            BY <1>4, <5>2 DEF T
          <5>. QED
            BY <2>8, <3>2, <3>4, <5>2, <5>3 DEF Numbered
        <4>. QED
          BY <4>1, <4>2
      <3>. QED
        BY <1>3, <2>4, <3>3, <3>4
    <2>. QED
      BY <2>6, <2>7, <2>8
  <1>. QED
    BY <1>6, <1>7

LEMMA Recovered ==
    ASSUME NEW ls \in Seq(LineType), NEW base \in RecoveredSeqs(ls)
    PROVE  /\ base \in Nat
           /\ ls = <<>> => base = 0
           /\ Whole(ls) /\ Numbered(ls) => \A k \in 1..Len(ls) : ls[k].seq <= base
  <1>1. \A line \in LineType : line.seq \in Nat
    BY DEF LineType
  <1>. QED
    BY <1>1, RecoveredOf

-----------------------------------------------------------------------------
(* What a step does to the files                                           *)

LEMMA Wider ==
    ASSUME NEW n \in Nat, NEW m \in Nat, n <= m
    PROVE  /\ 0..n \subseteq 0..m
           /\ WriterType(n) \subseteq WriterType(m)
           /\ MaintType(n) \subseteq MaintType(m)
           /\ [Writers -> WriterType(n)] \subseteq [Writers -> WriterType(m)]
           /\ [1..MaxRotations -> 0..n] \subseteq [1..MaxRotations -> 0..m]
  <1>1. 0..n \subseteq 0..m
    OBVIOUS
  <1>2. WriterType(n) \subseteq WriterType(m)
    BY <1>1 DEF WriterType
  <1>3. MaintType(n) \subseteq MaintType(m)
    BY <1>1 DEF MaintType
  <1>. QED
    BY <1>1, <1>2, <1>3

LEMMA LinesType ==
    ASSUME WalTypes
    PROVE  /\ Len(files) \in Nat /\ DOMAIN files = 1..Len(files)
           /\ \A i \in 1..Len(files) : files[i].lines \in Seq(LineType) /\ files[i].flock \in Owners
           /\ \A i \in 0..Len(files) : Lines(i) \in Seq(LineType)
           /\ Lines(0) = <<>> /\ \A i \in 1..Len(files) : Lines(i) = files[i].lines
  <1>1. files \in Seq(File)
    BY DEF WalTypes
  <1>2. Len(files) \in Nat /\ DOMAIN files = 1..Len(files)
    BY <1>1
  <1>3. \A i \in 1..Len(files) : files[i] \in File
    BY <1>1, ElementOfSeq
  <1>4. \A i \in 1..Len(files) : files[i].lines \in Seq(LineType) /\ files[i].flock \in Owners
    BY <1>3 DEF File
  <1>5. Lines(0) = <<>> /\ \A i \in 1..Len(files) : Lines(i) = files[i].lines
    BY <1>2 DEF Lines
  <1>6. <<>> \in Seq(LineType)
    OBVIOUS
  <1>7. \A i \in 0..Len(files) : Lines(i) \in Seq(LineType)
    BY <1>2, <1>4, <1>6 DEF Lines
  <1>. QED
    BY <1>2, <1>4, <1>5, <1>7

LEMMA LinesTypeNext ==
    ASSUME WalTypes'
    PROVE  /\ Len(files') \in Nat /\ DOMAIN files' = 1..Len(files')
           /\ \A i \in 1..Len(files') : files'[i].lines \in Seq(LineType) /\ files'[i].flock \in Owners
           /\ \A i \in 0..Len(files') : Lines(i)' \in Seq(LineType)
           /\ Lines(0)' = <<>> /\ \A i \in 1..Len(files') : Lines(i)' = files'[i].lines
  <1>1. files' \in Seq(File)
    BY DEF WalTypes
  <1>2. Len(files') \in Nat /\ DOMAIN files' = 1..Len(files')
    BY <1>1
  <1>3. \A i \in 1..Len(files') : files'[i] \in File
    BY <1>1, ElementOfSeq
  <1>4. \A i \in 1..Len(files') : files'[i].lines \in Seq(LineType) /\ files'[i].flock \in Owners
    BY <1>3 DEF File
  <1>5. Lines(0)' = <<>> /\ \A i \in 1..Len(files') : Lines(i)' = files'[i].lines
    BY <1>2 DEF Lines
  <1>6. <<>> \in Seq(LineType)
    OBVIOUS
  <1>7. \A i \in 0..Len(files') : Lines(i)' \in Seq(LineType)
    BY <1>2, <1>4, <1>6 DEF Lines
  <1>. QED
    BY <1>2, <1>4, <1>5, <1>7

\* files' has the files of before with the same lines, and maybe more.
SameLines ==
    /\ files' \in Seq(File) /\ Len(files') >= Len(files)
    /\ \A k \in 1..Len(files) : files'[k].lines = files[k].lines
\* Only the lines of file i are others.
OtherLines(i, ls) ==
    /\ files' \in Seq(File) /\ Len(files') = Len(files)
    /\ \A k \in 1..Len(files) : files'[k].lines = IF k = i THEN ls ELSE files[k].lines

LEMMA OpenIs ==
    ASSUME WalTypes, NEW w \in Writers, NEW label, OpenPath(w, label)
    PROVE  /\ SameLines
           /\ \A k \in 1..Len(files) : files'[k].flock = files[k].flock
           /\ cur # 0 => cur' = cur /\ files' = files
           /\ cur = 0 => /\ cur' = Len(files) + 1 /\ Len(files') = Len(files) + 1
                         /\ files'[cur'].lines = <<>> /\ files'[cur'].flock = Nobody
           /\ cur' \in 1..Len(files')
           /\ wr' = [wr EXCEPT ![w] = [wr[w] EXCEPT !.pc = label, !.fd = cur', !.late = InRotationWindow]]
  <1> DEFINE g == [lines |-> <<>>, flock |-> Nobody]
  <1>1. g \in File /\ files \in Seq(File) /\ Len(files) \in Nat
    BY DEF File, Owners, WalTypes
  <1>4. wr' = [wr EXCEPT ![w] = [wr[w] EXCEPT !.pc = label, !.fd = cur', !.late = InRotationWindow]]
    BY DEF OpenPath, WalTypes
  <1>2. CASE cur = 0
    <2>1. files' = Append(files, g) /\ cur' = Len(files) + 1
      BY <1>2 DEF OpenPath, NewFile
    <2>2. /\ files' \in Seq(File) /\ Len(files') = Len(files) + 1
          /\ files'[Len(files) + 1] = g
          /\ \A k \in 1..Len(files) : files'[k] = files[k]
      BY <1>1, <2>1, Created
    <2>. QED
      BY <1>1, <1>2, <1>4, <2>1, <2>2 DEF SameLines
  <1>3. CASE cur # 0
    <2>1. files' = files /\ cur' = cur /\ cur \in 1..Len(files)
      BY <1>3 DEF OpenPath, WalTypes
    <2>. QED
      BY <1>1, <1>3, <1>4, <2>1 DEF SameLines
  <1>. QED
    BY <1>2, <1>3

LEMMA LockIs ==
    ASSUME WalTypes, NEW i \in 1..Len(files), NEW who \in Owners,
           files' = [files EXCEPT ![i].flock = who]
    PROVE  /\ SameLines /\ Len(files') = Len(files)
           /\ \A k \in 1..Len(files) : files'[k].flock = IF k = i THEN who ELSE files[k].flock
  <1>1. files \in Seq(File) /\ Len(files) \in Nat
    BY DEF WalTypes
  <1>. QED
    BY <1>1, Relocked DEF SameLines

LEMMA WriteIs ==
    ASSUME WalTypes, NEW i \in 1..Len(files), NEW ls \in Seq(LineType),
           files' = WrittenAndUnlocked(i, ls)
    PROVE  /\ OtherLines(i, ls)
           /\ \A k \in 1..Len(files) : files'[k].flock = IF k = i THEN Nobody ELSE files[k].flock
  <1> DEFINE g == [lines |-> ls, flock |-> Nobody]
  <1>1. files \in Seq(File) /\ g \in File /\ files' = [files EXCEPT ![i] = g]
        /\ g.lines = ls /\ g.flock = Nobody
    BY DEF WalTypes, File, Owners, WrittenAndUnlocked
  <1> HIDE DEF g
  <1>. QED
    BY <1>1, Rewritten DEF OtherLines

\* The temporary file after a cleanup wrote ls to it.
LEMMA TempIs ==
    ASSUME WalTypes, NEW ls \in Seq(LineType), WriteTemp(ls)
    PROVE  /\ files' \in Seq(File) /\ Len(files') >= Len(files)
           /\ \A k \in 1..Len(files) : files'[k].flock = files[k].flock
           /\ \A k \in 1..Len(files) : k # tmp => files'[k].lines = files[k].lines
           /\ tmp' \in 1..Len(files')
           /\ tmp = 0 => tmp' = Len(files) + 1 /\ files'[tmp'].lines = ls
                         /\ Len(files') = Len(files) + 1
           /\ tmp # 0 => tmp' = tmp /\ Len(files') = Len(files)
                         /\ files'[tmp'].lines = files[tmp].lines \o ls
  <1>1. files \in Seq(File) /\ Len(files) \in Nat /\ tmp \in 0..Len(files)
    BY DEF WalTypes
  <1>2. CASE tmp = 0
    <2> DEFINE g == [lines |-> ls, flock |-> Nobody]
    <2>1. g \in File /\ files' = Append(files, g) /\ tmp' = Len(files) + 1 /\ g.lines = ls
      BY <1>2 DEF WriteTemp, NewFile, File, Owners
    <2> HIDE DEF g
    <2>. QED
      BY <1>1, <1>2, <2>1, Created
  <1>3. CASE tmp # 0
    <2>1. tmp \in 1..Len(files) /\ files[tmp].lines \in Seq(LineType)
      BY <1>1, <1>3, LinesType
    <2>2. files[tmp].lines \o ls \in Seq(LineType)
      BY <2>1
    <2> DEFINE whole == files[tmp].lines \o ls
    <2>3. tmp' = tmp /\ files' = [files EXCEPT ![tmp].lines = whole]
      BY <1>3 DEF WriteTemp
    <2>4. whole \in Seq(LineType) /\ whole = files[tmp].lines \o ls
      BY <2>2
    <2> HIDE DEF whole
    <2> DEFINE G == [files EXCEPT ![tmp].lines = whole]
    <2>5. /\ G \in Seq(File) /\ Len(G) = Len(files)
          /\ \A k \in 1..Len(files) : /\ G[k].flock = files[k].flock
                                      /\ G[k].lines = IF k = tmp THEN whole ELSE files[k].lines
      <3>1. files \in Seq(File) /\ tmp \in 1..Len(files) /\ whole \in Seq(LineType)
        BY <1>1, <2>1, <2>4
      <3>. QED
        BY <3>1, Relined
    <2>6. files' = G
      BY <2>3
    <2> HIDE DEF G
    <2>7. files' \in Seq(File) /\ Len(files') = Len(files) /\ tmp' \in 1..Len(files')
      BY <1>1, <2>1, <2>3, <2>5, <2>6
    <2>8. /\ \A k \in 1..Len(files) : files'[k].flock = files[k].flock
          /\ \A k \in 1..Len(files) : k # tmp => files'[k].lines = files[k].lines
          /\ files'[tmp'].lines = files[tmp].lines \o ls
      BY <2>1, <2>3, <2>4, <2>5, <2>6
    <2>. QED
      <3>1. Len(files') >= Len(files)
        BY <1>1, <2>7
      <3>. QED
        BY <1>3, <2>3, <2>7, <2>8, <3>1
  <1>. QED
    BY <1>2, <1>3

Fresher == {k \in 1..Len(All) : Fresh(All[k])}
Higher == {k \in 1..Len(All) : All[k].seq > LastKept}
Later == Picked(All, Higher)
Copy(base) == <<Line("marker", Nobody, 0, base)>> \o Kept \o Later

LEMMA CopyIs ==
    ASSUME WalTypes
    PROVE  /\ Lines(cur) \in Seq(LineType) /\ Lines(tmp) \in Seq(LineType)
           /\ All \in Seq(LineType) /\ Kept \in Seq(LineType) /\ Later \in Seq(LineType)
           /\ \E e : Selects(e, All, Lines(cur), {k \in 1..Len(Lines(cur)) : Parses(Lines(cur)[k])})
           /\ \E e : Selects(e, Kept, All, Fresher)
           /\ \E e : Selects(e, Later, All, Higher)
           /\ Copied = {Copy(base) : base \in RecoveredSeqs(Lines(tmp))}
           /\ \A base \in RecoveredSeqs(Lines(tmp)) : /\ Copy(base) \in Seq(LineType)
                                                      /\ Line("marker", Nobody, 0, base) \in LineType
  <1>1. Lines(cur) \in Seq(LineType) /\ Lines(tmp) \in Seq(LineType)
    BY LinesType DEF WalTypes
  <1>2. /\ All \in Seq(LineType)
        /\ \E e : Selects(e, All, Lines(cur), {k \in 1..Len(Lines(cur)) : Parses(Lines(cur)[k])})
    BY <1>1, ParsedIs DEF All
  <1>3. DOMAIN All = 1..Len(All) /\ Fresher \in SUBSET (1..Len(All)) /\ Higher \in SUBSET (1..Len(All))
    BY <1>2 DEF Fresher, Higher
  <1>4. Kept = Picked(All, Fresher)
    BY <1>3 DEF Kept, Fresher
  <1>5. Kept \in Seq(LineType) /\ \E e : Selects(e, Kept, All, Fresher)
    BY <1>2, <1>3, <1>4, PickedSelects
  <1>6. Later \in Seq(LineType) /\ \E e : Selects(e, Later, All, Higher)
    BY <1>2, <1>3, PickedSelects DEF Later
  <1>7. Copied = {Copy(base) : base \in RecoveredSeqs(Lines(tmp))}
    BY <1>3 DEF Copied, Copy, Later, Higher
  <1>8. ASSUME NEW base \in RecoveredSeqs(Lines(tmp))
        PROVE  Copy(base) \in Seq(LineType) /\ Line("marker", Nobody, 0, base) \in LineType
    <2>1. base \in Nat
      BY <1>1, Recovered
    <2> DEFINE marker == Line("marker", Nobody, 0, base)
    <2>2. marker \in LineType
      BY <2>1, WalAssumption DEF WalTypes, Line, LineType
    <2>3. Copy(base) = <<marker>> \o Kept \o Later
      BY DEF Copy
    <2> HIDE DEF marker
    <2>4. <<marker>> \o Kept \o Later \in Seq(LineType)
      BY <1>5, <1>6, <2>2
    <2>. QED
      BY <2>2, <2>3, <2>4 DEF marker
  <1>. QED
    BY <1>1, <1>2, <1>5, <1>6, <1>7, <1>8

\* Where a line of a copy comes from, and which lines are copied.
LEMMA CopyHolds ==
    ASSUME WalTypes, NEW base \in RecoveredSeqs(Lines(tmp))
    PROVE  /\ \A k \in 1..Len(Copy(base)) :
                 \/ k = 1 /\ Copy(base)[k] = Line("marker", Nobody, 0, base)
                 \/ \E i \in 1..Len(Lines(cur)) : Copy(base)[k] = Lines(cur)[i] /\ Parses(Lines(cur)[i])
           /\ \A i \in 1..Len(Lines(cur)) : Parses(Lines(cur)[i]) /\ Fresh(Lines(cur)[i])
                 => \E k \in 1..Len(Copy(base)) : Copy(base)[k] = Lines(cur)[i]
  <1> DEFINE marker == Line("marker", Nobody, 0, base)
             T == {k \in 1..Len(Lines(cur)) : Parses(Lines(cur)[k])}
             c == Copy(base)
  <1>1. /\ All \in Seq(LineType) /\ Kept \in Seq(LineType) /\ Later \in Seq(LineType)
        /\ marker \in LineType
    BY CopyIs
  <1>2. PICK e1 : Selects(e1, All, Lines(cur), T)
    BY CopyIs
  <1>3. PICK e2 : Selects(e2, Kept, All, Fresher)
    BY CopyIs
  <1>4. PICK e3 : Selects(e3, Later, All, Higher)
    BY CopyIs
  <1>5. c = <<marker>> \o Kept \o Later
    BY DEF Copy
  <1> HIDE DEF marker, c
  <1>6. /\ Len(Kept) \in Nat /\ Len(Later) \in Nat /\ Len(c) = 1 + Len(Kept) + Len(Later)
        /\ c[1] = marker
        /\ \A k \in 1..Len(Kept) : c[1 + k] = Kept[k]
        /\ \A k \in 1..Len(Later) : c[1 + Len(Kept) + k] = Later[k]
    BY <1>1, <1>5
  <1>7. \A k \in 1..Len(Kept) : \E i \in 1..Len(All) : Kept[k] = All[i]
    BY <1>3 DEF Selects, Fresher
  <1>8. \A k \in 1..Len(Later) : \E i \in 1..Len(All) : Later[k] = All[i]
    BY <1>4 DEF Selects, Higher
  <1>9. \A k \in 1..Len(All) : \E i \in 1..Len(Lines(cur)) :
            All[k] = Lines(cur)[i] /\ Parses(Lines(cur)[i])
    BY <1>2 DEF Selects
  <1>10. ASSUME NEW k \in 1..Len(c)
         PROVE  \/ k = 1 /\ c[k] = marker
                \/ \E i \in 1..Len(Lines(cur)) : c[k] = Lines(cur)[i] /\ Parses(Lines(cur)[i])
    <2>1. CASE k = 1
      BY <1>6, <2>1
    <2>2. CASE k \in 2..(1 + Len(Kept))
      <3>1. k - 1 \in 1..Len(Kept) /\ k = 1 + (k - 1)
        BY <1>6, <2>2
      <3>2. c[k] = Kept[k - 1]
        BY <1>6, <3>1
      <3>3. PICK i \in 1..Len(All) : Kept[k - 1] = All[i]
        BY <1>7, <3>1
      <3>. QED
        BY <1>9, <3>2, <3>3
    <2>3. CASE k \in (2 + Len(Kept))..Len(c)
      <3> DEFINE l == k - 1 - Len(Kept)
      <3>1. l \in 1..Len(Later) /\ k = 1 + Len(Kept) + l
        BY <1>6, <2>3
      <3>2. c[k] = Later[l]
        <4> HIDE DEF l
        <4>. QED
          BY <1>6, <3>1
      <3>3. PICK i \in 1..Len(All) : Later[l] = All[i]
        BY <1>8, <3>1
      <3>. QED
        BY <1>9, <3>2, <3>3
    <2>. QED
      BY <1>6, <2>1, <2>2, <2>3
  <1>11. ASSUME NEW i \in 1..Len(Lines(cur)), Parses(Lines(cur)[i]), Fresh(Lines(cur)[i])
         PROVE  \E k \in 1..Len(c) : c[k] = Lines(cur)[i]
    <2>1. PICK j \in 1..Len(All) : e1[j] = i /\ All[j] = Lines(cur)[i]
      BY <1>2, <1>11 DEF Selects
    <2>2. j \in Fresher
      BY <1>11, <2>1 DEF Fresher
    <2>3. PICK k \in 1..Len(Kept) : e2[k] = j /\ Kept[k] = All[j]
      BY <1>3, <2>2 DEF Selects
    <2>4. 1 + k \in 1..Len(c)
      BY <1>6
    <2>. QED
      BY <1>6, <2>1, <2>3, <2>4
  <1>. QED
    BY <1>10, <1>11 DEF c, marker

\* If the numbers of the file are in order, so are the lines of its copy: what is copied
\* again because of its number lies behind everything that was kept.
LEMMA CopyInOrder ==
    ASSUME WalTypes, Numbered(Lines(cur)), NEW base \in RecoveredSeqs(Lines(tmp)),
           NEW k \in 2..Len(Copy(base)), NEW l \in 2..Len(Copy(base)), k < l
    PROVE  \E i, j \in 1..Len(Lines(cur)) :
               i < j /\ Copy(base)[k] = Lines(cur)[i] /\ Copy(base)[l] = Lines(cur)[j]
  <1> DEFINE marker == Line("marker", Nobody, 0, base)
             T == {n \in 1..Len(Lines(cur)) : Parses(Lines(cur)[n])}
             c == Copy(base)
             F == Lines(cur)
  <1>1. /\ F \in Seq(LineType) /\ All \in Seq(LineType) /\ Kept \in Seq(LineType)
        /\ Later \in Seq(LineType) /\ marker \in LineType
    BY CopyIs
  <1>2. PICK e1 : Selects(e1, All, F, T)
    BY CopyIs
  <1>3. PICK e2 : Selects(e2, Kept, All, Fresher)
    BY CopyIs
  <1>4. PICK e3 : Selects(e3, Later, All, Higher)
    BY CopyIs
  <1>5. c = <<marker>> \o Kept \o Later
    BY DEF Copy
  <1>6. Numbered(F) /\ k \in 2..Len(c) /\ l \in 2..Len(c)
    OBVIOUS
  <1> HIDE DEF marker, c, T, F
  <1>7. /\ Len(Kept) \in Nat /\ Len(Later) \in Nat /\ Len(c) = 1 + Len(Kept) + Len(Later)
        /\ \A n \in 1..Len(Kept) : c[1 + n] = Kept[n]
        /\ \A n \in 1..Len(Later) : c[1 + Len(Kept) + n] = Later[n]
        /\ Len(F) \in Nat /\ DOMAIN F = 1..Len(F) /\ Len(All) \in Nat
        /\ \A n \in 1..Len(F) : F[n].seq \in Nat
    <2>1. /\ Len(Kept) \in Nat /\ Len(Later) \in Nat /\ Len(c) = 1 + Len(Kept) + Len(Later)
          /\ \A n \in 1..Len(Kept) : c[1 + n] = Kept[n]
          /\ \A n \in 1..Len(Later) : c[1 + Len(Kept) + n] = Later[n]
      BY <1>1, <1>5
    <2>2. Len(F) \in Nat /\ DOMAIN F = 1..Len(F) /\ Len(All) \in Nat
      BY <1>1
    <2>3. \A n \in 1..Len(F) : F[n].seq \in Nat
      <3>1. \A n \in 1..Len(F) : F[n] \in LineType
        BY <1>1
      <3>. QED
        BY <3>1 DEF LineType
    <2>. QED
      BY <2>1, <2>2, <2>3
  \* positions of All are positions of the file, in the same order
  <1>8. /\ \A n \in 1..Len(All) : e1[n] \in 1..Len(F) /\ All[n] = F[e1[n]]
        /\ \A m, n \in 1..Len(All) : m < n => e1[m] < e1[n]
    BY <1>2 DEF Selects, T, F
  <1>9. /\ \A n \in 1..Len(Kept) : e2[n] \in 1..Len(All) /\ Kept[n] = All[e2[n]]
        /\ \A m, n \in 1..Len(Kept) : m < n => e2[m] < e2[n]
    BY <1>3 DEF Selects, Fresher
  <1>10. /\ \A n \in 1..Len(Later) : /\ e3[n] \in 1..Len(All) /\ Later[n] = All[e3[n]]
                                     /\ All[e3[n]].seq > LastKept
         /\ \A m, n \in 1..Len(Later) : m < n => e3[m] < e3[n]
    BY <1>4 DEF Selects, Higher
  <1>11. SUFFICES \E i, j \in 1..Len(F) : i < j /\ c[k] = F[i] /\ c[l] = F[j]
    BY DEF c, F
  <1>12. ASSUME NEW n \in 2..Len(c)
         PROVE  \/ n - 1 \in 1..Len(Kept) /\ c[n] = Kept[n - 1]
                \/ n - 1 - Len(Kept) \in 1..Len(Later) /\ c[n] = Later[n - 1 - Len(Kept)]
    <2>1. CASE n - 1 <= Len(Kept)
      <3>1. n - 1 \in 1..Len(Kept) /\ n = 1 + (n - 1)
        BY <1>7, <2>1
      <3>. QED
        BY <1>7, <3>1
    <2>2. CASE ~ (n - 1 <= Len(Kept))
      <3> DEFINE m == n - 1 - Len(Kept)
      <3>1. m \in 1..Len(Later) /\ n = 1 + Len(Kept) + m
        BY <1>7, <2>2
      <3>2. c[n] = Later[m]
        <4> HIDE DEF m
        <4>. QED
          BY <1>7, <3>1
      <3>. QED
        BY <3>1, <3>2
    <2>. QED
      BY <2>1, <2>2
  <1>13. CASE k - 1 \in 1..Len(Kept) /\ l - 1 \in 1..Len(Kept)
    <2>1. c[k] = Kept[k - 1] /\ c[l] = Kept[l - 1] /\ k - 1 < l - 1
      BY <1>6, <1>7, <1>12, <1>13
    <2>2. e2[k - 1] < e2[l - 1] /\ e2[k - 1] \in 1..Len(All) /\ e2[l - 1] \in 1..Len(All)
      BY <1>9, <1>13, <2>1
    <2>3. e1[e2[k - 1]] < e1[e2[l - 1]]
      BY <1>8, <2>2
    <2> DEFINE i == e1[e2[k - 1]]
               j == e1[e2[l - 1]]
    <2>4. i \in 1..Len(F) /\ j \in 1..Len(F) /\ i < j /\ c[k] = F[i] /\ c[l] = F[j]
      BY <1>8, <1>9, <1>13, <2>1, <2>2, <2>3
    <2> HIDE DEF i, j
    <2>. QED
      BY <2>4
  <1>14. CASE k - 1 \in 1..Len(Kept) /\ ~ (l - 1 \in 1..Len(Kept))
    <2> DEFINE a == k - 1
               b == l - 1 - Len(Kept)
               z == e2[Len(Kept)]
    <2>1. c[k] = Kept[a] /\ c[l] = Later[b] /\ a \in 1..Len(Kept) /\ b \in 1..Len(Later)
          /\ Len(Kept) \in 1..Len(Kept)
      BY <1>6, <1>7, <1>12, <1>14
    <2> HIDE DEF a, b
    <2>2. z \in 1..Len(All) /\ Kept[Len(Kept)] = All[z]
      BY <1>9, <2>1
    <2>3. LastKept = All[z].seq
      <3>1. Kept # <<>> /\ Last(Kept) = Kept[Len(Kept)]
        BY <2>1 DEF Last
      <3>. QED
        BY <2>2, <3>1 DEF LastKept
    <2>4. e2[a] \in 1..Len(All) /\ e3[b] \in 1..Len(All) /\ All[e3[b]].seq > All[z].seq
      BY <1>9, <1>10, <2>1, <2>3
    <2>5. a = Len(Kept) \/ a < Len(Kept)
      BY <2>1
    <2>6. e1[e2[a]] <= e1[z]
      <3>1. CASE a = Len(Kept)
        BY <1>8, <2>4, <3>1
      <3>2. CASE a < Len(Kept)
        <4>1. e2[a] < z
          BY <1>9, <2>1, <3>2
        <4>2. e1[e2[a]] < e1[z] /\ e1[e2[a]] \in 1..Len(F) /\ e1[z] \in 1..Len(F)
          BY <1>8, <2>2, <2>4, <4>1
        <4>. QED
          BY <4>2
      <3>. QED
        BY <2>5, <3>1, <3>2
    <2> DEFINE i == e1[e2[a]]
               x == e1[z]
               j == e1[e3[b]]
    <2>7. /\ i \in 1..Len(F) /\ x \in 1..Len(F) /\ j \in 1..Len(F) /\ i <= x
          /\ F[j].seq > F[x].seq /\ c[k] = F[i] /\ c[l] = F[j]
      BY <1>8, <1>9, <1>10, <2>1, <2>2, <2>4, <2>6
    <2> HIDE DEF i, j, x, z
    <2>8. ~ (j < x) /\ j # x
      <3>1. F[j].seq \in Nat /\ F[x].seq \in Nat
        BY <1>7, <2>7
      <3>2. j < x => F[j].seq <= F[x].seq
        BY <1>6, <1>7, <2>7 DEF Numbered
      <3>. QED
        BY <2>7, <3>1, <3>2
    <2>9. i < j
      BY <2>7, <2>8, <1>7
    <2>. QED
      BY <2>7, <2>9
  <1>15. CASE ~ (k - 1 \in 1..Len(Kept))
    <2> DEFINE a == k - 1 - Len(Kept)
               b == l - 1 - Len(Kept)
    <2>1. ~ (l - 1 \in 1..Len(Kept))
      BY <1>6, <1>7, <1>15
    <2>2. c[k] = Later[a] /\ c[l] = Later[b] /\ a \in 1..Len(Later) /\ b \in 1..Len(Later) /\ a < b
      BY <1>6, <1>7, <1>12, <1>15, <2>1
    <2> HIDE DEF a, b
    <2>3. e3[a] < e3[b] /\ e3[a] \in 1..Len(All) /\ e3[b] \in 1..Len(All)
      BY <1>10, <2>2
    <2>4. e1[e3[a]] < e1[e3[b]]
      BY <1>8, <2>3
    <2> DEFINE i == e1[e3[a]]
               j == e1[e3[b]]
    <2>5. i \in 1..Len(F) /\ j \in 1..Len(F) /\ i < j /\ c[k] = F[i] /\ c[l] = F[j]
      BY <1>8, <1>10, <2>2, <2>3, <2>4
    <2> HIDE DEF i, j
    <2>. QED
      BY <2>5
  <1>. QED
    BY <1>13, <1>14, <1>15

\* The lines of a file after a rotation has emptied the path.
LEMMA EmptiedIs ==
    ASSUME WalTypes, mt.fd \in 1..Len(files), RotateCreate
    PROVE  /\ files' \in Seq(File) /\ Len(files') >= Len(files) /\ cur' \in 1..Len(files')
           /\ \A k \in 1..Len(files) :
                 /\ files'[k].lines = IF k = cur THEN <<>> ELSE files[k].lines
                 /\ files'[k].flock = IF k = mt.fd THEN Nobody ELSE files[k].flock
           /\ files'[cur'].lines = <<>>
           /\ cur # 0 => cur' = cur /\ Len(files') = Len(files)
           /\ cur = 0 => cur' = Len(files) + 1 /\ Len(files') = Len(files) + 1
  <1> DEFINE n == Len(files)
             unlocked == [files EXCEPT ![mt.fd].flock = Nobody]
             g == [lines |-> <<>>, flock |-> Nobody]
  <1>1. files \in Seq(File) /\ n \in Nat /\ cur \in 0..n /\ Nobody \in Owners
    BY DEF WalTypes, Owners
  <1>2. /\ unlocked \in Seq(File) /\ Len(unlocked) = n
        /\ \A k \in 1..n : /\ unlocked[k].lines = files[k].lines
                           /\ unlocked[k].flock = IF k = mt.fd THEN Nobody ELSE files[k].flock
    BY <1>1, Relocked
  <1>3. CASE cur = 0
    <2>1. files' = Append(unlocked, g) /\ cur' = n + 1 /\ g \in File /\ g.lines = <<>>
      BY <1>3 DEF RotateCreate, File, Owners
    <2> HIDE DEF unlocked, g
    <2>2. /\ Append(unlocked, g) \in Seq(File) /\ Len(Append(unlocked, g)) = n + 1
          /\ Append(unlocked, g)[n + 1] = g
          /\ \A k \in 1..n : Append(unlocked, g)[k] = unlocked[k]
      BY <1>2, <2>1, Created
    <2>3. \A k \in 1..n : k # cur
      BY <1>3
    <2>. QED
      BY <1>1, <1>2, <1>3, <2>1, <2>2, <2>3
  <1>4. CASE cur # 0
    <2> DEFINE empty == <<>>
    <2>1. files' = [unlocked EXCEPT ![cur].lines = empty] /\ cur' = cur /\ cur \in 1..n
      BY <1>1, <1>4 DEF RotateCreate
    <2>2. empty \in Seq(LineType) /\ empty = <<>>
      OBVIOUS
    <2> HIDE DEF unlocked, empty
    <2> DEFINE G == [unlocked EXCEPT ![cur].lines = empty]
    <2>3. /\ G \in Seq(File) /\ Len(G) = n
          /\ \A k \in 1..n : /\ G[k].flock = unlocked[k].flock
                             /\ G[k].lines = IF k = cur THEN empty ELSE unlocked[k].lines
      <3>1. unlocked \in Seq(File) /\ cur \in 1..Len(unlocked)
        BY <1>2, <2>1
      <3>. QED
        <4>1. /\ G \in Seq(File) /\ Len(G) = Len(unlocked)
              /\ \A k \in 1..Len(unlocked) :
                    /\ G[k].flock = unlocked[k].flock
                    /\ G[k].lines = IF k = cur THEN empty ELSE unlocked[k].lines
          <5>1. empty \in Seq(LineType)
            BY <2>2
          <5>. QED
            BY <3>1, <5>1, Relined
        <4>. QED
          BY <1>2, <4>1
    <2>4. files' = G
      BY <2>1
    <2> HIDE DEF G
    <2>5. files' \in Seq(File) /\ Len(files') = n
      BY <2>3, <2>4
    <2>6. \A k \in 1..n : /\ files'[k].lines = IF k = cur THEN <<>> ELSE files[k].lines
                          /\ files'[k].flock = IF k = mt.fd THEN Nobody ELSE files[k].flock
      BY <1>2, <2>2, <2>3, <2>4
    <2>. QED
      BY <1>1, <1>4, <2>1, <2>5, <2>6
  <1>. QED
    BY <1>3, <1>4

Dead == IF Serialized THEN {w \in Writers : wr[w].pc # "none"} ELSE {}

LEMMA CrashIs ==
    ASSUME WalTypes, Crash
    PROVE  /\ SameLines /\ Len(files') = Len(files)
           /\ \A k \in 1..Len(files) :
                 files'[k].flock = IF files[k].flock \in Dead \cup {Maint} THEN Nobody ELSE files[k].flock
           /\ wr' = [w \in Writers |-> IF w \in Dead THEN [wr[w] EXCEPT !.pc = "closed"] ELSE wr[w]]
  <1> DEFINE n == Len(files)
             g(i) == [files[i] EXCEPT !.flock = Nobody]
  <1>1. n \in Nat /\ DOMAIN files = 1..n /\ files \in Seq(File) /\ Nobody \in Owners
    BY DEF WalTypes, Owners
  <1>2. \A i \in 1..n : files[i] \in File
    BY <1>1, ElementOfSeq
  <1>3. \A i \in 1..n : g(i) \in File /\ g(i).lines = files[i].lines /\ g(i).flock = Nobody
    BY <1>1, <1>2 DEF File
  <1>4. files' = [i \in 1..n |-> IF files[i].flock \in Dead \cup {Maint} THEN g(i) ELSE files[i]]
    BY <1>1 DEF Crash, Dead
  <1>5. wr' = [w \in Writers |-> IF w \in Dead THEN [wr[w] EXCEPT !.pc = "closed"] ELSE wr[w]]
    BY DEF Crash, Dead
  <1> HIDE DEF g
  <1>6. files' \in [1..n -> File]
    BY <1>2, <1>3, <1>4
  <1>7. files' \in Seq(File) /\ Len(files') = n
    BY <1>1, <1>6
  <1>. QED
    BY <1>1, <1>3, <1>4, <1>5, <1>7 DEF SameLines

-----------------------------------------------------------------------------
(* The base: types, names, locks and where pending appends are             *)

\* Every step is an action of a writer, of maintenance or of time, or changes nothing.
LEMMA WalStepCases ==
    ASSUME [Next]_vars, NEW ACTION P,
           UNCHANGED vars => P,
           Tick => P,
           \A w \in Writers :
               /\ CreateNew(w) \/ CreateOpen(w) \/ AppendOpen(w) => P
               /\ WriterLock(w) => P
               /\ CreateMarker(w) => P
               /\ AppendWrite(w) => P
               /\ AppendFail(w) => P
               /\ Close(w) => P,
           CleanupOpen => P, CleanupLock => P, CleanupNothing \/ CleanupUnlock => P,
           CleanupWrite => P, CleanupFail => P, CleanupRename => P, RotateOpen => P,
           RotateLock => P, RotateRename => P, RotateCreate => P, Crash => P
    PROVE  P
  BY DEF Next, Maintenance, Writer

LEMMA TypesInit == LogAssumption /\ Init => WalTypes
  <1> SUFFICES ASSUME LogAssumption, Init
               PROVE  WalTypes
    OBVIOUS
  <1>1. files \in Seq(File) /\ Len(files) = 0
    BY DEF Init
  <1>2. /\ MaxRotations \in Nat \ {0} /\ MaxAppends \in Nat /\ MaxTicks \in Nat
        /\ MaxClock \in Nat /\ MaxFaults \in Nat
    BY WalAssumption
  <1>. QED
    BY <1>1, <1>2 DEF Init, WalTypes, WriterType, MaintType

LEMMA TypesStep == WalBase /\ [Next]_vars => WalTypes'
  <1> SUFFICES ASSUME WalBase, [Next]_vars
               PROVE  WalTypes'
    OBVIOUS
  <1> DEFINE n == Len(files)
  <1>1. /\ WalTypes /\ MaintHolds /\ \A w \in Writers : WriterHolds(w)
        /\ n \in Nat /\ DOMAIN files = 1..n /\ files \in Seq(File)
        /\ \A i \in 1..n : files[i].lines \in Seq(LineType)
        /\ \A w \in Writers : Pending(w) => wr[w].sent < MaxAppends
    BY LinesType DEF WalBase, WalTypes, PendingWhere
  <1>2. /\ MaxRotations \in Nat \ {0} /\ MaxAppends \in Nat /\ MaxTicks \in Nat
        /\ MaxClock \in Nat /\ MaxFaults \in Nat
    BY WalAssumption
  <1>3. \A w \in Writers : Opened(w) => wr[w].fd \in 1..n
    BY <1>1 DEF WriterHolds, WalTypes, WriterType
  <1>4. \A i \in 0..n : Lines(i) \in Seq(LineType)
    BY <1>1, LinesType
  \* the rest of the state keeps its type when there are more files
  <1>5. ASSUME files' \in Seq(File), Len(files') >= n
        PROVE  /\ Len(files') \in Nat /\ cur \in 0..Len(files') /\ tmp \in 0..Len(files')
               /\ arch \in [1..MaxRotations -> 0..Len(files')]
               /\ wr \in [Writers -> WriterType(Len(files'))]
               /\ mt \in MaintType(Len(files'))
    <2>1. Len(files') \in Nat /\ n <= Len(files')
      BY <1>1, <1>5
    <2>. QED
      BY <1>1, <2>1, Wider DEF WalTypes
  <1>6. CASE UNCHANGED vars
    BY <1>1, <1>6 DEF vars, dirs, histories, WalTypes
  <1>7. CASE Tick
    BY <1>1, <1>2, <1>7 DEF Tick, dirs, histories, WalTypes
  <1>8. ASSUME NEW w \in Writers, CreateNew(w) \/ CreateOpen(w) \/ AppendOpen(w)
        PROVE  WalTypes'
    <2>1. ASSUME NEW label \in {"createOpen", "createLock", "appendLock"}, OpenPath(w, label),
                 UNCHANGED <<arch, tmp, mt, clock, faults, histories>>
          PROVE  WalTypes'
      <3>1. /\ files' \in Seq(File) /\ Len(files') >= n /\ cur' \in 1..Len(files')
            /\ wr' = [wr EXCEPT ![w] = [wr[w] EXCEPT !.pc = label, !.fd = cur', !.late = InRotationWindow]]
        BY <1>1, <2>1, OpenIs DEF SameLines
      <3>2. [wr[w] EXCEPT !.pc = label, !.fd = cur', !.late = InRotationWindow] \in WriterType(Len(files'))
        <4>1. wr[w] \in WriterType(Len(files')) /\ cur' \in 0..Len(files')
          BY <1>5, <3>1
        <4>2. InRotationWindow \in BOOLEAN
          BY DEF InRotationWindow
        <4>. QED
          BY <4>1, <4>2 DEF WriterType
      <3>3. wr' \in [Writers -> WriterType(Len(files'))]
        BY <1>5, <3>1, <3>2
      <3>. QED
        BY <1>1, <1>5, <2>1, <3>1, <3>3 DEF histories, WalTypes
    <2>2. CASE CreateOpen(w) /\ cur = 0
      <3>1. /\ wr' = [wr EXCEPT ![w] = [wr[w] EXCEPT !.pc = "ready", !.seq = 1]]
            /\ UNCHANGED <<files, cur, arch, tmp, mt, clock, faults, histories>>
        BY <1>1, <2>2 DEF CreateOpen, WalTypes
      <3>2. wr' \in [Writers -> WriterType(n)]
        BY <1>1, <3>1 DEF WalTypes, WriterType
      <3>. QED
        BY <1>1, <3>1, <3>2 DEF histories, WalTypes
    <2>. QED
      BY <1>8, <2>1, <2>2 DEF CreateNew, CreateOpen, AppendOpen
  \* a writer's own fields
  <1>9. ASSUME NEW w \in Writers, files' \in Seq(File), Len(files') = n,
               NEW s \in WriterType(n), wr' = [wr EXCEPT ![w] = s],
               UNCHANGED <<dirs, mt, clock, rotatedOut>>,
               faults' \in 0..MaxFaults, acked' \subseteq Events, exposed' \subseteq Events
        PROVE  WalTypes'
    BY <1>1, <1>9 DEF dirs, WalTypes
  <1>10. ASSUME NEW w \in Writers PROVE wr[w] \in WriterType(n)
    BY <1>1 DEF WalTypes
  <1>11. ASSUME NEW w \in Writers, WriterLock(w)
         PROVE  WalTypes'
    <2>1. PICK label \in {"createWrite", "appendWrite"} :
              wr' = [wr EXCEPT ![w] = [wr[w] EXCEPT !.pc = label]]
      BY <1>1, <1>11 DEF WriterLock, WalTypes
    <2>2. [wr[w] EXCEPT !.pc = label] \in WriterType(n)
      BY <1>10 DEF WriterType
    <2>3. wr[w].fd \in 1..n
      BY <1>3, <1>11 DEF WriterLock, Opened
    <2>4. SameLines /\ Len(files') = n
      BY <1>1, <1>11, <2>3, LockIs DEF WriterLock, Lock, Owners
    <2>. QED
      BY <1>1, <1>9, <1>11, <2>1, <2>2, <2>4 DEF WriterLock, histories, SameLines, WalTypes
  <1>12. ASSUME NEW w \in Writers, NEW ls \in Seq(LineType), Opened(w),
                files' = WrittenAndUnlocked(wr[w].fd, ls)
         PROVE  files' \in Seq(File) /\ Len(files') = n
    BY <1>1, <1>3, <1>12, WriteIs DEF OtherLines
  <1>13. ASSUME NEW w \in Writers, CreateMarker(w)
         PROVE  WalTypes'
    <2>1. Opened(w) /\ wr[w].fd \in 1..n /\ Lines(wr[w].fd) \in Seq(LineType)
      BY <1>3, <1>4, <1>13 DEF CreateMarker, Opened
    <2>2. ASSUME cur # 0, NEW base \in RecoveredSeqs(Lines(cur)),
                 files' = WrittenAndUnlocked(wr[w].fd,
                                Push(Lines(wr[w].fd), Line("marker", w, 0, base))),
                 wr' = [wr EXCEPT ![w].pc = "ready", ![w].seq = base + 1]
          PROVE  WalTypes'
      <3>1. base \in Nat
        BY <1>1, <1>4, Recovered DEF WalTypes
      <3>2. Line("marker", w, 0, base) \in LineType
        BY <1>1, <1>2, <3>1, NewLine
      <3>3. Push(Lines(wr[w].fd), Line("marker", w, 0, base)) \in Seq(LineType)
        BY <2>1, <3>2, Pushed
      <3>4. [wr[w] EXCEPT !.pc = "ready", !.seq = base + 1] \in WriterType(n)
        <4>1. base + 1 \in Nat /\ wr[w] \in WriterType(n)
          BY <1>10, <3>1
        <4>. QED
          BY <4>1 DEF WriterType
      <3>5. wr' = [wr EXCEPT ![w] = [wr[w] EXCEPT !.pc = "ready", !.seq = base + 1]]
        BY <1>1, <2>2 DEF WalTypes
      <3>. QED
        BY <1>1, <1>9, <1>12, <1>13, <2>1, <2>2, <3>3, <3>4, <3>5 DEF CreateMarker, histories, WalTypes
    <2>3. ASSUME files' = WrittenAndUnlocked(wr[w].fd, Lines(wr[w].fd)),
                 wr' = [wr EXCEPT ![w].pc = "closed"]
          PROVE  WalTypes'
      <3>1. [wr[w] EXCEPT !.pc = "closed"] \in WriterType(n)
        BY <1>10 DEF WriterType
      <3>2. wr' = [wr EXCEPT ![w] = [wr[w] EXCEPT !.pc = "closed"]]
        BY <1>1, <2>3 DEF WalTypes
      <3>. QED
        BY <1>1, <1>9, <1>12, <1>13, <2>1, <2>3, <3>1, <3>2 DEF CreateMarker, histories, WalTypes
    <2>. QED
      BY <1>13, <2>2, <2>3 DEF CreateMarker
  \* the number of the next event
  <1>14. ASSUME NEW w \in Writers, wr[w].sent < MaxAppends
         PROVE  wr[w].sent + 1 \in 1..MaxAppends /\ <<w, wr[w].sent + 1>> \in Events
                /\ \A k \in {"event", "torn"} : Line(k, w, wr[w].sent + 1, wr[w].seq) \in LineType
    <2>1. wr[w].sent + 1 \in 1..MaxAppends /\ wr[w].seq \in Nat
      BY <1>2, <1>10, <1>14 DEF WriterType
    <2>2. \A k \in {"event", "torn"} : Line(k, w, wr[w].sent + 1, wr[w].seq) \in LineType
      BY <1>1, <2>1, NewLine
    <2>. QED
      BY <2>1, <2>2 DEF Events
  <1>15. ASSUME NEW w \in Writers, AppendWrite(w)
         PROVE  WalTypes'
    <2> DEFINE m == wr[w].sent + 1
               line == Line("event", w, m, wr[w].seq)
               ls == Push(Lines(wr[w].fd), line)
               s == [wr[w] EXCEPT !.pc = "ready", !.seq = wr[w].seq + 1, !.sent = m]
    <2>1. /\ Opened(w) /\ Lines(wr[w].fd) \in Seq(LineType)
          /\ m \in 1..MaxAppends /\ <<w, m>> \in Events /\ line \in LineType
      BY <1>1, <1>3, <1>4, <1>14, <1>15 DEF AppendWrite, Opened, Pending
    <2>2. ls \in Seq(LineType)
      <3> HIDE DEF line
      <3>. QED
        BY <2>1, Pushed
    <2>3. s \in WriterType(n)
      <3>1. wr[w] \in WriterType(n) /\ wr[w].seq + 1 \in Nat /\ m \in 0..MaxAppends
        BY <1>2, <1>10, <2>1 DEF WriterType
      <3> HIDE DEF m
      <3>. QED
        BY <3>1 DEF WriterType
    <2>4. files' = WrittenAndUnlocked(wr[w].fd, ls) /\ wr' = [wr EXCEPT ![w] = s]
          /\ UNCHANGED <<dirs, mt, clock, faults, rotatedOut>>
          /\ acked' = acked \cup {<<w, m>>} /\ exposed' \in {exposed, exposed \cup {<<w, m>>}}
      BY <1>1, <1>15 DEF AppendWrite, WalTypes
    <2> HIDE DEF ls, s, m
    <2>5. acked' \subseteq Events /\ exposed' \subseteq Events /\ faults' \in 0..MaxFaults
      BY <1>1, <2>1, <2>4 DEF WalTypes
    <2>. QED
      BY <1>9, <1>12, <2>1, <2>2, <2>3, <2>4, <2>5
  <1>16. ASSUME NEW w \in Writers, AppendFail(w)
         PROVE  WalTypes'
    <2> DEFINE m == wr[w].sent + 1
               line(k) == Line(k, w, m, wr[w].seq)
    <2>1. /\ Opened(w) /\ Lines(wr[w].fd) \in Seq(LineType)
          /\ m \in 1..MaxAppends /\ <<w, m>> \in Events
          /\ line("torn") \in LineType /\ line("event") \in LineType
      BY <1>1, <1>3, <1>4, <1>14, <1>16 DEF AppendFail, Opened, Pending
    <2>2. PICK ls \in {Lines(wr[w].fd), Push(Lines(wr[w].fd), line("torn")),
                       Push(Lines(wr[w].fd), line("event"))} :
              /\ files' = WrittenAndUnlocked(wr[w].fd, ls)
              /\ exposed' \in {exposed, exposed \cup {<<w, m>>}}
      BY <1>16 DEF AppendFail
    <2>3. ls \in Seq(LineType)
      <3> HIDE DEF line
      <3>. QED
        BY <2>1, <2>2, Pushed
    <2>4. PICK label \in {"ready", "closed"} : wr' = [wr EXCEPT ![w].pc = label, ![w].sent = m]
      BY <1>16 DEF AppendFail
    <2> DEFINE s == [wr[w] EXCEPT !.pc = label, !.sent = m]
    <2>5. s \in WriterType(n) /\ wr' = [wr EXCEPT ![w] = s]
      <3>1. wr[w] \in WriterType(n) /\ m \in 0..MaxAppends /\ wr \in [Writers -> WriterType(n)]
        BY <1>1, <1>2, <1>10, <2>1 DEF WalTypes
      <3> HIDE DEF m
      <3>. QED
        BY <2>4, <3>1 DEF WriterType
    <2>6. /\ UNCHANGED <<dirs, mt, clock, acked, rotatedOut>>
          /\ faults' = faults + 1 /\ faults < MaxFaults
      BY <1>16 DEF AppendFail
    <2> HIDE DEF s, m, line
    <2>7. acked' \subseteq Events /\ exposed' \subseteq Events /\ faults' \in 0..MaxFaults
      <3>1. acked \subseteq Events /\ exposed \subseteq Events /\ faults \in 0..MaxFaults
        BY <1>1 DEF WalTypes
      <3>2. acked' \subseteq Events /\ exposed' \subseteq Events
        BY <2>1, <2>2, <2>6, <3>1
      <3>3. faults' \in 0..MaxFaults
        BY <1>2, <2>6, <3>1
      <3>. QED
        BY <3>2, <3>3
    <2>. QED
      BY <1>9, <1>12, <2>1, <2>2, <2>3, <2>5, <2>6, <2>7
  <1>17. ASSUME NEW w \in Writers, Close(w)
         PROVE  WalTypes'
    <2>1. [wr[w] EXCEPT !.pc = "closed"] \in WriterType(n)
      BY <1>10 DEF WriterType
    <2>2. wr' = [wr EXCEPT ![w] = [wr[w] EXCEPT !.pc = "closed"]]
      BY <1>1, <1>17 DEF Close, WalTypes
    <2>. QED
      BY <1>1, <1>9, <1>17, <2>1, <2>2 DEF Close, histories, WalTypes
  \* maintenance
  <1>18. ASSUME files' \in Seq(File), Len(files') >= n,
                NEW label \in {"idle", "cleanupLock", "cleanupRead", "cleanupRename", "cleanupError",
                               "cleaned", "rotateLock", "rotate", "renamed"},
                \/ mt' = [mt EXCEPT !.pc = label]
                \/ mt' = [mt EXCEPT !.pc = label, !.fd = cur]
                \/ mt.ticks < MaxTicks /\ mt' = [pc |-> label, fd |-> cur, ticks |-> mt.ticks + 1]
         PROVE  mt' \in MaintType(Len(files'))
    <2>1. mt \in MaintType(Len(files')) /\ cur \in 0..Len(files')
      BY <1>5, <1>18
    <2>2. mt.ticks < MaxTicks => mt.ticks + 1 \in 0..MaxTicks
      BY <1>2, <2>1 DEF MaintType
    <2>3. CASE mt' = [mt EXCEPT !.pc = label]
      BY <1>18, <2>1, <2>3 DEF MaintType
    <2>4. CASE mt' = [mt EXCEPT !.pc = label, !.fd = cur]
      BY <1>18, <2>1, <2>4 DEF MaintType
    <2>5. CASE mt.ticks < MaxTicks /\ mt' = [pc |-> label, fd |-> cur, ticks |-> mt.ticks + 1]
      <3>1. mt.ticks + 1 \in 0..MaxTicks
        BY <2>2, <2>5
      <3>. QED
        BY <1>18, <2>1, <2>5, <3>1 DEF MaintType
    <2>. QED
      BY <1>18, <2>3, <2>4, <2>5
  <1>19. ASSUME mt.pc \in {"cleanupLock", "cleanupRead", "cleanupRename", "cleanupError",
                           "rotateLock", "rotate", "renamed"}
         PROVE  /\ mt.fd \in 1..n
                /\ \A who \in Owners : files' = [files EXCEPT ![mt.fd].flock = who]
                       => files' \in Seq(File) /\ Len(files') = n
    <2>1. mt.fd \in 1..n
      BY <1>1, <1>19 DEF MaintHolds, WalTypes, MaintType, InRotationWindow
    <2>. QED
      BY <1>1, <2>1, LockIs DEF SameLines
  <1>20. CASE CleanupOpen
    BY <1>1, <1>18, <1>20 DEF CleanupOpen, dirs, histories, WalTypes
  <1>21. CASE CleanupLock
    <2>1. files' \in Seq(File) /\ Len(files') = n
      BY <1>19, <1>21 DEF CleanupLock, Lock, Owners
    <2>2. mt' \in MaintType(Len(files'))
      BY <1>1, <1>18, <1>21, <2>1 DEF CleanupLock, Step
    <2>. QED
      BY <1>1, <1>21, <2>1, <2>2 DEF CleanupLock, dirs, histories, WalTypes
  <1>22. CASE CleanupNothing \/ CleanupUnlock
    <2>1. files' \in Seq(File) /\ Len(files') = n
      BY <1>19, <1>22 DEF CleanupNothing, CleanupUnlock, Owners
    <2>2. mt' \in MaintType(Len(files'))
      BY <1>1, <1>18, <1>22, <2>1 DEF CleanupNothing, CleanupUnlock, Step
    <2>. QED
      BY <1>1, <1>22, <2>1, <2>2 DEF CleanupNothing, CleanupUnlock, dirs, histories, WalTypes
  <1>23. ASSUME NEW ls \in Seq(LineType), WriteTemp(ls)
         PROVE  files' \in Seq(File) /\ Len(files') >= n /\ tmp' \in 0..Len(files')
    BY <1>1, <1>23, TempIs
  <1>24. CASE CleanupWrite
    <2>1. PICK ls \in Seq(LineType) : WriteTemp(ls)
      BY <1>1, <1>24, CopyIs DEF CleanupWrite
    <2>2. files' \in Seq(File) /\ Len(files') >= n /\ tmp' \in 0..Len(files')
      BY <1>23, <2>1
    <2>. QED
      BY <1>1, <1>5, <1>18, <1>24, <2>2 DEF CleanupWrite, Step, histories, WalTypes
  <1>25. CASE CleanupFail
    <2>1. PICK ls \in Seq(LineType) : WriteTemp(ls)
      <3>1. PICK c \in Copied : \E k \in 0..Len(c) : WriteTemp(SubSeq(c, 1, k))
        BY <1>25 DEF CleanupFail
      <3>2. PICK k \in 0..Len(c) : WriteTemp(SubSeq(c, 1, k))
        BY <3>1
      <3>3. c \in Seq(LineType)
        BY <1>1, CopyIs
      <3>4. SubSeq(c, 1, k) \in Seq(LineType)
        BY <3>3
      <3>. QED
        BY <3>2, <3>4
    <2>2. files' \in Seq(File) /\ Len(files') >= n /\ tmp' \in 0..Len(files')
      BY <1>23, <2>1
    <2>3. faults' \in 0..MaxFaults
      BY <1>1, <1>2, <1>25 DEF CleanupFail, WalTypes
    <2>. QED
      BY <1>1, <1>5, <1>18, <1>25, <2>2, <2>3 DEF CleanupFail, Step, histories, WalTypes
  <1>26. ASSUME NEW i, Strand(i)
         PROVE  wr' \in [Writers -> WriterType(n)]
    <2>1. ASSUME NEW w \in Writers PROVE [wr[w] EXCEPT !.late = TRUE] \in WriterType(n)
      BY <1>10 DEF WriterType
    <2>. QED
      BY <1>10, <1>26, <2>1 DEF Strand
  <1>27. CASE CleanupRename
    <2>1. files' \in Seq(File) /\ Len(files') = n
      BY <1>19, <1>27 DEF CleanupRename, Owners
    <2>2. mt' \in MaintType(Len(files'))
      BY <1>1, <1>18, <1>27, <2>1 DEF CleanupRename, Step
    <2>3. wr' \in [Writers -> WriterType(n)]
      BY <1>26, <1>27 DEF CleanupRename
    <2>. QED
      BY <1>1, <1>27, <2>1, <2>2, <2>3 DEF CleanupRename, histories, WalTypes
  <1>28. CASE RotateOpen
    BY <1>1, <1>18, <1>28 DEF RotateOpen, Step, dirs, histories, WalTypes
  <1>29. CASE RotateLock
    <2>1. files' \in Seq(File) /\ Len(files') = n
      BY <1>19, <1>29 DEF RotateLock, Lock, Owners
    <2>2. mt' \in MaintType(Len(files'))
      BY <1>1, <1>18, <1>29, <2>1 DEF RotateLock, Step
    <2>. QED
      BY <1>1, <1>29, <2>1, <2>2 DEF RotateLock, dirs, histories, WalTypes
  <1>30. CASE RotateRename
    <2>1. arch' \in [1..MaxRotations -> 0..n]
      <3>1. \A i \in 1..MaxRotations : i # 1 => i - 1 \in 1..MaxRotations
        BY <1>2
      <3>. QED
        BY <1>1, <1>30, <3>1 DEF RotateRename, WalTypes
    <2>2. rotatedOut' \subseteq Events
      <3> DEFINE oldest == IF 0 \in ToSet(arch) THEN 0 ELSE arch[MaxRotations]
      <3>1. oldest \in 0..n /\ rotatedOut' = rotatedOut \cup EventsIn(Lines(oldest))
        BY <1>1, <1>2, <1>30 DEF RotateRename, WalTypes
      <3> HIDE DEF oldest
      <3>2. Lines(oldest) \in Seq(LineType)
        BY <1>4, <3>1
      <3>3. EventsIn(Lines(oldest)) \subseteq Events
        BY <3>2 DEF EventsIn, Events, LineType
      <3>. QED
        BY <1>1, <3>1, <3>3 DEF WalTypes
    <2>3. wr' \in [Writers -> WriterType(n)]
      BY <1>26, <1>30 DEF RotateRename
    <2>4. files' = files /\ files' \in Seq(File) /\ Len(files') >= n
      BY <1>1, <1>30 DEF RotateRename
    <2>5. mt' \in MaintType(Len(files'))
      BY <1>18, <1>30, <2>4 DEF RotateRename, Step
    <2>. QED
      BY <1>1, <1>30, <2>1, <2>2, <2>3, <2>4, <2>5 DEF RotateRename, WalTypes
  <1>31. CASE RotateCreate
    <2>1. files' \in Seq(File) /\ Len(files') >= n /\ cur' \in 0..Len(files')
      <3>1. mt.fd \in 1..n
        BY <1>19, <1>31 DEF RotateCreate
      <3>. QED
        BY <1>1, <1>31, <3>1, EmptiedIs
    <2>2. mt' \in MaintType(Len(files'))
      BY <1>18, <1>31, <2>1 DEF RotateCreate, Step
    <2>. QED
      BY <1>1, <1>5, <1>31, <2>1, <2>2 DEF RotateCreate, histories, WalTypes
  <1>32. CASE Crash
    <2>1. files' \in Seq(File) /\ Len(files') = n
      BY <1>1, <1>32, CrashIs DEF SameLines
    <2>2. wr' \in [Writers -> WriterType(n)]
      <3>1. \A w \in Writers : [wr[w] EXCEPT !.pc = "closed"] \in WriterType(n)
        BY <1>10 DEF WriterType
      <3>. QED
        BY <1>1, <1>10, <1>32, <3>1, CrashIs
    <2>3. mt' \in MaintType(Len(files'))
      BY <1>1, <1>18, <1>32, <2>1 DEF Crash, Step
    <2>4. faults' \in 0..MaxFaults
      BY <1>1, <1>2, <1>32 DEF Crash, WalTypes
    <2>. QED
      BY <1>1, <1>32, <2>1, <2>2, <2>3, <2>4 DEF Crash, dirs, histories, WalTypes
  <1>. QED
    BY <1>6, <1>7, <1>8, <1>11, <1>13, <1>15, <1>16, <1>17, <1>20, <1>21, <1>22, <1>24, <1>25,
       <1>27, <1>28, <1>29, <1>30, <1>31, <1>32, WalStepCases

\* What a step of writer w leaves: the names, but for a path that it creates; the lines
\* that have a newline; the locks and the fields of others, none of which is alive.
Grows(a, b) == Len(b) >= Len(a) /\ \A i \in 1..Len(a) : a[i].kind # "torn" => b[i] = a[i]

WriterEffect(w) ==
    /\ UNCHANGED <<arch, tmp, mt, clock, rotatedOut>>
    /\ cur # 0 => cur' = cur
    /\ cur = 0 /\ cur' # 0 => cur' = Len(files) + 1 /\ files'[cur'].lines = <<>>
    /\ Len(files') >= Len(files)
    /\ \A k \in 1..Len(files) : Grows(files[k].lines, files'[k].lines)
    /\ \A k \in 1..Len(files) : \A x \in Owners \ {w, Nobody} :
           files[k].flock = x => files'[k].flock = x /\ files'[k].lines = files[k].lines
    /\ \A v \in Writers \ {w} : ~ Alive(v) /\ wr'[v] = wr[v]

LEMMA WriterEffects ==
    ASSUME LogAssumption, WalBase, NEW w \in Writers, Writer(w)
    PROVE  WriterEffect(w)
  <1> DEFINE n == Len(files)
  <1>1. /\ WalTypes /\ WriterHolds(w) /\ n \in Nat
        /\ \A i \in 1..n : files[i].lines \in Seq(LineType)
        /\ \A i \in 0..n : Lines(i) \in Seq(LineType)
        /\ \A i \in 1..n : Lines(i) = files[i].lines
        /\ wr \in [Writers -> WriterType(n)] /\ wr[w] \in WriterType(n)
    BY LinesType DEF WalBase, WalTypes
  <1>2. Opened(w) => wr[w].fd \in 1..n
    BY <1>1 DEF WriterHolds, WriterType
  <1>3. \A i \in 1..n : Grows(files[i].lines, files[i].lines)
    BY <1>1 DEF Grows
  <1>4. \A v \in Writers \ {w} : ~ Alive(v)
    BY <1>1 DEF LogAssumption, WriterHolds, Alive, Writer, CreateNew, CreateOpen, WriterLock,
                CreateMarker, AppendOpen, AppendWrite, AppendFail, Close
  <1>5. CASE CreateNew(w) \/ CreateOpen(w) \/ AppendOpen(w)
    <2>1. ASSUME NEW label, OpenPath(w, label),
                 UNCHANGED <<arch, tmp, mt, clock, faults, histories>>
          PROVE  WriterEffect(w)
      <3>1. /\ Len(files') >= n /\ \A k \in 1..n : files'[k].lines = files[k].lines
            /\ \A k \in 1..n : files'[k].flock = files[k].flock
            /\ cur # 0 => cur' = cur
            /\ cur = 0 => cur' = n + 1 /\ files'[cur'].lines = <<>>
            /\ wr' = [wr EXCEPT ![w] = [wr[w] EXCEPT !.pc = label, !.fd = cur', !.late = InRotationWindow]]
        BY <1>1, <2>1, OpenIs DEF SameLines
      <3>2. \A v \in Writers \ {w} : wr'[v] = wr[v]
        BY <1>1, <3>1
      <3>. QED
        BY <1>3, <1>4, <2>1, <3>1, <3>2 DEF WriterEffect, histories
    <2>2. CASE CreateOpen(w) /\ cur = 0
      BY <1>1, <1>3, <1>4, <2>2 DEF CreateOpen, WriterEffect, histories
    <2>. QED
      BY <1>5, <2>1, <2>2 DEF CreateNew, CreateOpen, AppendOpen
  <1>6. CASE WriterLock(w)
    <2>1. wr[w].fd \in 1..n /\ files[wr[w].fd].flock = Nobody
          /\ files' = [files EXCEPT ![wr[w].fd].flock = w] /\ w \in Owners
      BY <1>2, <1>6 DEF WriterLock, Opened, Lock, Owners
    <2>2. /\ Len(files') = n /\ \A k \in 1..n : files'[k].lines = files[k].lines
          /\ \A k \in 1..n : files'[k].flock = IF k = wr[w].fd THEN w ELSE files[k].flock
      BY <1>1, <2>1, LockIs DEF SameLines
    <2>3. \A v \in Writers \ {w} : wr'[v] = wr[v]
      BY <1>1, <1>6 DEF WriterLock
    <2>. QED
      BY <1>1, <1>3, <1>4, <1>6, <2>1, <2>2, <2>3 DEF WriterLock, WriterEffect, dirs, histories
  <1>7. ASSUME NEW ls \in Seq(LineType), wr[w].pc \in {"createWrite", "appendWrite"},
               files' = WrittenAndUnlocked(wr[w].fd, ls), Grows(Lines(wr[w].fd), ls),
               UNCHANGED <<dirs, mt, clock, rotatedOut>>,
               \A v \in Writers \ {w} : wr'[v] = wr[v]
        PROVE  WriterEffect(w)
    <2>1. wr[w].fd \in 1..n /\ files[wr[w].fd].flock = w
      BY <1>1, <1>2, <1>7 DEF WriterHolds, Opened
    <2>2. /\ Len(files') = n
          /\ \A k \in 1..n : files'[k].lines = IF k = wr[w].fd THEN ls ELSE files[k].lines
          /\ \A k \in 1..n : files'[k].flock = IF k = wr[w].fd THEN Nobody ELSE files[k].flock
      BY <1>1, <1>7, <2>1, WriteIs DEF OtherLines
    <2>3. \A k \in 1..n : Grows(files[k].lines, files'[k].lines)
      BY <1>1, <1>3, <1>7, <2>1, <2>2
    <2>4. \A k \in 1..n : \A x \in Owners \ {w, Nobody} :
              files[k].flock = x => files'[k].flock = x /\ files'[k].lines = files[k].lines
      BY <2>1, <2>2
    <2>. QED
      BY <1>1, <1>4, <1>7, <2>2, <2>3, <2>4 DEF WriterEffect, dirs
  <1>8. ASSUME Opened(w), NEW line \in LineType
        PROVE  /\ Push(Lines(wr[w].fd), line) \in Seq(LineType)
               /\ Grows(Lines(wr[w].fd), Push(Lines(wr[w].fd), line))
    <2> DEFINE ls == Lines(wr[w].fd)
               p == Push(ls, line)
    <2>1. ls \in Seq(LineType) /\ Len(ls) \in Nat
      BY <1>1, <1>2, <1>8
    <2> HIDE DEF ls
    <2>2. /\ p \in Seq(LineType) /\ Len(p) >= Len(ls)
          /\ \/ \A k \in 1..Len(ls) : p[k] = ls[k]
             \/ ls[Len(ls)].kind = "torn" /\ \A k \in 1..(Len(ls) - 1) : p[k] = ls[k]
      BY <2>1, Pushed
    <2> HIDE DEF p
    <2>3. \A k \in 1..Len(ls) : k \in 1..(Len(ls) - 1) \/ k = Len(ls)
      BY <2>1
    <2>4. Grows(ls, p)
      BY <2>2, <2>3 DEF Grows
    <2>. QED
      BY <2>2, <2>4 DEF ls, p
  <1>9. ASSUME Opened(w)
        PROVE  Lines(wr[w].fd) \in Seq(LineType) /\ Grows(Lines(wr[w].fd), Lines(wr[w].fd))
    BY <1>1, <1>2, <1>3, <1>9
  <1>10. CASE CreateMarker(w)
    <2>1. /\ Opened(w) /\ wr[w].pc \in {"createWrite", "appendWrite"}
          /\ \A v \in Writers \ {w} : wr'[v] = wr[v]
          /\ UNCHANGED <<dirs, mt, clock, rotatedOut>>
      BY <1>1, <1>10 DEF CreateMarker, Opened, histories
    <2>2. ASSUME NEW base \in RecoveredSeqs(Lines(cur)),
                 files' = WrittenAndUnlocked(wr[w].fd,
                                Push(Lines(wr[w].fd), Line("marker", w, 0, base)))
          PROVE  WriterEffect(w)
      <3>1. base \in Nat /\ 0 \in 0..MaxAppends
        <4>1. Lines(cur) \in Seq(LineType)
          BY <1>1 DEF WalTypes
        <4>. QED
          BY <4>1, Recovered, WalAssumption
      <3>2. Line("marker", w, 0, base) \in LineType
        BY <1>1, <3>1, NewLine
      <3> DEFINE ls == Push(Lines(wr[w].fd), Line("marker", w, 0, base))
      <3>3. ls \in Seq(LineType) /\ Grows(Lines(wr[w].fd), ls)
        BY <1>8, <2>1, <3>2
      <3>4. files' = WrittenAndUnlocked(wr[w].fd, ls)
        BY <2>2
      <3> HIDE DEF ls
      <3>. QED
        BY <1>7, <2>1, <3>3, <3>4
    <2>3. CASE files' = WrittenAndUnlocked(wr[w].fd, Lines(wr[w].fd))
      <3>1. Lines(wr[w].fd) \in Seq(LineType) /\ Grows(Lines(wr[w].fd), Lines(wr[w].fd))
        BY <1>9, <2>1
      <3>. QED
        BY <1>7, <2>1, <2>3, <3>1
    <2>. QED
      BY <1>10, <2>2, <2>3 DEF CreateMarker
  <1>11. CASE AppendWrite(w) \/ AppendFail(w)
    <2> DEFINE line(k) == Line(k, w, wr[w].sent + 1, wr[w].seq)
    <2>1. /\ Opened(w) /\ wr[w].pc \in {"createWrite", "appendWrite"} /\ Pending(w)
          /\ \A v \in Writers \ {w} : wr'[v] = wr[v]
          /\ UNCHANGED <<dirs, mt, clock, rotatedOut>>
      BY <1>1, <1>11 DEF AppendWrite, AppendFail, Opened, Pending, histories
    <2>2. \A k \in {"event", "torn"} : line(k) \in LineType
      <3>1. wr[w].sent < MaxAppends
        BY <2>1 DEF WalBase, PendingWhere, Pending
      <3>2. wr[w].sent + 1 \in 1..MaxAppends /\ wr[w].sent + 1 \in 0..MaxAppends /\ wr[w].seq \in Nat
        BY <1>1, <3>1, WalAssumption DEF WriterType
      <3>. QED
        BY <1>1, <3>2, NewLine
    <2>3. \E ls \in {Lines(wr[w].fd), Push(Lines(wr[w].fd), line("torn")),
                     Push(Lines(wr[w].fd), line("event"))} :
             files' = WrittenAndUnlocked(wr[w].fd, ls)
      BY <1>11 DEF AppendWrite, AppendFail
    <2> HIDE DEF line
    <2>4. PICK ls \in {Lines(wr[w].fd), Push(Lines(wr[w].fd), line("torn")),
                      Push(Lines(wr[w].fd), line("event"))} :
             files' = WrittenAndUnlocked(wr[w].fd, ls)
      BY <2>3
    <2>5. ls \in Seq(LineType) /\ Grows(Lines(wr[w].fd), ls)
      BY <1>8, <1>9, <2>1, <2>2, <2>4
    <2>. QED
      BY <1>7, <2>1, <2>4, <2>5
  <1>12. CASE Close(w)
    BY <1>1, <1>3, <1>4, <1>12 DEF Close, WriterEffect, dirs, histories
  <1>. QED
    BY <1>5, <1>6, <1>10, <1>11, <1>12 DEF Writer

LEMMA BaseInit == LogAssumption /\ Init => WalBase
  <1> SUFFICES ASSUME LogAssumption, Init
               PROVE  WalBase
    OBVIOUS
  <1>1. WalTypes
    BY TypesInit
  <1>2. NamesApart /\ MaintHolds
    BY DEF Init, NamesApart, MaintHolds, InRotationWindow
  <1>3. \A w \in Writers : WriterHolds(w) /\ PendingWhere(w)
    BY DEF Init, WriterHolds, PendingWhere, Alive, Opened, Pending
  <1>. QED
    BY <1>1, <1>2, <1>3 DEF WalBase

LEMMA NamesStep == LogAssumption /\ WalBase /\ [Next]_vars => NamesApart'
  <1> SUFFICES ASSUME LogAssumption, WalBase, [Next]_vars
               PROVE  NamesApart'
    OBVIOUS
  <1> DEFINE n == Len(files)
  <1>1. /\ WalTypes /\ NamesApart /\ MaintHolds /\ n \in Nat
        /\ cur \in 0..n /\ tmp \in 0..n /\ \A i \in 1..MaxRotations : arch[i] \in 0..n
        /\ MaxRotations \in Nat \ {0}
    <2>1. WalTypes /\ NamesApart /\ MaintHolds
      BY DEF WalBase
    <2>. QED
      BY <2>1, WalAssumption DEF WalTypes
  <1>2. CASE UNCHANGED dirs
    BY <1>1, <1>2 DEF dirs, NamesApart
  <1>3. ASSUME NEW w \in Writers, Writer(w)
        PROVE  NamesApart'
    <2>1. /\ arch' = arch /\ tmp' = tmp
          /\ cur' = cur \/ cur' = n + 1
      BY <1>3, WriterEffects DEF WriterEffect
    <2>. QED
      BY <1>1, <2>1 DEF NamesApart
  <1>4. CASE CleanupWrite \/ CleanupFail
    <2>1. /\ cur' = cur /\ arch' = arch
          /\ tmp' = tmp \/ tmp' = n + 1
      BY <1>4 DEF CleanupWrite, CleanupFail, WriteTemp
    <2>. QED
      BY <1>1, <2>1 DEF NamesApart
  <1>5. CASE CleanupRename
    BY <1>1, <1>5 DEF CleanupRename, NamesApart
  <1>6. CASE RotateRename
    <2>1. cur # 0 /\ cur' = 0 /\ tmp' = tmp
      BY <1>1, <1>6 DEF RotateRename, MaintHolds
    <2>2. \A i \in 1..MaxRotations : arch'[i] = IF i = 1 THEN cur ELSE arch[i - 1]
      <3>1. \A i \in 1..MaxRotations : i # 1 => i - 1 \in 1..MaxRotations /\ i - 1 < i
        BY <1>1
      <3>. QED
        BY <1>1, <1>6, <3>1 DEF RotateRename, NamesApart
    <2>3. \A i \in 1..MaxRotations : arch'[i] # 0 => arch'[i] # cur' /\ arch'[i] # tmp'
      BY <1>1, <2>1, <2>2 DEF NamesApart
    <2>4. ASSUME NEW i \in 1..MaxRotations, NEW j \in 1..MaxRotations, i < j, arch'[i] = 0
          PROVE  arch'[j] = 0
      <3>1. i # 1 /\ j # 1
        BY <2>1, <2>2, <2>4
      <3>2. i - 1 \in 1..MaxRotations /\ j - 1 \in 1..MaxRotations /\ i - 1 < j - 1
        BY <1>1, <2>4, <3>1
      <3>. QED
        BY <1>1, <2>2, <2>4, <3>1, <3>2 DEF NamesApart
    <2>. QED
      BY <2>1, <2>3, <2>4 DEF NamesApart
  <1>7. CASE RotateCreate
    <2>1. /\ arch' = arch /\ tmp' = tmp
          /\ cur' = cur \/ cur' = n + 1
      BY <1>7 DEF RotateCreate
    <2>. QED
      BY <1>1, <2>1 DEF NamesApart
  <1>8. ASSUME Tick \/ CleanupOpen \/ CleanupLock \/ CleanupNothing \/ CleanupUnlock
               \/ RotateOpen \/ RotateLock \/ Crash \/ UNCHANGED vars
        PROVE  UNCHANGED dirs
    BY <1>8 DEF Tick, CleanupOpen, CleanupLock, CleanupNothing, CleanupUnlock, RotateOpen,
                RotateLock, Crash, vars, dirs
  <1>. QED
    BY <1>2, <1>3, <1>4, <1>5, <1>6, <1>7, <1>8 DEF Next, Maintenance

LEMMA MaintHoldsStep == LogAssumption /\ WalBase /\ [Next]_vars => MaintHolds'
  <1> SUFFICES ASSUME LogAssumption, WalBase, [Next]_vars
               PROVE  MaintHolds'
    OBVIOUS
  <1> DEFINE n == Len(files)
  <1>1. /\ WalTypes /\ NamesApart /\ MaintHolds /\ n \in Nat
        /\ cur \in 0..n /\ tmp \in 0..n /\ mt.fd \in 0..n /\ mt \in MaintType(n)
        /\ WalTypes' /\ RotateLen \in Nat \ {0}
    <2>1. WalTypes /\ NamesApart /\ MaintHolds /\ WalTypes'
      BY TypesStep DEF WalBase
    <2>2. RotateLen \in Nat \ {0}
      BY WalAssumption DEF LogAssumption
    <2>. QED
      BY <2>1, <2>2 DEF WalTypes, MaintType
  <1>2. /\ \A i \in 1..n : files[i].lines \in Seq(LineType) /\ Len(files[i].lines) \in Nat
        /\ \A i \in 1..n : Lines(i) = files[i].lines
        /\ Lines(0) = <<>> /\ Len(Lines(0)) = 0
    <2>1. /\ \A i \in 1..n : files[i].lines \in Seq(LineType)
          /\ \A i \in 1..n : Lines(i) = files[i].lines
          /\ Lines(0) = <<>>
      BY <1>1, LinesType
    <2>2. \A ls \in Seq(LineType) : Len(ls) \in Nat
      OBVIOUS
    <2>. QED
      BY <2>1, <2>2
  <1>3. /\ \A i \in 1..Len(files') : /\ Lines(i)' = files'[i].lines
                                      /\ files'[i].lines \in Seq(LineType)
        /\ cur # 0 => cur \in 1..n
    BY <1>1, LinesTypeNext
  \* what does not touch the file of the path nor maintenance
  <1>4. ASSUME mt' = mt, cur # 0 => cur' = cur, tmp' = tmp, Len(files') >= n, Len(files') \in Nat,
               \A k \in 1..n : files[k].flock = Maint => files'[k].flock = Maint,
               \A k \in 1..n : Len(files'[k].lines) >= Len(files[k].lines),
               \A k \in 1..n : Len(files'[k].lines) \in Nat
        PROVE  MaintHolds'
    <2>1. cur # 0 => Lines(cur)' = files'[cur].lines /\ Lines(cur) = files[cur].lines
      BY <1>1, <1>2, <1>3, <1>4 DEF Lines
    <2>2. mt.pc = "cleanupRename" => Lines(cur)' # <<>>
      <3>1. ASSUME mt.pc = "cleanupRename" PROVE Lines(cur)' # <<>>
        <4>1. cur \in 1..n /\ Lines(cur) # <<>>
          BY <1>1, <1>3, <3>1 DEF MaintHolds
        <4>2. Len(files[cur].lines) > 0
          BY <1>2, <4>1
        <4>3. Len(files'[cur].lines) > 0
          BY <1>2, <1>4, <4>1, <4>2
        <4>. QED
          BY <2>1, <4>1, <4>3
      <3>. QED
        BY <3>1
    <2>3. mt.pc \in {"rotateLock", "rotate"} => Len(Lines(cur)') >= RotateLen
      BY <1>1, <1>2, <1>3, <1>4, <2>1 DEF MaintHolds
    <2>. QED
      BY <1>1, <1>3, <1>4, <2>2, <2>3 DEF MaintHolds, InRotationWindow
  <1>5. ASSUME NEW w \in Writers, Writer(w)
        PROVE  MaintHolds'
    <2>1. WriterEffect(w)
      BY <1>5, WriterEffects
    <2>2. Maint \in Owners \ {w, Nobody}
      BY DEF LogAssumption, Owners
    <2>3. Len(files') \in Nat /\ \A k \in 1..n : Len(files'[k].lines) \in Nat
      <3>1. \A k \in 1..Len(files') : files'[k].lines \in Seq(LineType)
        BY <1>3
      <3>2. Len(files') \in Nat /\ \A k \in 1..n : k \in 1..Len(files')
        BY <1>1, <2>1 DEF WalTypes, WriterEffect
      <3>. QED
        BY <3>1, <3>2
    <2>. QED
      BY <1>4, <2>1, <2>2, <2>3 DEF WriterEffect, Grows
  <1>6. CASE UNCHANGED vars
    BY <1>1, <1>6 DEF vars, dirs, MaintHolds, InRotationWindow, Lines
  <1>7. CASE Tick
    BY <1>1, <1>7 DEF Tick, dirs, MaintHolds, InRotationWindow, Lines
  <1>8. CASE CleanupOpen
    BY <1>1, <1>8 DEF CleanupOpen, dirs, MaintHolds, InRotationWindow, Lines
  \* a lock of maintenance is taken or released
  <1>9. ASSUME NEW who \in {Maint, Nobody}, mt.fd # 0, files' = [files EXCEPT ![mt.fd].flock = who]
        PROVE  /\ files'[mt.fd].flock = who
               /\ \A k \in 1..n : files'[k].lines = files[k].lines
    <2>1. mt.fd \in 1..n /\ who \in Owners
      BY <1>1, <1>9 DEF Owners
    <2>. QED
      BY <1>1, <1>9, <2>1, LockIs DEF SameLines
  <1>10. CASE CleanupLock
    BY <1>1, <1>9, <1>10 DEF CleanupLock, Lock, Step, dirs, MaintHolds, InRotationWindow, MaintType
  <1>11. ASSUME CleanupNothing \/ CleanupUnlock \/ Crash
        PROVE  MaintHolds'
    <2>1. mt'.pc \in {"cleaned", "idle"}
      BY <1>1, <1>11 DEF CleanupNothing, CleanupUnlock, Crash, Step, MaintType
    <2>. QED
      BY <2>1 DEF MaintHolds, InRotationWindow
  <1>12. ASSUME NEW ls \in Seq(LineType), WriteTemp(ls), cur # 0
         PROVE  /\ files'[cur].flock = files[cur].flock /\ files'[cur].lines = files[cur].lines
                /\ tmp' # 0
    <2>1. cur \in 1..n /\ cur # tmp
      BY <1>1, <1>12 DEF NamesApart
    <2>2. /\ \A k \in 1..n : files'[k].flock = files[k].flock
          /\ \A k \in 1..n : k # tmp => files'[k].lines = files[k].lines
          /\ tmp' \in 1..Len(files')
      BY <1>1, <1>12, TempIs
    <2>. QED
      BY <2>1, <2>2
  <1>13. ASSUME CleanupWrite \/ CleanupFail
         PROVE  cur # 0 /\ cur' = cur /\ mt.fd = cur /\ files[cur].flock = Maint
    BY <1>1, <1>13 DEF CleanupWrite, CleanupFail, MaintHolds
  <1>14. CASE CleanupFail
    <2>1. PICK ls \in Seq(LineType) : WriteTemp(ls)
      <3>1. PICK c \in Copied : \E k \in 0..Len(c) : WriteTemp(SubSeq(c, 1, k))
        BY <1>14 DEF CleanupFail
      <3>2. PICK k \in 0..Len(c) : WriteTemp(SubSeq(c, 1, k))
        BY <3>1
      <3>3. c \in Seq(LineType)
        BY <1>1, CopyIs
      <3>4. SubSeq(c, 1, k) \in Seq(LineType)
        BY <3>3
      <3>. QED
        BY <3>2, <3>4
    <2>2. files'[cur].flock = Maint
      BY <1>12, <1>13, <1>14, <2>1
    <2>3. mt'.pc = "cleanupError" /\ mt'.fd = cur
      BY <1>1, <1>13, <1>14 DEF CleanupFail, Step, MaintType
    <2>. QED
      BY <1>13, <1>14, <2>2, <2>3 DEF MaintHolds, InRotationWindow
  <1>15. CASE CleanupWrite
    <2>1. PICK ls \in Seq(LineType) : WriteTemp(ls)
      BY <1>1, <1>15, CopyIs DEF CleanupWrite
    <2>2. files'[cur].flock = Maint /\ files'[cur].lines = files[cur].lines /\ tmp' # 0
      BY <1>12, <1>13, <1>15, <2>1
    <2>3. mt'.pc = "cleanupRename" /\ mt'.fd = cur
      BY <1>1, <1>13, <1>15 DEF CleanupWrite, Step, MaintType
    <2>4. Lines(cur) # <<>>
      <3>1. All # <<>>
        <4>1. Kept \in Seq(LineType) /\ All \in Seq(LineType) /\ Len(Kept) < Len(All)
          BY <1>1, <1>15, CopyIs DEF CleanupWrite
        <4>. QED
          BY <4>1
      <3>2. All \in Seq(LineType) /\ 1 \in 1..Len(All) /\ Lines(cur) \in Seq(LineType)
        BY <1>1, <3>1, CopyIs
      <3>3. PICK e : Selects(e, All, Lines(cur), {k \in 1..Len(Lines(cur)) : Parses(Lines(cur)[k])})
        BY <1>1, CopyIs
      <3>4. e[1] \in 1..Len(Lines(cur))
        BY <3>2, <3>3 DEF Selects
      <3>. QED
        BY <3>2, <3>4
    <2>5. Lines(cur)' = Lines(cur)
      BY <1>2, <1>3, <1>13, <1>15, <2>2 DEF Lines
    <2>. QED
      BY <1>13, <1>15, <2>2, <2>3, <2>4, <2>5 DEF MaintHolds, InRotationWindow
  <1>16. CASE CleanupRename
    <2>1. mt'.pc = "cleaned"
      BY <1>1, <1>16 DEF CleanupRename, Step, MaintType
    <2>. QED
      BY <2>1 DEF MaintHolds, InRotationWindow
  <1>17. CASE RotateOpen
    <2>1. Len(Lines(cur)) >= RotateLen => cur # 0
      BY <1>1, <1>2
    <2>2. Lines(cur)' = Lines(cur) /\ cur' = cur
      BY <1>17 DEF RotateOpen, dirs, Lines
    <2>. QED
      BY <1>1, <1>17, <2>1, <2>2 DEF RotateOpen, Step, MaintType, MaintHolds, InRotationWindow
  <1>18. CASE RotateLock
    <2>1. cur # 0 /\ mt.fd = cur /\ cur' = cur /\ Len(Lines(cur)) >= RotateLen
      BY <1>1, <1>18 DEF RotateLock, dirs, MaintHolds
    <2>2. files'[cur].flock = Maint /\ files'[cur].lines = files[cur].lines
      BY <1>3, <1>9, <1>18, <2>1 DEF RotateLock, Lock
    <2>3. Lines(cur)' = Lines(cur)
      BY <2>1, <2>2 DEF Lines
    <2>4. mt'.pc = "rotate" /\ mt'.fd = cur
      BY <1>1, <1>18, <2>1 DEF RotateLock, Step, MaintType
    <2>. QED
      BY <2>1, <2>2, <2>3, <2>4 DEF MaintHolds, InRotationWindow
  <1>19. CASE RotateRename
    <2>1. mt.fd # 0 /\ files[mt.fd].flock = Maint /\ files' = files
      BY <1>1, <1>19 DEF RotateRename, MaintHolds
    <2>2. mt'.pc = "renamed" /\ mt'.fd = mt.fd
      BY <1>1, <1>19 DEF RotateRename, Step, MaintType
    <2>. QED
      BY <2>1, <2>2 DEF MaintHolds, InRotationWindow
  <1>20. CASE RotateCreate
    <2>1. mt'.pc = "idle"
      BY <1>1, <1>20 DEF RotateCreate, Step, MaintType
    <2>. QED
      BY <2>1 DEF MaintHolds, InRotationWindow
  <1>. QED
    BY <1>5, <1>6, <1>7, <1>8, <1>10, <1>11, <1>14, <1>15, <1>16, <1>17, <1>18, <1>19, <1>20
       DEF Next, Maintenance

\* What a step of maintenance leaves: the lines, but for those of a path that appeared before
\* rotation empties it; the locks and the fields of writers, which may only become late.
SameFields(w) ==
    /\ wr'[w].pc = wr[w].pc /\ wr'[w].fd = wr[w].fd
    /\ wr'[w].seq = wr[w].seq /\ wr'[w].sent = wr[w].sent
    /\ wr[w].late => wr'[w].late
MaintenanceEffect ==
    /\ UNCHANGED <<clock, acked, exposed>>
    /\ Len(files') >= Len(files)
    /\ \A k \in 1..Len(files) :
           ~ (InRotationWindow /\ k = cur) => Grows(files[k].lines, files'[k].lines)
    /\ tmp' \in {0, tmp, Len(files) + 1}
    /\ Crash \/ \A w \in Writers :
           /\ SameFields(w)
           /\ \A k \in 1..Len(files) : files[k].flock = w => files'[k].flock = w

LEMMA MaintenanceEffects == LogAssumption /\ WalBase /\ Maintenance => MaintenanceEffect
  <1> SUFFICES ASSUME LogAssumption, WalBase, Maintenance
               PROVE  MaintenanceEffect
    OBVIOUS
  <1> DEFINE n == Len(files)
  <1>1. /\ WalTypes /\ NamesApart /\ MaintHolds /\ n \in Nat
        /\ cur \in 0..n /\ tmp \in 0..n /\ mt.fd \in 0..n
        /\ \A i \in 1..n : files[i].lines \in Seq(LineType) /\ Len(files[i].lines) \in Nat
    <2>1. \A i \in 1..n : files[i].lines \in Seq(LineType)
      BY LinesType DEF WalBase
    <2>2. \A ls \in Seq(LineType) : Len(ls) \in Nat
      OBVIOUS
    <2>. QED
      BY <2>1, <2>2 DEF WalBase, WalTypes, MaintType
  <1>2. \A i \in 1..n : Grows(files[i].lines, files[i].lines)
    BY <1>1 DEF Grows
  <1>3. ASSUME UNCHANGED <<files, clock, acked, exposed, wr>>, tmp' = tmp
        PROVE  MaintenanceEffect
    BY <1>1, <1>2, <1>3 DEF MaintenanceEffect, SameFields
  <1>4. ASSUME NEW i
        PROVE  Strand(i) => \A w \in Writers : SameFields(w)
    <2> SUFFICES ASSUME Strand(i), NEW w \in Writers
                 PROVE  SameFields(w)
      OBVIOUS
    <2>1. wr[w] \in WriterType(n) /\ (wr'[w] = wr[w] \/ wr'[w] = [wr[w] EXCEPT !.late = TRUE])
      BY <1>1 DEF Strand, WalTypes
    <2>. QED
      BY <2>1 DEF SameFields, WriterType
  \* maintenance takes free locks only, and releases its own
  <1>5. ASSUME NEW who \in {Maint, Nobody}, mt.fd # 0, files' = [files EXCEPT ![mt.fd].flock = who],
               files[mt.fd].flock \in {Maint, Nobody}
        PROVE  /\ Len(files') = n /\ \A k \in 1..n : Grows(files[k].lines, files'[k].lines)
               /\ \A w \in Writers : \A k \in 1..n : files[k].flock = w => files'[k].flock = w
    <2>1. mt.fd \in 1..n /\ who \in Owners
      BY <1>1, <1>5 DEF Owners
    <2>2. /\ \A k \in 1..n : files'[k].lines = files[k].lines
          /\ \A k \in 1..n : files'[k].flock = IF k = mt.fd THEN who ELSE files[k].flock
          /\ Len(files') = n
      BY <1>1, <1>5, <2>1, LockIs DEF SameLines
    <2>. QED
      BY <1>2, <1>5, <2>2, WalAssumption DEF LogAssumption
  <1>6. CASE CleanupLock \/ RotateLock
    <2>1. mt.fd # 0 /\ files[mt.fd].flock = Nobody /\ files' = [files EXCEPT ![mt.fd].flock = Maint]
      BY <1>1, <1>6 DEF CleanupLock, RotateLock, Lock, MaintHolds
    <2>2. /\ Len(files') = n /\ \A k \in 1..n : Grows(files[k].lines, files'[k].lines)
          /\ \A w \in Writers : \A k \in 1..n : files[k].flock = w => files'[k].flock = w
      BY <1>5, <2>1
    <2>. QED
      BY <1>1, <1>6, <2>2 DEF CleanupLock, RotateLock, dirs, histories, MaintenanceEffect, SameFields
  <1>7. CASE CleanupNothing \/ CleanupUnlock \/ CleanupRename
    <2>1. mt.fd # 0 /\ files[mt.fd].flock = Maint /\ files' = [files EXCEPT ![mt.fd].flock = Nobody]
      BY <1>1, <1>7 DEF CleanupNothing, CleanupUnlock, CleanupRename, MaintHolds
    <2>2. /\ Len(files') = n /\ \A k \in 1..n : Grows(files[k].lines, files'[k].lines)
          /\ \A w \in Writers : \A k \in 1..n : files[k].flock = w => files'[k].flock = w
      BY <1>5, <2>1
    <2>3. \A w \in Writers : SameFields(w)
      <3>1. wr' = wr => \A w \in Writers : SameFields(w)
        BY DEF SameFields
      <3>. QED
        BY <1>4, <1>7, <3>1 DEF CleanupNothing, CleanupUnlock, CleanupRename
    <2>4. UNCHANGED <<clock, acked, exposed>> /\ tmp' \in {0, tmp}
      BY <1>7 DEF CleanupNothing, CleanupUnlock, CleanupRename, dirs, histories
    <2>. QED
      BY <1>1, <2>2, <2>3, <2>4 DEF MaintenanceEffect
  <1>8. CASE CleanupWrite \/ CleanupFail
    <2>1. PICK ls \in Seq(LineType) : WriteTemp(ls)
      <3>1. CASE CleanupWrite
        BY <1>1, <3>1, CopyIs DEF CleanupWrite
      <3>2. CASE CleanupFail
        <4>1. PICK c \in Copied : \E k \in 0..Len(c) : WriteTemp(SubSeq(c, 1, k))
          BY <3>2 DEF CleanupFail
        <4>2. PICK k \in 0..Len(c) : WriteTemp(SubSeq(c, 1, k))
          BY <4>1
        <4>3. c \in Seq(LineType)
          BY <1>1, CopyIs
        <4>4. SubSeq(c, 1, k) \in Seq(LineType)
          BY <4>3
        <4>. QED
          BY <4>2, <4>4
      <3>. QED
        BY <1>8, <3>1, <3>2
    <2>2. /\ \A k \in 1..n : files'[k].flock = files[k].flock
          /\ \A k \in 1..n : k # tmp => files'[k].lines = files[k].lines
          /\ Len(files') >= n
          /\ tmp = 0 => tmp' = n + 1
          /\ tmp # 0 => tmp' = tmp /\ files'[tmp].lines = files[tmp].lines \o ls
      <3>1. /\ \A k \in 1..n : files'[k].flock = files[k].flock
            /\ \A k \in 1..n : k # tmp => files'[k].lines = files[k].lines
            /\ Len(files') >= n
            /\ tmp = 0 => tmp' = n + 1
            /\ tmp # 0 => tmp' = tmp /\ files'[tmp'].lines = files[tmp].lines \o ls
        BY <1>1, <2>1, TempIs
      <3>. QED
        BY <3>1
    <2>3. tmp # 0 => Grows(files[tmp].lines, files[tmp].lines \o ls)
      <3>1. ASSUME NEW a \in Seq(LineType) PROVE Grows(a, a \o ls)
        BY DEF Grows
      <3>. QED
        BY <1>1, <3>1
    <2>4. ASSUME NEW k \in 1..n PROVE Grows(files[k].lines, files'[k].lines)
      <3>1. CASE k = tmp
        <4>1. tmp # 0
          BY <1>1, <3>1
        <4>2. files'[tmp].lines = files[tmp].lines \o ls
          BY <2>2, <4>1
        <4>. QED
          BY <2>3, <3>1, <4>1, <4>2
      <3>2. CASE k # tmp
        <4>1. files'[k].lines = files[k].lines
          BY <2>2, <3>2
        <4>. QED
          BY <1>2, <4>1
      <3>. QED
        BY <3>1, <3>2
    <2>5. UNCHANGED <<clock, acked, exposed, wr>>
      BY <1>8 DEF CleanupWrite, CleanupFail, histories
    <2>. QED
      BY <2>2, <2>4, <2>5 DEF MaintenanceEffect, SameFields
  <1>9. CASE RotateRename
    <2>1. \A w \in Writers : SameFields(w)
      BY <1>4, <1>9 DEF RotateRename
    <2>. QED
      BY <1>1, <1>2, <1>9, <2>1 DEF RotateRename, MaintenanceEffect
  <1>10. CASE RotateCreate
    <2>1. mt.fd \in 1..n /\ files[mt.fd].flock = Maint /\ InRotationWindow
      BY <1>1, <1>10 DEF RotateCreate, MaintHolds, InRotationWindow
    <2>2. /\ Len(files') >= n
          /\ \A k \in 1..n : /\ files'[k].lines = IF k = cur THEN <<>> ELSE files[k].lines
                             /\ files'[k].flock = IF k = mt.fd THEN Nobody ELSE files[k].flock
      BY <1>1, <1>10, <2>1, EmptiedIs
    <2>. QED
      BY <1>2, <1>10, <2>1, <2>2 DEF RotateCreate, histories, LogAssumption, MaintenanceEffect,
                                      SameFields
  <1>11. CASE Crash
    <2>1. Len(files') = n /\ \A k \in 1..n : files'[k].lines = files[k].lines
      BY <1>1, <1>11, CrashIs DEF SameLines
    <2>. QED
      BY <1>1, <1>2, <1>11, <2>1 DEF Crash, dirs, histories, MaintenanceEffect
  <1>12. CASE CleanupOpen \/ RotateOpen
    BY <1>3, <1>12 DEF CleanupOpen, RotateOpen, dirs, histories
  <1>. QED
    BY <1>6, <1>7, <1>8, <1>9, <1>10, <1>11, <1>12 DEF Maintenance

LEMMA WriterHoldsStep ==
    LogAssumption /\ WalBase /\ [Next]_vars => \A w \in Writers : WriterHolds(w)'
  <1> SUFFICES ASSUME LogAssumption, WalBase, [Next]_vars, NEW w \in Writers
               PROVE  WriterHolds(w)'
    OBVIOUS
  <1> DEFINE n == Len(files)
  <1>1. /\ WalTypes /\ NamesApart /\ WriterHolds(w) /\ n \in Nat /\ tmp \in 0..n /\ cur \in 0..n
        /\ wr \in [Writers -> WriterType(n)] /\ wr[w] \in WriterType(n) /\ wr[w].fd \in 0..n
        /\ w \in Owners /\ w # Nobody /\ w # Maint
    <2>1. wr \in [Writers -> WriterType(n)] /\ wr[w] \in WriterType(n)
      BY DEF WalBase, WalTypes
    <2>2. wr[w].fd \in 0..n
      BY <2>1 DEF WriterType
    <2>. QED
      BY <2>1, <2>2, WalAssumption, LinesType DEF WalBase, WalTypes, Owners, LogAssumption
  <1>2. CASE UNCHANGED vars
    BY <1>1, <1>2 DEF vars, dirs, WriterHolds, Alive, Opened
  <1>3. CASE Tick
    BY <1>1, <1>3 DEF Tick, dirs, WriterHolds, Alive, Opened
  <1>4. ASSUME NEW v \in Writers, Writer(v), v # w
        PROVE  WriterHolds(w)'
    <2>1. ~ Alive(w) /\ wr'[w] = wr[w]
      BY <1>4, WriterEffects DEF WriterEffect
    <2>. QED
      BY <2>1 DEF WriterHolds, Alive, Opened
  <1>5. ASSUME Writer(w)
        PROVE  WriterHolds(w)'
    <2>1. /\ \A v \in Writers \ {w} : ~ Alive(v) /\ wr'[v] = wr[v]
          /\ tmp' = tmp
      BY <1>5, WriterEffects DEF WriterEffect
    <2>2. \A v \in Writers \ {w} : ~ Alive(v)'
      BY <2>1 DEF Alive
    <2>3. CASE CreateNew(w) \/ CreateOpen(w) \/ AppendOpen(w)
      <3>1. ASSUME NEW label \in {"createOpen", "createLock", "appendLock"}, OpenPath(w, label)
            PROVE  WriterHolds(w)'
        <4>1. /\ cur # 0 => cur' = cur
              /\ cur = 0 => cur' = n + 1
              /\ wr' = [wr EXCEPT ![w] = [wr[w] EXCEPT !.pc = label, !.fd = cur', !.late = InRotationWindow]]
          BY <1>1, <3>1, OpenIs
        <4>2. wr'[w].fd = cur' /\ wr'[w].pc = label
          BY <1>1, <4>1 DEF WriterType
        <4>3. cur' # 0 /\ cur' # tmp
          BY <1>1, <4>1 DEF NamesApart
        <4>. QED
          BY <2>1, <2>2, <3>1, <4>2, <4>3 DEF WriterHolds, Opened
      <3>2. CASE CreateOpen(w) /\ cur = 0
        <4>1. wr'[w].pc = "ready"
          BY <1>1, <3>2 DEF CreateOpen, WriterType
        <4>. QED
          BY <2>2, <4>1 DEF WriterHolds, Opened
      <3>. QED
        BY <2>3, <3>1, <3>2 DEF CreateNew, CreateOpen, AppendOpen
    <2>4. CASE WriterLock(w)
      <3>1. wr'[w].fd = wr[w].fd /\ wr[w].fd # 0 /\ wr[w].fd # tmp
        BY <1>1, <2>4 DEF WriterLock, WriterType, WriterHolds, Opened
      <3>2. files' = [files EXCEPT ![wr[w].fd].flock = w] /\ wr[w].fd \in 1..n
        BY <1>1, <2>4, <3>1 DEF WriterLock, Lock
      <3>3. files'[wr[w].fd].flock = w
        BY <1>1, <3>2, LockIs
      <3>. QED
        BY <2>1, <2>2, <3>1, <3>3 DEF WriterHolds, Opened
    <2>5. CASE CreateMarker(w) \/ AppendWrite(w) \/ AppendFail(w) \/ Close(w)
      <3>1. wr'[w].pc \in {"ready", "closed"}
        BY <1>1, <2>5 DEF CreateMarker, AppendWrite, AppendFail, Close, WriterType
      <3>. QED
        BY <2>2, <3>1 DEF WriterHolds, Opened
    <2>. QED
      BY <1>5, <2>3, <2>4, <2>5 DEF Writer
  <1>6. CASE Maintenance /\ ~ Crash
    <2>1. MaintenanceEffect
      BY <1>6, MaintenanceEffects
    <2>2. /\ \A v \in Writers : SameFields(v)
          /\ \A k \in 1..n : files[k].flock = w => files'[k].flock = w
          /\ tmp' \in {0, tmp, n + 1}
      BY <1>6, <2>1 DEF MaintenanceEffect
    <2>3. \A v \in Writers : wr'[v].pc = wr[v].pc /\ wr'[v].fd = wr[v].fd
      BY <2>2 DEF SameFields
    <2>4. wr[w].fd # 0 => wr[w].fd \in 1..n
      BY <1>1
    <2>5. wr[w].fd # 0 /\ wr[w].fd # tmp => wr[w].fd # tmp'
      BY <1>1, <2>2
    <2>6. \A v \in Writers : Alive(v)' <=> Alive(v)
      BY <2>3 DEF Alive
    <2>7. Opened(w)' <=> Opened(w)
      BY <2>3 DEF Opened
    <2>8. wr[w].pc \in {"createWrite", "appendWrite"} => Opened(w)
      BY DEF Opened
    <2>. QED
      BY <1>1, <2>2, <2>3, <2>4, <2>5, <2>6, <2>7, <2>8 DEF WriterHolds
  <1>7. CASE Crash
    <2>1. wr' = [v \in Writers |-> IF v \in Dead THEN [wr[v] EXCEPT !.pc = "closed"] ELSE wr[v]]
      BY <1>1, <1>7, CrashIs
    <2>2. wr'[w].pc \in {"none", "closed"}
      BY <1>1, <2>1 DEF Dead, LogAssumption, WriterType
    <2>. QED
      BY <2>2 DEF WriterHolds, Alive, Opened
  <1>. QED
    BY <1>2, <1>3, <1>4, <1>5, <1>6, <1>7 DEF Next

LEMMA PendingWhereStep ==
    LogAssumption /\ WalBase /\ [Next]_vars => \A w \in Writers : PendingWhere(w)'
  <1> SUFFICES ASSUME LogAssumption, WalBase, [Next]_vars, NEW w \in Writers
               PROVE  PendingWhere(w)'
    OBVIOUS
  <1> DEFINE n == Len(files)
  <1>1. /\ WalTypes /\ NamesApart /\ MaintHolds /\ WriterHolds(w) /\ PendingWhere(w)
        /\ n \in Nat /\ tmp \in 0..n /\ cur \in 0..n /\ wr \in [Writers -> WriterType(n)]
        /\ wr[w] \in WriterType(n) /\ wr[w].fd \in 0..n /\ w # Maint
        /\ RotateLen \in Nat \ {0} /\ MaxRotations \in Nat \ {0}
        /\ \A i \in 1..MaxRotations : arch[i] \in 0..n
        /\ Lines(0) = <<>>
    <2>1. wr \in [Writers -> WriterType(n)] /\ wr[w] \in WriterType(n)
      BY DEF WalBase, WalTypes
    <2>2. wr[w].fd \in 0..n
      BY <2>1 DEF WriterType
    <2>3. Lines(0) = <<>> /\ n \in Nat
      BY LinesType DEF WalBase
    <2>4. WalTypes /\ NamesApart /\ MaintHolds /\ WriterHolds(w) /\ PendingWhere(w)
      BY DEF WalBase
    <2>5. w # Maint /\ RotateLen \in Nat \ {0} /\ MaxRotations \in Nat \ {0}
      BY WalAssumption DEF LogAssumption
    <2>6. tmp \in 0..n /\ cur \in 0..n /\ \A i \in 1..MaxRotations : arch[i] \in 0..n
      BY <2>4, <2>5 DEF WalTypes
    <2>. QED
      BY <2>1, <2>2, <2>3, <2>4, <2>5, <2>6
  <1>2. Pending(w) => Opened(w) /\ Alive(w) /\ wr[w].fd \in 1..n /\ wr[w].fd # tmp
    BY <1>1 DEF Pending, Opened, Alive, WriterHolds
  <1>3. ASSUME Pending(w)' => Pending(w) /\ wr'[w].sent = wr[w].sent /\ wr'[w].fd = wr[w].fd
                              /\ (wr[w].late => wr'[w].late),
               cur' = cur, arch' = arch, Lines(cur)' = Lines(cur),
               InRotationWindow' => InRotationWindow
        PROVE  PendingWhere(w)'
    BY <1>1, <1>3 DEF PendingWhere
  <1>4. CASE UNCHANGED vars \/ Tick
    BY <1>3, <1>4 DEF vars, dirs, Tick, Pending, InRotationWindow, Lines
  <1>5. ASSUME NEW v \in Writers, Writer(v), v # w
        PROVE  PendingWhere(w)'
    <2>1. ~ Alive(w) /\ wr'[w] = wr[w]
      BY <1>5, WriterEffects DEF WriterEffect
    <2>. QED
      BY <2>1 DEF PendingWhere, Pending, Alive
  <1>6. ASSUME Writer(w)
        PROVE  PendingWhere(w)'
    <2>1. CASE AppendOpen(w)
      <3>1. /\ wr' = [wr EXCEPT ![w] = [wr[w] EXCEPT !.pc = "appendLock", !.fd = cur', !.late = InRotationWindow]]
            /\ mt' = mt
        BY <1>1, <2>1, OpenIs DEF AppendOpen
      <3>2. wr'[w].fd = cur' /\ wr'[w].late = InRotationWindow /\ wr'[w].sent = wr[w].sent
        BY <1>1, <3>1 DEF WriterType
      <3>. QED
        BY <2>1, <3>1, <3>2 DEF AppendOpen, PendingWhere, InRotationWindow
    <2>2. CASE WriterLock(w)
      <3>1. /\ Pending(w)' => Pending(w)
            /\ wr'[w].fd = wr[w].fd /\ wr'[w].sent = wr[w].sent /\ wr'[w].late = wr[w].late
        BY <1>1, <2>2 DEF WriterLock, WriterType, Pending
      <3>2. wr[w].fd \in 1..n
        BY <1>1, <2>2 DEF WriterLock, WriterHolds, Opened
      <3>3. w \in Owners /\ files' = [files EXCEPT ![wr[w].fd].flock = w]
        BY <2>2 DEF WriterLock, Lock, Owners
      <3>4. \A k \in 1..n : files'[k].lines = files[k].lines
        BY <1>1, <3>2, <3>3, LockIs DEF SameLines
      <3>5. UNCHANGED <<cur, arch, mt>>
        BY <2>2 DEF WriterLock, dirs
      <3>6. Lines(cur)' = Lines(cur)
        BY <1>1, <3>4, <3>5 DEF Lines
      <3>. QED
        BY <1>3, <3>1, <3>5, <3>6 DEF InRotationWindow
    <2>3. ASSUME CreateNew(w) \/ CreateOpen(w) \/ CreateMarker(w) \/ AppendWrite(w) \/ AppendFail(w)
                 \/ Close(w)
          PROVE  PendingWhere(w)'
      <3>1. wr'[w].pc \in {"createOpen", "createLock", "ready", "closed"}
        BY <1>1, <2>3 DEF CreateNew, CreateOpen, OpenPath, CreateMarker, AppendWrite, AppendFail,
                          Close, WriterType
      <3>. QED
        BY <3>1 DEF PendingWhere, Pending
    <2>. QED
      BY <1>6, <2>1, <2>2, <2>3 DEF Writer
  <1>7. CASE Crash
    <2>1. wr' = [v \in Writers |-> IF v \in Dead THEN [wr[v] EXCEPT !.pc = "closed"] ELSE wr[v]]
      BY <1>1, <1>7, CrashIs
    <2>2. wr'[w].pc \in {"none", "closed"}
      BY <1>1, <2>1 DEF Dead, LogAssumption, WriterType
    <2>. QED
      BY <2>2 DEF PendingWhere, Pending
  <1>8. ASSUME Maintenance, ~ Crash
        PROVE  SameFields(w) /\ (Pending(w)' <=> Pending(w))
    <2>1. SameFields(w)
      BY <1>8, MaintenanceEffects DEF MaintenanceEffect
    <2>. QED
      BY <2>1 DEF SameFields, Pending
  <1>9. ASSUME \/ CleanupOpen \/ CleanupLock \/ CleanupNothing \/ CleanupUnlock \/ CleanupWrite
               \/ CleanupFail \/ RotateOpen \/ RotateLock
        PROVE  PendingWhere(w)'
    <2>1. Maintenance
      BY <1>9 DEF Maintenance
    <2>2. cur' = cur /\ arch' = arch /\ ~ InRotationWindow'
      <3>1. cur' = cur /\ arch' = arch
        BY <1>9 DEF CleanupOpen, CleanupLock, CleanupNothing, CleanupUnlock, CleanupWrite,
                    CleanupFail, RotateOpen, RotateLock, dirs
      <3>2. mt'.pc # "renamed"
        <4>1. CASE CleanupOpen
          BY <1>1, <4>1 DEF CleanupOpen, WalTypes, MaintType
        <4>2. CASE RotateOpen
          BY <1>1, <4>2 DEF RotateOpen, Step, WalTypes, MaintType
        <4>3. CASE CleanupLock \/ CleanupNothing \/ CleanupUnlock \/ RotateLock
          BY <1>1, <4>3 DEF CleanupLock, CleanupNothing, CleanupUnlock, RotateLock, Step, WalTypes,
                            MaintType
        <4>4. CASE CleanupWrite \/ CleanupFail
          BY <1>1, <4>4 DEF CleanupWrite, CleanupFail, Step, WalTypes, MaintType
        <4>. QED
          BY <1>9, <4>1, <4>2, <4>3, <4>4
      <3>. QED
        BY <3>1, <3>2 DEF InRotationWindow
    <2>3. wr' = wr
      BY <1>9 DEF CleanupOpen, CleanupLock, CleanupNothing, CleanupUnlock, CleanupWrite,
            CleanupFail, RotateOpen, RotateLock
    <2>4. Lines(cur)' = Lines(cur)
      <3>1. CASE CleanupOpen \/ RotateOpen
        BY <3>1 DEF CleanupOpen, RotateOpen, dirs, Lines
      <3>2. CASE CleanupLock \/ CleanupNothing \/ CleanupUnlock \/ RotateLock
        <4>1. cur \in 1..n /\ mt.fd = cur
          BY <1>1, <3>2 DEF CleanupLock, CleanupNothing, CleanupUnlock, RotateLock, MaintHolds
        <4>2. \E who \in Owners : files' = [files EXCEPT ![cur].flock = who]
          BY <3>2, <4>1 DEF CleanupLock, CleanupNothing, CleanupUnlock, RotateLock, Lock, Owners
        <4>3. files'[cur].lines = files[cur].lines
          BY <1>1, <4>1, <4>2, LockIs DEF SameLines
        <4>. QED
          BY <2>2, <4>1, <4>3 DEF Lines
      <3>3. CASE CleanupWrite \/ CleanupFail
        <4>1. cur \in 1..n /\ cur # tmp
          BY <1>1, <3>3 DEF CleanupWrite, CleanupFail, MaintHolds, NamesApart
        <4>2. PICK ls \in Seq(LineType) : WriteTemp(ls)
          <5>1. CASE CleanupWrite
            BY <1>1, <5>1, CopyIs DEF CleanupWrite
          <5>2. CASE CleanupFail
            <6>1. PICK c \in Copied : \E k \in 0..Len(c) : WriteTemp(SubSeq(c, 1, k))
              BY <5>2 DEF CleanupFail
            <6>2. PICK k \in 0..Len(c) : WriteTemp(SubSeq(c, 1, k))
              BY <6>1
            <6>3. c \in Seq(LineType)
              BY <1>1, CopyIs
            <6>4. SubSeq(c, 1, k) \in Seq(LineType)
              BY <6>3
            <6>. QED
              BY <6>2, <6>4
          <5>. QED
            BY <3>3, <5>1, <5>2
        <4>3. \A k \in 1..n : k # tmp => files'[k].lines = files[k].lines
          BY <1>1, <4>2, TempIs
        <4>. QED
          BY <2>2, <4>1, <4>3 DEF Lines
      <3>. QED
        BY <1>9, <3>1, <3>2, <3>3
    <2>5. Pending(w)' <=> Pending(w)
      BY <2>3 DEF Pending
    <2>. QED
      BY <1>3, <2>2, <2>3, <2>4, <2>5
  <1>10. CASE CleanupRename /\ Pending(w) /\ ~ Crash
    <2>1. /\ cur' = tmp /\ arch' = arch /\ ~ InRotationWindow'
          /\ cur # 0 /\ files[cur].flock = Maint /\ Lines(cur) # <<>>
      BY <1>1, <1>10 DEF CleanupRename, Step, InRotationWindow, MaintHolds, WalTypes, MaintType
    <2>2. SameFields(w)
      BY <1>8, <1>10 DEF Maintenance
    <2>3. CASE wr[w].fd = cur
      <3>1. wr[w].pc = "appendLock"
        BY <1>1, <1>10, <2>1, <2>3 DEF WriterHolds, Pending
      <3>2. wr'[w].late
        BY <1>1, <1>10, <2>3, <3>1 DEF CleanupRename, Strand, WriterType
      <3>3. \A i \in 1..MaxRotations : arch[i] # wr[w].fd
        BY <1>1, <2>1, <2>3 DEF NamesApart
      <3>. QED
        BY <1>1, <1>2, <1>10, <2>1, <2>2, <3>2, <3>3 DEF SameFields, PendingWhere
    <2>4. CASE wr[w].late /\ wr[w].fd # cur /\ \A i \in 1..MaxRotations : arch[i] # wr[w].fd
      BY <1>1, <1>2, <1>10, <2>1, <2>2, <2>4 DEF SameFields, PendingWhere
    <2>. QED
      BY <1>1, <1>10, <2>1, <2>3, <2>4 DEF PendingWhere
  <1>11. CASE RotateRename /\ Pending(w) /\ ~ Crash
    <2>1. /\ cur' = 0 /\ cur # 0 /\ Len(Lines(cur)) >= RotateLen
          /\ arch' = [i \in 1..MaxRotations |->
                        IF i = 1 THEN cur ELSE IF arch[i - 1] # 0 THEN arch[i - 1] ELSE arch[i]]
      BY <1>1, <1>11 DEF RotateRename, MaintHolds
    <2>2. SameFields(w)
      BY <1>8, <1>11 DEF Maintenance
    <2>3. arch'[1] = cur
      BY <1>1, <2>1
    <2>4. Lines(cur)' = <<>>
      BY <2>1 DEF Lines
    <2>5. CASE wr[w].fd = cur
      BY <1>1, <1>2, <1>11, <2>1, <2>2, <2>3, <2>4, <2>5 DEF SameFields, PendingWhere
    <2>6. CASE wr[w].late /\ wr[w].fd # cur /\ \A i \in 1..MaxRotations : arch[i] # wr[w].fd
      <3>1. ASSUME NEW i \in 1..MaxRotations PROVE arch'[i] # wr[w].fd
        <4>1. i # 1 => i - 1 \in 1..MaxRotations
          BY <1>1
        <4>. QED
          BY <2>1, <2>6, <4>1
      <3>. QED
        BY <1>1, <1>2, <1>11, <2>1, <2>2, <2>6, <3>1 DEF SameFields, PendingWhere
    <2>7. Lines(cur) # <<>>
      <3>1. Lines(cur) = <<>> => Len(Lines(cur)) = 0
        OBVIOUS
      <3>. QED
        BY <1>1, <2>1, <3>1
    <2>. QED
      BY <1>1, <1>11, <2>5, <2>6, <2>7 DEF PendingWhere
  <1>12. CASE RotateCreate /\ Pending(w) /\ ~ Crash
    <2>1. mt.fd \in 1..n /\ ~ InRotationWindow' /\ arch' = arch
      BY <1>1, <1>12 DEF RotateCreate, MaintHolds, InRotationWindow, Step, WalTypes, MaintType
    <2>2. SameFields(w)
      BY <1>8, <1>12 DEF Maintenance
    <2>3. /\ files'[cur'].lines = <<>> /\ cur' # 0
          /\ cur # 0 => cur' = cur
          /\ cur = 0 => cur' = n + 1
      BY <1>1, <1>12, <2>1, EmptiedIs
    <2>4. Lines(cur)' = <<>>
      BY <2>3 DEF Lines
    <2>. QED
      BY <1>1, <1>2, <1>12, <2>1, <2>2, <2>3, <2>4 DEF SameFields, PendingWhere
  <1>13. CASE Maintenance /\ ~ Crash /\ ~ Pending(w)
    BY <1>8, <1>13 DEF PendingWhere
  <1>. QED
    BY <1>4, <1>5, <1>6, <1>7, <1>9, <1>10, <1>11, <1>12, <1>13 DEF Next, Maintenance

\* The base holds always.
LEMMA BaseStep == LogAssumption /\ WalBase /\ [Next]_vars => WalBase'
  BY TypesStep, NamesStep, MaintHoldsStep, WriterHoldsStep, PendingWhereStep DEF WalBase

-----------------------------------------------------------------------------
(* What is lost is explained                                               *)

LEMMA EventsGrow ==
    ASSUME NEW a \in Seq(LineType), NEW b \in Seq(LineType), Grows(a, b)
    PROVE  /\ EventsIn(a) \subseteq EventsIn(b)
           /\ \A i \in 1..Len(a) : a[i].kind = "event" => i \in 1..Len(b) /\ b[i] = a[i]
  <1>1. DOMAIN a = 1..Len(a) /\ DOMAIN b = 1..Len(b) /\ Len(a) \in Nat /\ Len(b) \in Nat
    OBVIOUS
  <1>2. \A i \in 1..Len(a) : a[i].kind = "event" => i \in 1..Len(b) /\ b[i] = a[i]
    BY <1>1 DEF Grows
  <1>. QED
    BY <1>1, <1>2 DEF EventsIn

\* What every step leaves: the events of files, histories and reasons to lose an event.
LEMMA StepGrows ==
    ASSUME LogAssumption, WalBase, [Next]_vars
    PROVE  /\ Len(files') >= Len(files) /\ clock \in Nat /\ clock' \in Nat /\ clock' >= clock
           /\ \A k \in 1..Len(files) :
                 ~ (InRotationWindow /\ k = cur) => Grows(files[k].lines, files'[k].lines)
           /\ exposed \subseteq exposed' /\ rotatedOut \subseteq rotatedOut'
  <1> DEFINE n == Len(files)
  <1>1. /\ WalTypes /\ WalTypes' /\ n \in Nat
        /\ \A i \in 1..n : files[i].lines \in Seq(LineType) /\ Len(files[i].lines) \in Nat
        /\ clock \in Nat /\ clock' \in Nat
    <2>1. WalTypes /\ WalTypes'
      BY TypesStep DEF WalBase
    <2>2. n \in Nat /\ \A i \in 1..n : files[i].lines \in Seq(LineType)
      BY <2>1, LinesType
    <2>3. \A ls \in Seq(LineType) : Len(ls) \in Nat
      OBVIOUS
    <2>. QED
      BY <2>1, <2>2, <2>3 DEF WalTypes
  <1>2. \A i \in 1..n : Grows(files[i].lines, files[i].lines)
    BY <1>1 DEF Grows
  <1>3. CASE UNCHANGED vars
    BY <1>1, <1>2, <1>3 DEF vars, histories
  <1>4. CASE Tick
    BY <1>1, <1>2, <1>4 DEF Tick, histories
  <1>5. ASSUME NEW w \in Writers, Writer(w)
        PROVE  exposed \subseteq exposed' /\ rotatedOut' = rotatedOut /\ clock' = clock
               /\ Len(files') >= n /\ \A k \in 1..n : Grows(files[k].lines, files'[k].lines)
    <2>1. exposed \subseteq exposed'
      BY <1>5 DEF Writer, CreateNew, CreateOpen, WriterLock, CreateMarker, AppendOpen, AppendWrite,
                  AppendFail, Close, histories
    <2>. QED
      BY <1>5, <2>1, WriterEffects DEF WriterEffect
  <1>6. CASE Maintenance
    <2>1. MaintenanceEffect
      BY <1>6, MaintenanceEffects
    <2>2. rotatedOut \subseteq rotatedOut'
      BY <1>6 DEF Maintenance, CleanupOpen, CleanupLock, CleanupNothing, CleanupWrite, CleanupRename,
                  CleanupFail, CleanupUnlock, RotateOpen, RotateLock, RotateRename, RotateCreate,
                  Crash, histories
    <2>. QED
      BY <1>1, <2>1, <2>2 DEF MaintenanceEffect
  <1>. QED
    BY <1>1, <1>3, <1>4, <1>5, <1>6 DEF Next

LEMMA ExpiredGrows ==
    ASSUME LogAssumption, WalBase, [Next]_vars
    PROVE  /\ ~ InRotationWindow => Expired \subseteq Expired'
           /\ Explained => MayLose \subseteq MayLose'
  <1> DEFINE n == Len(files)
  <1>1. /\ WalTypes /\ WalTypes' /\ n \in Nat /\ Len(files') \in Nat /\ Len(files') >= n
        /\ \A i \in 1..n : files[i].lines \in Seq(LineType) /\ Lines(i) = files[i].lines
        /\ \A i \in 1..Len(files') : files'[i].lines \in Seq(LineType)
        /\ DOMAIN files = 1..n /\ DOMAIN files' = 1..Len(files')
        /\ MaxAge \in Nat /\ clock \in Nat /\ clock' \in Nat /\ clock' >= clock
        /\ exposed \subseteq exposed' /\ rotatedOut \subseteq rotatedOut'
    <2>1. WalTypes /\ WalTypes'
      BY TypesStep DEF WalBase
    <2>. QED
      BY <2>1, LinesType, LinesTypeNext, StepGrows, WalAssumption
  <1>2. ASSUME NEW e \in Expired, ~ (e \in Expired')
        PROVE  InRotationWindow /\ (Explained => e \in exposed)
    <2>1. PICK i \in 1..n : \E k \in DOMAIN files[i].lines :
               files[i].lines[k].kind = "event"
               /\ <<files[i].lines[k].w, files[i].lines[k].n>> = e /\ ~ Fresh(files[i].lines[k])
      BY <1>1, <1>2 DEF Expired
    <2>2. PICK k \in DOMAIN files[i].lines :
               files[i].lines[k].kind = "event"
               /\ <<files[i].lines[k].w, files[i].lines[k].n>> = e /\ ~ Fresh(files[i].lines[k])
      BY <2>1
    <2>3. ~ Grows(files[i].lines, files'[i].lines)
      <3>1. ASSUME Grows(files[i].lines, files'[i].lines) PROVE FALSE
        <4>1. files[i].lines \in Seq(LineType) /\ files'[i].lines \in Seq(LineType) /\ i \in 1..Len(files')
          BY <1>1
        <4>2. DOMAIN files[i].lines = 1..Len(files[i].lines) /\ DOMAIN files'[i].lines = 1..Len(files'[i].lines)
          BY <4>1
        <4>3. k \in 1..Len(files'[i].lines) /\ files'[i].lines[k] = files[i].lines[k]
          BY <2>2, <3>1, <4>1, <4>2, EventsGrow
        <4>4. files[i].lines[k] \in LineType
          BY <4>1, <4>2
        <4>5. files[i].lines[k].ts \in Nat
          BY <4>4, WalAssumption DEF LineType
        <4>6. ~ (files[i].lines[k].ts + MaxAge >= clock')
          BY <1>1, <2>2, <4>5 DEF Fresh
        <4>7. e \in Events
          BY <1>2 DEF Expired
        <4>. QED
          BY <1>1, <1>2, <2>2, <4>1, <4>2, <4>3, <4>6, <4>7 DEF Expired, Fresh
      <3>. QED
        BY <3>1
    <2>4. InRotationWindow /\ i = cur
      BY <2>3, StepGrows
    <2>5. e \in EventsIn(Lines(cur))
      BY <1>1, <2>2, <2>4 DEF EventsIn
    <2>. QED
      BY <2>4, <2>5 DEF Explained
  <1>. QED
    BY <1>1, <1>2 DEF MayLose

\* The lines that a step of writer w leaves: the same ones, or those of its descriptor's file
\* with one line pushed.
Pushes(w, line) ==
    /\ wr[w].fd \in 1..Len(files) /\ line \in LineType /\ line.ts = clock
    /\ OtherLines(wr[w].fd, Push(files[wr[w].fd].lines, line))
    /\ \/ /\ CreateMarker(w) /\ ~ AppendWrite(w) /\ line.kind = "marker" /\ cur # 0
          /\ line.seq \in RecoveredSeqs(Lines(cur))
          /\ wr'[w].pc = "ready" /\ wr'[w].seq = line.seq + 1
       \/ /\ AppendWrite(w) /\ line.kind = "event" /\ <<line.w, line.n>> = <<w, wr[w].sent + 1>>
          /\ line = Line("event", w, wr[w].sent + 1, wr[w].seq)
          /\ line.seq = wr[w].seq /\ wr'[w].pc = "ready" /\ wr'[w].seq = wr[w].seq + 1
       \/ /\ AppendFail(w) /\ ~ AppendWrite(w) /\ line.kind \in {"event", "torn"}
          /\ <<line.w, line.n>> = <<w, wr[w].sent + 1>>

LEMMA WriterWrites ==
    ASSUME LogAssumption, WalBase, NEW w \in Writers, Writer(w)
    PROVE  \/ /\ SameLines /\ ~ AppendWrite(w)
              /\ wr[w].pc = "createWrite" => wr'[w].pc = "closed"
              /\ \/ Len(files') = Len(files)
                 \/ /\ cur = 0 /\ cur' = Len(files) + 1
                    /\ Len(files') = Len(files) + 1 /\ files'[cur'].lines = <<>>
           \/ \E line : Pushes(w, line)
  <1> DEFINE n == Len(files)
             fd == wr[w].fd
  <1>1. /\ WalTypes /\ WriterHolds(w) /\ PendingWhere(w) /\ n \in Nat /\ files \in Seq(File)
        /\ \A i \in 1..n : files[i].lines \in Seq(LineType)
        /\ \A i \in 1..n : Lines(i) = files[i].lines
        /\ Lines(cur) \in Seq(LineType)
        /\ wr \in [Writers -> WriterType(n)] /\ wr[w] \in WriterType(n)
    BY LinesType DEF WalBase, WalTypes
  <1>2. Opened(w) => fd \in 1..n
    BY <1>1 DEF WriterHolds, WriterType
  <1>3. CASE CreateNew(w) \/ CreateOpen(w) \/ AppendOpen(w)
    <2>1. ~ AppendWrite(w) /\ wr[w].pc # "createWrite"
      BY <1>3 DEF CreateNew, CreateOpen, AppendOpen, AppendWrite
    <2>2. CASE CreateOpen(w) /\ cur = 0
      BY <1>1, <2>1, <2>2 DEF CreateOpen, SameLines
    <2>3. ASSUME NEW label, OpenPath(w, label)
          PROVE  /\ SameLines
                 /\ \/ Len(files') = n
                    \/ cur = 0 /\ cur' = n + 1 /\ Len(files') = n + 1 /\ files'[cur'].lines = <<>>
      BY <1>1, <2>3, OpenIs
    <2>. QED
      BY <1>3, <2>1, <2>2, <2>3 DEF CreateNew, CreateOpen, AppendOpen
  <1>4. CASE WriterLock(w)
    <2>1. files' = [files EXCEPT ![fd].flock = w] /\ fd \in 1..n /\ w \in Owners /\ ~ AppendWrite(w)
          /\ wr[w].pc # "createWrite"
      BY <1>2, <1>4 DEF WriterLock, Lock, Opened, Owners, AppendWrite
    <2>. QED
      BY <1>1, <2>1, LockIs
  <1>5. CASE Close(w)
    BY <1>1, <1>5 DEF Close, SameLines, AppendWrite
  <1>6. ASSUME NEW ls \in Seq(LineType), fd \in 1..n, files' = WrittenAndUnlocked(fd, ls)
        PROVE  OtherLines(fd, ls)
    BY <1>1, <1>6, WriteIs
  <1>7. ASSUME fd \in 1..n, files' = WrittenAndUnlocked(fd, Lines(fd))
        PROVE  SameLines /\ Len(files') = n
    <2>1. OtherLines(fd, Lines(fd))
      BY <1>1, <1>6, <1>7
    <2>. QED
      BY <1>1, <1>7, <2>1 DEF OtherLines, SameLines
  <1>8. ASSUME NEW line \in LineType, fd \in 1..n, files' = WrittenAndUnlocked(fd, Push(Lines(fd), line))
        PROVE  OtherLines(fd, Push(files[fd].lines, line))
    <2>1. files[fd].lines \in Seq(LineType) /\ Lines(fd) = files[fd].lines
      BY <1>1, <1>8
    <2>2. Push(files[fd].lines, line) \in Seq(LineType)
      BY <2>1, Pushed
    <2>. QED
      BY <1>6, <1>8, <2>1, <2>2
  <1>9. CASE CreateMarker(w)
    <2>1. fd \in 1..n /\ ~ AppendWrite(w)
      BY <1>2, <1>9 DEF CreateMarker, Opened, AppendWrite
    <2>2. ASSUME files' = WrittenAndUnlocked(fd, Lines(fd)), wr' = [wr EXCEPT ![w].pc = "closed"]
          PROVE  SameLines /\ Len(files') = n /\ wr'[w].pc = "closed"
      BY <1>1, <1>7, <2>1, <2>2 DEF WriterType
    <2>3. ASSUME NEW base \in RecoveredSeqs(Lines(cur)), cur # 0,
                 files' = WrittenAndUnlocked(fd, Push(Lines(fd), Line("marker", w, 0, base))),
                 wr' = [wr EXCEPT ![w].pc = "ready", ![w].seq = base + 1]
          PROVE  \E line : Pushes(w, line)
      <3> DEFINE line == Line("marker", w, 0, base)
      <3>1. base \in Nat /\ 0 \in 0..MaxAppends
        BY <1>1, Recovered, WalAssumption
      <3>2. line \in LineType
        BY <1>1, <3>1, NewLine
      <3>3. line.kind = "marker" /\ line.seq = base /\ line.ts = clock
        BY DEF Line
      <3>4. wr'[w].pc = "ready" /\ wr'[w].seq = base + 1
        BY <1>1, <2>3 DEF WriterType
      <3>5. files' = WrittenAndUnlocked(fd, Push(Lines(fd), line))
        BY <2>3
      <3> HIDE DEF line
      <3>6. OtherLines(fd, Push(files[fd].lines, line))
        BY <1>8, <2>1, <3>2, <3>5
      <3>7. Pushes(w, line)
        BY <1>9, <2>1, <2>3, <3>2, <3>3, <3>4, <3>6 DEF Pushes
      <3>. QED
        BY <3>7
    <2>. QED
      BY <1>9, <2>1, <2>2, <2>3 DEF CreateMarker
  <1>10. ASSUME AppendWrite(w) \/ AppendFail(w)
         PROVE  \/ SameLines /\ ~ AppendWrite(w) /\ Len(files') = n /\ wr[w].pc = "appendWrite"
                \/ \E line : Pushes(w, line)
    <2> DEFINE line(k) == Line(k, w, wr[w].sent + 1, wr[w].seq)
    <2>1. fd \in 1..n /\ Pending(w)
      BY <1>2, <1>10 DEF AppendWrite, AppendFail, Opened, Pending
    <2>2. \A k \in {"event", "torn"} : line(k) \in LineType
      <3>1. wr[w].sent < MaxAppends
        BY <1>1, <2>1 DEF PendingWhere
      <3>2. wr[w].sent + 1 \in 1..MaxAppends /\ wr[w].sent + 1 \in 0..MaxAppends /\ wr[w].seq \in Nat
        BY <1>1, <3>1, WalAssumption DEF WriterType
      <3>. QED
        BY <1>1, <3>2, NewLine
    <2>3. \A k : /\ line(k).kind = k /\ <<line(k).w, line(k).n>> = <<w, wr[w].sent + 1>>
                 /\ line(k).seq = wr[w].seq /\ line(k).ts = clock
                 /\ line(k) = Line(k, w, wr[w].sent + 1, wr[w].seq)
      BY DEF Line
    <2>4. AppendWrite(w) => files' = WrittenAndUnlocked(fd, Push(Lines(fd), line("event")))
      BY DEF AppendWrite
    <2>5. AppendFail(w) => \/ files' = WrittenAndUnlocked(fd, Lines(fd))
                           \/ files' = WrittenAndUnlocked(fd, Push(Lines(fd), line("torn")))
                           \/ files' = WrittenAndUnlocked(fd, Push(Lines(fd), line("event")))
      BY DEF AppendFail
    <2> HIDE DEF line
    <2>6. CASE AppendWrite(w)
      <3>1. OtherLines(fd, Push(files[fd].lines, line("event")))
        BY <1>8, <2>1, <2>2, <2>4, <2>6
      <3>2. wr'[w].pc = "ready" /\ wr'[w].seq = wr[w].seq + 1
        BY <1>1, <2>6 DEF AppendWrite, WriterType
      <3>3. Pushes(w, line("event"))
        BY <2>1, <2>2, <2>3, <2>6, <3>1, <3>2 DEF Pushes
      <3>. QED
        BY <3>3
    <2>7. CASE AppendFail(w) /\ ~ AppendWrite(w)
      <3>1. CASE files' = WrittenAndUnlocked(fd, Lines(fd))
        BY <1>7, <2>1, <2>7, <3>1 DEF AppendFail
      <3>2. ASSUME NEW k \in {"event", "torn"}, files' = WrittenAndUnlocked(fd, Push(Lines(fd), line(k)))
            PROVE  Pushes(w, line(k))
        <4>1. OtherLines(fd, Push(files[fd].lines, line(k)))
          BY <1>8, <2>1, <2>2, <3>2
        <4>. QED
          BY <2>1, <2>2, <2>3, <2>7, <4>1 DEF Pushes
      <3>. QED
        BY <2>5, <2>7, <3>1, <3>2
    <2>. QED
      BY <1>10, <2>6, <2>7
  <1>. QED
    BY <1>3, <1>4, <1>5, <1>9, <1>10 DEF Writer

\* The event of a pushed line is in the file, unless it was glued to a torn one; no other is new.
LEMMA PushAdds ==
    ASSUME NEW ls \in Seq(LineType), NEW line \in LineType
    PROVE  /\ EventsIn(Push(ls, line)) \subseteq
                  EventsIn(ls) \cup (IF line.kind = "event" THEN {<<line.w, line.n>>} ELSE {})
           /\ line.kind = "event" /\ Last(Push(ls, line)).kind # "glued"
                  => <<line.w, line.n>> \in EventsIn(Push(ls, line))
  <1> DEFINE p == Push(ls, line)
             glued == [line EXCEPT !.kind = "glued"]
  <1>1. /\ Len(p) \in Nat /\ Len(ls) \in Nat /\ DOMAIN p = 1..Len(p) /\ DOMAIN ls = 1..Len(ls)
        /\ Len(p) > 0
        /\ \/ /\ Len(p) = Len(ls) + 1 /\ p[Len(p)] = line
              /\ \A k \in 1..Len(ls) : p[k] = ls[k]
           \/ /\ Len(p) = Len(ls) /\ p[Len(p)] = glued
              /\ \A k \in 1..(Len(ls) - 1) : p[k] = ls[k]
    BY Pushed
  <1>2. glued.kind = "glued"
    BY DEF LineType
  <1> HIDE DEF p, glued
  <1>7. Len(p) \in Nat /\ Len(p) > 0 /\ Len(ls) \in Nat
    BY <1>1
  <1>3. ASSUME NEW k \in 1..Len(p), p[k].kind = "event"
        PROVE  \/ k \in 1..Len(ls) /\ p[k] = ls[k]
               \/ p[k] = line
    <2>1. k = Len(p) \/ k \in 1..(Len(p) - 1)
      BY <1>7
    <2>2. p[Len(p)] = glued => p[Len(p)].kind # "event"
      BY <1>2
    <2>3. CASE Len(p) = Len(ls) + 1 /\ p[Len(p)] = line /\ \A j \in 1..Len(ls) : p[j] = ls[j]
      <3>1. k = Len(p) \/ k \in 1..Len(ls)
        BY <1>7, <2>1, <2>3
      <3>. QED
        BY <2>3, <3>1
    <2>4. CASE Len(p) = Len(ls) /\ p[Len(p)] = glued /\ \A j \in 1..(Len(ls) - 1) : p[j] = ls[j]
      <3>1. k # Len(p)
        BY <1>3, <2>2, <2>4
      <3>2. k \in 1..(Len(ls) - 1) /\ k \in 1..Len(ls)
        BY <1>7, <2>1, <2>4, <3>1
      <3>. QED
        BY <2>4, <3>2
    <2>. QED
      BY <1>1, <2>3, <2>4
  <1>4. Last(p) = p[Len(p)]
    BY DEF Last
  <1>5. EventsIn(p) \subseteq EventsIn(ls) \cup (IF line.kind = "event" THEN {<<line.w, line.n>>} ELSE {})
    BY <1>1, <1>3 DEF EventsIn
  <1>6. ASSUME line.kind = "event", Last(p).kind # "glued"
        PROVE  <<line.w, line.n>> \in EventsIn(p)
    <2>1. p[Len(p)] # glued
      BY <1>2, <1>4, <1>6
    <2>2. p[Len(p)] = line
      BY <1>1, <2>1
    <2>3. Len(p) \in 1..Len(p)
      BY <1>7
    <2>. QED
      BY <1>1, <1>6, <2>2, <2>3 DEF EventsIn
  <1>. QED
    BY <1>5, <1>6 DEF p

\* The events of a file and, of the next state, the events of the file then.
Was(k) == IF k = 0 THEN {} ELSE EventsIn(files[k].lines)
Is(k) == IF k = 0 THEN {} ELSE EventsIn(files'[k].lines)

LEMMA WasIs ==
    ASSUME LogAssumption, WalBase, [Next]_vars
    PROVE  /\ EventsIn(Lines(cur)) = Was(cur) /\ EventsIn(Lines(cur))' = Is(cur')
           /\ EventsIn(Lines(tmp)) = Was(tmp) /\ EventsIn(Lines(tmp))' = Is(tmp')
           /\ \A e : InLog(e) <=> e \in Was(cur) \/ \E i \in 1..MaxRotations : e \in Was(arch[i])
           /\ \A e : InLog(e)' <=> e \in Is(cur') \/ \E i \in 1..MaxRotations : e \in Is(arch'[i])
           /\ \A k \in 0..Len(files) : ~ (InRotationWindow /\ k = cur) => Was(k) \subseteq Is(k)
  <1>1. /\ WalTypes /\ WalTypes' /\ Len(files) \in Nat /\ Len(files') \in Nat
        /\ \A i \in 1..Len(files) : files[i].lines \in Seq(LineType)
        /\ \A i \in 1..Len(files') : files'[i].lines \in Seq(LineType)
    BY TypesStep, LinesType, LinesTypeNext DEF WalBase
  <1>2. EventsIn(<<>>) = {}
    BY DEF EventsIn
  <1>3. \A k : EventsIn(Lines(k)) = Was(k) /\ EventsIn(IF k = 0 THEN <<>> ELSE files'[k].lines) = Is(k)
    BY <1>2 DEF Lines, Was, Is
  <1>4. \A k \in 0..Len(files) : ~ (InRotationWindow /\ k = cur) => Was(k) \subseteq Is(k)
    <2>1. ASSUME NEW k \in 1..Len(files), ~ (InRotationWindow /\ k = cur)
          PROVE  Was(k) \subseteq Is(k)
      <3>1. Len(files') >= Len(files) /\ Grows(files[k].lines, files'[k].lines)
        BY <2>1, StepGrows
      <3>2. files[k].lines \in Seq(LineType) /\ files'[k].lines \in Seq(LineType)
        BY <1>1, <3>1
      <3>3. EventsIn(files[k].lines) \subseteq EventsIn(files'[k].lines)
        BY <3>1, <3>2, EventsGrow
      <3>. QED
        BY <3>3 DEF Was, Is
    <2>2. Was(0) \subseteq Is(0)
      BY DEF Was
    <2>3. \A k \in 0..Len(files) : k = 0 \/ k \in 1..Len(files)
      BY <1>1
    <2>. QED
      BY <2>1, <2>2, <2>3
  <1>5. /\ EventsIn(Lines(cur))' = Is(cur') /\ EventsIn(Lines(tmp))' = Is(tmp')
        /\ \A i : EventsIn(Lines(arch[i]))' = Is(arch'[i])
    <2>1. /\ EventsIn(Lines(cur))' = EventsIn(IF cur' = 0 THEN <<>> ELSE files'[cur'].lines)
          /\ EventsIn(Lines(tmp))' = EventsIn(IF tmp' = 0 THEN <<>> ELSE files'[tmp'].lines)
          /\ \A i : EventsIn(Lines(arch[i]))' = EventsIn(IF arch'[i] = 0 THEN <<>> ELSE files'[arch'[i]].lines)
      BY DEF Lines, EventsIn
    <2>. QED
      BY <1>3, <2>1
  <1>. QED
    BY <1>3, <1>4, <1>5 DEF InLog

\* What a rotation does to the archives.
LEMMA ShiftIs ==
    ASSUME LogAssumption, WalBase, RotateRename
    PROVE  /\ cur # 0 /\ cur' = 0 /\ files' = files
           /\ \A i \in 1..MaxRotations : arch'[i] = IF i = 1 THEN cur ELSE arch[i - 1]
           /\ \A i \in 1..MaxRotations : i # MaxRotations => arch'[i + 1] = arch[i]
           /\ EventsIn(Lines(arch[MaxRotations])) \subseteq rotatedOut'
  <1>1. /\ cur # 0 /\ MaxRotations \in Nat \ {0} /\ DOMAIN arch = 1..MaxRotations
        /\ \A i, j \in 1..MaxRotations : i < j /\ arch[i] = 0 => arch[j] = 0
    BY WalAssumption DEF WalBase, WalTypes, MaintHolds, NamesApart, RotateRename
  <1>2. \A i \in 1..MaxRotations : arch'[i] = IF i = 1 THEN cur ELSE arch[i - 1]
    <2>1. \A i \in 1..MaxRotations : i # 1 => i - 1 \in 1..MaxRotations /\ i - 1 < i
      BY <1>1
    <2>. QED
      BY <1>1, <2>1 DEF RotateRename
  <1>3. \A i \in 1..MaxRotations : i # MaxRotations => arch'[i + 1] = arch[i]
    <2>1. \A i \in 1..MaxRotations : i # MaxRotations =>
              i + 1 \in 1..MaxRotations /\ i + 1 # 1 /\ (i + 1) - 1 = i
      BY <1>1
    <2>. QED
      BY <1>2, <2>1
  <1>4. EventsIn(Lines(arch[MaxRotations])) \subseteq rotatedOut'
    <2>1. CASE 0 \in ToSet(arch)
      <3>1. PICK i \in 1..MaxRotations : arch[i] = 0
        BY <1>1, <2>1 DEF ToSet
      <3>2. i < MaxRotations \/ i = MaxRotations
        BY <1>1
      <3>3. arch[MaxRotations] = 0
        BY <1>1, <3>1, <3>2
      <3>4. EventsIn(Lines(0)) = {}
        BY DEF Lines, EventsIn
      <3>. QED
        BY <3>3, <3>4
    <2>2. CASE 0 \notin ToSet(arch)
      BY <2>2 DEF RotateRename
    <2>. QED
      BY <2>1, <2>2
  <1>. QED
    BY <1>1, <1>2, <1>3, <1>4 DEF RotateRename

\* An acknowledged event is in the log or there is a reason that it is not: still so.
LEMMA AckedStep ==
    ASSUME LogAssumption, WalBase, Explained, [Next]_vars
    PROVE  \A e \in acked' : e \in MayLose' \/ InLog(e)'
  <1> DEFINE n == Len(files)
  <1>1. /\ WalTypes /\ NamesApart /\ n \in Nat /\ cur \in 0..n /\ tmp \in 0..n
        /\ MaxRotations \in Nat \ {0} /\ \A i \in 1..MaxRotations : arch[i] \in 0..n
        /\ \A i \in 1..n : files[i].lines \in Seq(LineType)
    BY LinesType, WalAssumption DEF WalBase, WalTypes
  <1>2. MayLose \subseteq MayLose'
    BY ExpiredGrows
  <1>3. /\ EventsIn(Lines(cur)) = Was(cur) /\ EventsIn(Lines(tmp)) = Was(tmp)
        /\ \A e : InLog(e) <=> e \in Was(cur) \/ \E i \in 1..MaxRotations : e \in Was(arch[i])
        /\ \A e : InLog(e)' <=> e \in Is(cur') \/ \E i \in 1..MaxRotations : e \in Is(arch'[i])
        /\ \A k \in 0..n : ~ (InRotationWindow /\ k = cur) => Was(k) \subseteq Is(k)
        /\ Was(0) = {}
    BY WasIs DEF Was
  <1>4. /\ \A e \in acked : e \in MayLose \/ InLog(e)
        /\ mt.pc = "cleanupRename" => Was(cur) \subseteq Expired \cup Was(tmp)
        /\ InRotationWindow => Was(cur) \subseteq exposed
        /\ exposed \subseteq MayLose' /\ Expired \subseteq MayLose' /\ rotatedOut' \subseteq MayLose'
    BY <1>2, <1>3 DEF Explained, MayLose
  \* the archives are not the path
  <1>5. \A i \in 1..MaxRotations : Was(arch[i]) \subseteq Is(arch[i])
    <2> TAKE i \in 1..MaxRotations
    <2>1. CASE arch[i] = 0
      BY <1>3, <2>1 DEF Was, Is
    <2>2. CASE arch[i] # 0
      BY <1>1, <1>3, <2>2 DEF NamesApart
    <2>. QED
      BY <2>1, <2>2
  <1>6. ASSUME cur # 0 => cur' = cur, arch' = arch, NEW e \in acked
        PROVE  e \in MayLose' \/ InLog(e)'
    <2>1. CASE e \in MayLose
      BY <1>2, <2>1
    <2>2. CASE e \in Was(cur)
      <3>1. cur # 0
        BY <1>3, <2>2
      <3>2. CASE InRotationWindow
        BY <1>4, <2>2, <3>2
      <3>3. CASE ~ InRotationWindow
        BY <1>1, <1>3, <1>6, <2>2, <3>1, <3>3
      <3>. QED
        BY <3>2, <3>3
    <2>3. ASSUME NEW i \in 1..MaxRotations, e \in Was(arch[i])
          PROVE  InLog(e)'
      BY <1>3, <1>5, <1>6, <2>3
    <2>. QED
      BY <1>3, <1>4, <2>1, <2>2, <2>3
  <1>7. ASSUME CleanupRename, NEW e \in acked
        PROVE  e \in MayLose' \/ InLog(e)'
    <2>1. cur' = tmp /\ arch' = arch /\ mt.pc = "cleanupRename" /\ ~ InRotationWindow
      BY <1>7 DEF CleanupRename, InRotationWindow
    <2>2. CASE e \in MayLose
      BY <1>2, <2>2
    <2>3. CASE e \in Was(cur)
      <3>1. Was(tmp) \subseteq Is(tmp)
        BY <1>1, <1>3, <2>1
      <3>. QED
        BY <1>3, <1>4, <2>1, <2>3, <3>1
    <2>4. ASSUME NEW i \in 1..MaxRotations, e \in Was(arch[i])
          PROVE  InLog(e)'
      BY <1>3, <1>5, <2>1, <2>4
    <2>. QED
      BY <1>3, <1>4, <2>2, <2>3, <2>4
  <1>8. ASSUME RotateRename, NEW e \in acked
        PROVE  e \in MayLose' \/ InLog(e)'
    <2>1. /\ cur # 0 /\ cur' = 0 /\ ~ InRotationWindow
          /\ \A i \in 1..MaxRotations : arch'[i] = IF i = 1 THEN cur ELSE arch[i - 1]
          /\ \A i \in 1..MaxRotations : i # MaxRotations => arch'[i + 1] = arch[i]
          /\ EventsIn(Lines(arch[MaxRotations])) \subseteq rotatedOut'
      <3>1. ~ InRotationWindow
        BY <1>8 DEF RotateRename, InRotationWindow
      <3>. QED
        BY <1>8, <3>1, ShiftIs
    <2>2. CASE e \in MayLose
      BY <1>2, <2>2
    <2>3. CASE e \in Was(cur)
      <3>1. e \in Is(cur) /\ 1 \in 1..MaxRotations /\ arch'[1] = cur
        BY <1>1, <1>3, <2>1, <2>3
      <3>. QED
        BY <1>3, <3>1
    <2>4. ASSUME NEW i \in 1..MaxRotations, e \in Was(arch[i])
          PROVE  e \in MayLose' \/ InLog(e)'
      <3>1. CASE i = MaxRotations
        <4>1. EventsIn(Lines(arch[i])) = Was(arch[i])
          BY DEF Was, Lines, EventsIn
        <4>. QED
          BY <1>4, <2>1, <2>4, <3>1, <4>1
      <3>2. CASE i # MaxRotations
        <4>1. i + 1 \in 1..MaxRotations /\ arch'[i + 1] = arch[i]
          BY <1>1, <2>1, <3>2
        <4>2. e \in Is(arch'[i + 1])
          BY <1>5, <2>4, <4>1
        <4>. QED
          BY <1>3, <4>1, <4>2
      <3>. QED
        BY <3>1, <3>2
    <2>. QED
      BY <1>3, <1>4, <2>2, <2>3, <2>4
  \* the event of an append that is acknowledged
  <1>9. ASSUME NEW w \in Writers, AppendWrite(w), NEW e, e = <<w, wr[w].sent + 1>>
        PROVE  acked' = acked \cup {e} /\ (e \in MayLose' \/ InLog(e)')
    <2> DEFINE fd == wr[w].fd
    <2>1. acked' = acked \cup {e} /\ cur' = cur /\ arch' = arch /\ Pending(w)
      BY <1>9 DEF AppendWrite, dirs, Pending
    <2>2. PICK line : Pushes(w, line)
      BY <1>9, WriterWrites DEF Writer
    <2>3. /\ fd \in 1..n /\ line \in LineType /\ line.kind = "event" /\ <<line.w, line.n>> = e
          /\ files'[fd].lines = Push(files[fd].lines, line)
      BY <1>9, <2>2 DEF Pushes, OtherLines
    <2>4. CASE wr[w].late \/ Last(Push(files[fd].lines, line)).kind = "glued"
      <3>1. line = Line("event", w, wr[w].sent + 1, wr[w].seq)
        BY <1>9, <2>2 DEF Pushes
      <3>2. Lines(fd) = files[fd].lines
        BY <2>3 DEF Lines
      <3>3. e \in exposed'
        BY <1>9, <2>4, <3>1, <3>2 DEF AppendWrite
      <3>. QED
        BY <2>1, <3>3 DEF MayLose
    <2>5. CASE ~ wr[w].late /\ Last(Push(files[fd].lines, line)).kind # "glued"
      <3>1. e \in EventsIn(Push(files[fd].lines, line))
        BY <1>1, <2>3, <2>5, PushAdds
      <3>2. e \in Is(fd)
        BY <2>3, <3>1 DEF Is
      <3>3. fd = cur \/ fd = arch[1]
        BY <2>1, <2>5 DEF WalBase, PendingWhere
      <3>4. 1 \in 1..MaxRotations
        BY <1>1
      <3>5. fd = cur' \/ fd = arch'[1]
        BY <2>1, <3>3
      <3> HIDE DEF fd
      <3>6. InLog(e)'
        BY <1>3, <3>2, <3>4, <3>5
      <3>. QED
        BY <2>1, <3>6
    <2>. QED
      BY <2>1, <2>4, <2>5
  <1>10. ASSUME NEW w \in Writers, Writer(w), ~ AppendWrite(w)
         PROVE  acked' = acked
    BY <1>10 DEF Writer, CreateNew, CreateOpen, WriterLock, CreateMarker, AppendOpen, AppendFail,
                 Close, histories
  <1>11. ASSUME NEW w \in Writers, Writer(w)
         PROVE  arch' = arch /\ (cur # 0 => cur' = cur)
    BY <1>11, WriterEffects DEF WriterEffect
  <1>12. CASE \E w \in Writers : Writer(w)
    <2>1. PICK w \in Writers : Writer(w)
      BY <1>12
    <2>2. arch' = arch /\ (cur # 0 => cur' = cur)
      BY <1>11, <2>1
    <2>3. \A e \in acked : e \in MayLose' \/ InLog(e)'
      BY <1>6, <2>2
    <2>4. CASE AppendWrite(w)
      <3>1. PICK e : e = <<w, wr[w].sent + 1>>
        OBVIOUS
      <3>2. acked' = acked \cup {e} /\ (e \in MayLose' \/ InLog(e)')
        BY <1>9, <2>4, <3>1
      <3>. QED
        BY <2>3, <3>2
    <2>5. CASE ~ AppendWrite(w)
      BY <1>10, <2>1, <2>3, <2>5
    <2>. QED
      BY <2>4, <2>5
  <1>13. CASE Maintenance
    <2>1. acked' = acked
      BY <1>13, MaintenanceEffects DEF MaintenanceEffect
    <2>2. CASE ~ CleanupRename /\ ~ RotateRename
      <3>1. arch' = arch /\ (cur # 0 => cur' = cur)
        BY <1>13, <2>2 DEF Maintenance, CleanupOpen, CleanupLock, CleanupNothing, CleanupWrite,
              CleanupFail, CleanupUnlock, RotateOpen, RotateLock, RotateCreate, Crash, dirs
      <3>. QED
        BY <1>6, <2>1, <3>1
    <2>. QED
      BY <1>7, <1>8, <2>1, <2>2
  <1>14. CASE Tick \/ UNCHANGED vars
    BY <1>6, <1>14 DEF Tick, vars, dirs, histories
  <1>. QED
    BY <1>12, <1>13, <1>14 DEF Next

\* The copy of a cleanup has what it must; the file a rotation is about to empty is exposed.
LEMMA CopyStep ==
    ASSUME LogAssumption, WalBase, Explained, [Next]_vars, mt'.pc = "cleanupRename"
    PROVE  Is(cur') \subseteq Expired' \cup Is(tmp')
  <1> DEFINE n == Len(files)
  <1>1. /\ WalTypes /\ NamesApart /\ MaintHolds /\ n \in Nat /\ cur \in 0..n /\ tmp \in 0..n
        /\ \A i \in 1..n : files[i].lines \in Seq(LineType)
        /\ mt \in MaintType(n)
    BY LinesType DEF WalBase, WalTypes
  <1>2. /\ EventsIn(Lines(cur)) = Was(cur) /\ EventsIn(Lines(tmp)) = Was(tmp)
        /\ \A k \in 0..n : ~ (InRotationWindow /\ k = cur) => Was(k) \subseteq Is(k)
    BY WasIs
  <1>3. mt.pc = "cleanupRename" => /\ cur \in 1..n /\ tmp \in 1..n /\ ~ InRotationWindow
                                   /\ files[cur].flock = Maint
                                   /\ Was(cur) \subseteq Expired \cup Was(tmp)
    BY <1>1, <1>2 DEF MaintHolds, Explained, InRotationWindow
  \* nobody writes to the file while its copy waits to replace it
  <1>4. ASSUME mt.pc = "cleanupRename", cur' = cur, tmp' = tmp, files'[cur].lines = files[cur].lines
        PROVE  Is(cur') \subseteq Expired' \cup Is(tmp')
    <2>1. Is(cur') = Was(cur)
      BY <1>4 DEF Was, Is
    <2>2. Expired \subseteq Expired'
      BY <1>3, <1>4, ExpiredGrows
    <2>3. Was(tmp) \subseteq Is(tmp)
      BY <1>1, <1>2, <1>3, <1>4
    <2>. QED
      BY <1>3, <1>4, <2>1, <2>2, <2>3
  <1>5. CASE \E w \in Writers : Writer(w)
    <2>1. PICK w \in Writers : Writer(w)
      BY <1>5
    <2>2. WriterEffect(w)
      BY <2>1, WriterEffects
    <2>3. mt' = mt /\ tmp' = tmp /\ mt.pc = "cleanupRename" /\ Maint \in Owners \ {w, Nobody}
      BY <2>2 DEF WriterEffect, LogAssumption, Owners
    <2>4. cur' = cur /\ files'[cur].lines = files[cur].lines
      BY <1>3, <2>2, <2>3 DEF WriterEffect
    <2>. QED
      BY <1>4, <2>3, <2>4
  <1>6. CASE Tick \/ UNCHANGED vars
    <2>1. /\ mt' = mt /\ cur' = cur /\ tmp' = tmp /\ files' = files
      BY <1>6 DEF Tick, vars, dirs
    <2>. QED
      BY <1>4, <2>1
  <1>7. CASE CleanupWrite
    <2>1. /\ cur' = cur /\ cur \in 1..n /\ cur # tmp /\ clock' = clock /\ Len(files') >= n
      BY <1>1, <1>7, StepGrows DEF CleanupWrite, MaintHolds, NamesApart
    <2>2. PICK base \in RecoveredSeqs(Lines(tmp)) : WriteTemp(Copy(base))
      BY <1>1, <1>7, CopyIs DEF CleanupWrite
    <2> DEFINE ls == Copy(base)
    <2>3. /\ ls \in Seq(LineType)
          /\ \A i \in 1..Len(Lines(cur)) : Parses(Lines(cur)[i]) /\ Fresh(Lines(cur)[i])
                => \E k \in 1..Len(ls) : ls[k] = Lines(cur)[i]
      <3>1. ls \in Seq(LineType)
        BY <1>1, CopyIs
      <3>2. \A i \in 1..Len(Lines(cur)) : Parses(Lines(cur)[i]) /\ Fresh(Lines(cur)[i])
                => \E k \in 1..Len(ls) : ls[k] = Lines(cur)[i]
        BY <1>1, CopyHolds
      <3>. QED
        BY <3>1, <3>2
    <2>4. WriteTemp(ls)
      BY <2>2
    <2> HIDE DEF ls
    <2>5. /\ files'[cur].lines = files[cur].lines /\ tmp' \in 1..Len(files')
          /\ tmp = 0 => files'[tmp'].lines = ls
          /\ tmp # 0 => tmp \in 1..n /\ files'[tmp'].lines = files[tmp].lines \o ls
      BY <1>1, <2>1, <2>3, <2>4, TempIs
    <2>6. \A k \in 1..Len(ls) : \E l \in DOMAIN files'[tmp'].lines : files'[tmp'].lines[l] = ls[k]
      <3>1. CASE tmp = 0
        <4>1. DOMAIN ls = 1..Len(ls)
          BY <2>3
        <4>. QED
          BY <2>5, <3>1, <4>1
      <3>2. CASE tmp # 0
        <4>1. files[tmp].lines \in Seq(LineType)
          BY <1>1, <2>5, <3>2
        <4>2. \A a, b \in Seq(LineType) : \A k \in 1..Len(b) : \E l \in DOMAIN (a \o b) : (a \o b)[l] = b[k]
          <5> TAKE a, b \in Seq(LineType)
          <5> TAKE k \in 1..Len(b)
          <5>1. Len(a) + k \in DOMAIN (a \o b) /\ (a \o b)[Len(a) + k] = b[k]
            OBVIOUS
          <5>. QED
            BY <5>1
        <4>3. \A k \in 1..Len(ls) : \E l \in DOMAIN (files[tmp].lines \o ls) :
                  (files[tmp].lines \o ls)[l] = ls[k]
          BY <2>3, <4>1, <4>2
        <4>. QED
          BY <2>5, <3>2, <4>3
      <3>. QED
        BY <3>1, <3>2
    <2>7. ASSUME NEW e \in Is(cur')
          PROVE  e \in Expired' \cup Is(tmp')
      <3> DEFINE F == files[cur].lines
      <3>1. F = Lines(cur) /\ F \in Seq(LineType) /\ DOMAIN F = 1..Len(F) /\ e \in EventsIn(F)
        BY <1>1, <2>1, <2>5, <2>7 DEF Lines, Is
      <3>2. PICK i \in 1..Len(F) : F[i].kind = "event" /\ <<F[i].w, F[i].n>> = e
        BY <3>1 DEF EventsIn
      <3>3. CASE Fresh(F[i])
        <4>1. PICK k \in 1..Len(ls) : ls[k] = F[i]
          BY <2>3, <3>1, <3>2, <3>3 DEF Parses
        <4>2. PICK l \in DOMAIN files'[tmp'].lines : files'[tmp'].lines[l] = F[i]
          BY <2>6, <4>1
        <4>. QED
          BY <2>5, <3>2, <4>2 DEF Is, EventsIn
      <3>4. CASE ~ Fresh(F[i])
        <4>1. e \in Events
          <5>1. F[i] \in LineType
            BY <3>1
          <5>. QED
            BY <3>2, <5>1 DEF LineType, Events
        <4>2. DOMAIN files = 1..n /\ i \in DOMAIN F
          BY <1>1, <3>1, LinesType
        <4>3. e \in Expired
          BY <2>1, <3>1, <3>2, <3>4, <4>1, <4>2 DEF Expired
        <4>4. ~ InRotationWindow
          BY <1>7 DEF CleanupWrite, InRotationWindow
        <4>. QED
          BY <4>3, <4>4, ExpiredGrows
      <3>. QED
        BY <3>3, <3>4
    <2>. QED
      BY <2>7
  <1>8. CASE Maintenance /\ ~ CleanupWrite
    <2>1. mt'.pc # "cleanupRename"
      <3>1. CASE CleanupOpen \/ CleanupLock \/ CleanupNothing \/ CleanupUnlock
        BY <1>1, <3>1 DEF CleanupOpen, CleanupLock, CleanupNothing, CleanupUnlock, Step, MaintType
      <3>2. CASE CleanupFail \/ CleanupRename \/ RotateOpen \/ RotateLock
        BY <1>1, <3>2 DEF CleanupFail, CleanupRename, RotateOpen, RotateLock, Step, MaintType
      <3>3. CASE RotateRename \/ RotateCreate \/ Crash
        BY <1>1, <3>3 DEF RotateRename, RotateCreate, Crash, Step, MaintType
      <3>. QED
        BY <1>8, <3>1, <3>2, <3>3 DEF Maintenance
    <2>. QED
      BY <2>1
  <1>. QED
    BY <1>5, <1>6, <1>7, <1>8 DEF Next

LEMMA WindowStep ==
    ASSUME LogAssumption, WalBase, Explained, [Next]_vars, InRotationWindow'
    PROVE  Is(cur') \subseteq exposed'
  <1> DEFINE n == Len(files)
  <1>1. /\ WalTypes /\ NamesApart /\ MaintHolds /\ n \in Nat /\ cur \in 0..n
        /\ \A i \in 1..n : files[i].lines \in Seq(LineType)
        /\ mt \in MaintType(n)
    BY LinesType DEF WalBase, WalTypes
  <1>2. /\ EventsIn(Lines(cur)) = Was(cur)
        /\ InRotationWindow => Was(cur) \subseteq exposed
        /\ exposed \subseteq exposed'
    BY WasIs, StepGrows DEF Explained
  <1>3. CASE \E w \in Writers : Writer(w)
    <2>1. PICK w \in Writers : Writer(w)
      BY <1>3
    <2>2. /\ InRotationWindow /\ (cur # 0 => cur' = cur)
          /\ cur = 0 /\ cur' # 0 => files'[cur'].lines = <<>>
      BY <2>1, WriterEffects DEF WriterEffect, InRotationWindow
    <2>3. CASE cur = 0
      <3>1. EventsIn(<<>>) = {}
        BY DEF EventsIn
      <3>. QED
        BY <2>2, <2>3, <3>1 DEF Is
    <2>4. CASE cur # 0 /\ SameLines
      <3>1. cur \in 1..n /\ files'[cur].lines = files[cur].lines
        BY <1>1, <2>4 DEF SameLines
      <3>. QED
        BY <1>2, <2>2, <2>4, <3>1 DEF Was, Is
    <2>5. ASSUME cur # 0, NEW line, Pushes(w, line)
          PROVE  Is(cur') \subseteq exposed'
      <3> DEFINE fd == wr[w].fd
      <3>1. /\ cur \in 1..n /\ fd \in 1..n /\ line \in LineType
            /\ files'[cur].lines = IF cur = fd THEN Push(files[fd].lines, line) ELSE files[cur].lines
        BY <1>1, <2>5 DEF Pushes, OtherLines
      <3>2. CASE cur # fd
        BY <1>2, <2>2, <2>5, <3>1, <3>2 DEF Was, Is
      <3>3. CASE cur = fd
        <4>1. Is(cur') = EventsIn(Push(files[fd].lines, line)) /\ Was(cur) = EventsIn(files[fd].lines)
          BY <2>2, <2>5, <3>1, <3>3 DEF Was, Is
        <4>2. Is(cur') \subseteq Was(cur) \cup (IF line.kind = "event" THEN {<<line.w, line.n>>} ELSE {})
          <5>1. files[fd].lines \in Seq(LineType) /\ line \in LineType
            BY <1>1, <3>1
          <5>2. EventsIn(Push(files[fd].lines, line)) \subseteq
                    EventsIn(files[fd].lines) \cup (IF line.kind = "event" THEN {<<line.w, line.n>>} ELSE {})
            BY <5>1, PushAdds
          <5>. QED
            BY <4>1, <5>2
        <4>3. line.kind = "event" => <<line.w, line.n>> \in exposed'
          <5>1. ASSUME line.kind = "event" PROVE <<line.w, line.n>> \in exposed'
            <6>1. (AppendWrite(w) \/ AppendFail(w)) /\ <<line.w, line.n>> = <<w, wr[w].sent + 1>>
              BY <2>5, <5>1 DEF Pushes
            <6>2. Pending(w)
              BY <6>1 DEF AppendWrite, AppendFail, Pending
            <6>3. wr[w].late
              BY <2>2, <3>3, <6>2 DEF WalBase, PendingWhere
            <6>. QED
              BY <6>1, <6>3 DEF AppendWrite, AppendFail
          <5>. QED
            BY <5>1
        <4>. QED
          BY <1>2, <2>2, <4>2, <4>3
      <3>. QED
        BY <3>2, <3>3
    <2>. QED
      BY <2>1, <2>3, <2>4, <2>5, WriterWrites
  <1>4. CASE Tick \/ UNCHANGED vars
    <2>1. InRotationWindow /\ cur' = cur /\ files' = files
      BY <1>4 DEF Tick, vars, dirs, InRotationWindow
    <2>. QED
      BY <1>2, <2>1 DEF Was, Is
  <1>5. CASE Maintenance
    <2>1. CASE RotateRename
      BY <2>1 DEF RotateRename, Is
    <2>2. CASE CleanupOpen \/ CleanupLock \/ CleanupNothing \/ CleanupUnlock
      BY <1>1, <2>2 DEF CleanupOpen, CleanupLock, CleanupNothing, CleanupUnlock, Step, MaintType,
                        InRotationWindow
    <2>3. CASE CleanupFail \/ CleanupRename \/ RotateOpen \/ RotateLock
      BY <1>1, <2>3 DEF CleanupFail, CleanupRename, RotateOpen, RotateLock, Step, MaintType,
                        InRotationWindow
    <2>4. CASE CleanupWrite \/ RotateCreate \/ Crash
      BY <1>1, <2>4 DEF CleanupWrite, RotateCreate, Crash, Step, MaintType, InRotationWindow
    <2>. QED
      BY <1>5, <2>1, <2>2, <2>3, <2>4 DEF Maintenance
  <1>. QED
    BY <1>3, <1>4, <1>5 DEF Next

LEMMA ExplainedInit == LogAssumption /\ Init => Explained
  BY DEF Init, Explained, InRotationWindow

LEMMA ExplainedStep == LogAssumption /\ WalBase /\ Explained /\ [Next]_vars => Explained'
  <1> SUFFICES ASSUME LogAssumption, WalBase, Explained, [Next]_vars
               PROVE  Explained'
    OBVIOUS
  <1>1. EventsIn(Lines(cur))' = Is(cur') /\ EventsIn(Lines(tmp))' = Is(tmp')
    BY WasIs
  <1>2. \A e \in acked' : e \in MayLose' \/ InLog(e)'
    BY AckedStep
  <1>3. (mt.pc = "cleanupRename" => EventsIn(Lines(cur)) \subseteq Expired \cup EventsIn(Lines(tmp)))'
    BY <1>1, CopyStep
  <1>4. (InRotationWindow => EventsIn(Lines(cur)) \subseteq exposed)'
    BY <1>1, WindowStep
  <1>. QED
    BY <1>2, <1>3, <1>4 DEF Explained

\* What is in the log is read back.
LEMMA EventsOfIs ==
    ASSUME WalTypes, NEW i \in 0..Len(files)
    PROVE  EventsOf(i) \in Seq(LineType)
           /\ \E e : Selects(e, EventsOf(i), Lines(i),
                             {k \in 1..Len(Lines(i)) : Lines(i)[k].kind = "event"})
  <1>1. Lines(i) \in Seq(LineType) /\ DOMAIN Lines(i) = 1..Len(Lines(i))
    BY LinesType
  <1> DEFINE T == {k \in 1..Len(Lines(i)) : Lines(i)[k].kind = "event"}
  <1>2. T \in SUBSET (1..Len(Lines(i))) /\ EventsOf(i) = Picked(Lines(i), T)
    BY <1>1 DEF EventsOf
  <1> HIDE DEF T
  <1>3. Picked(Lines(i), T) \in Seq(LineType) /\ \E e : Selects(e, Picked(Lines(i), T), Lines(i), T)
    BY <1>1, <1>2, PickedSelects
  <1>. QED
    BY <1>2, <1>3 DEF T

LEMMA LoadIs ==
    ASSUME WalTypes
    PROVE  LET old == FlattenSeq([i \in 1..MaxRotations |-> EventsOf(arch[i])]) IN
           /\ LoadAll = old \o EventsOf(cur) /\ old \in Seq(LineType) /\ EventsOf(cur) \in Seq(LineType)
           /\ MaxRotations = 1 => old = EventsOf(arch[1])
           /\ \A i \in 1..MaxRotations : ToSet(EventsOf(arch[i])) \subseteq ToSet(old)
  <1> DEFINE ss == [i \in 1..MaxRotations |-> EventsOf(arch[i])]
  <1>1. /\ MaxRotations \in Nat \ {0} /\ cur \in 0..Len(files)
        /\ \A i \in 1..MaxRotations : arch[i] \in 0..Len(files)
    BY WalAssumption DEF WalTypes
  <1>2. ss \in [1..MaxRotations -> Seq(LineType)] /\ EventsOf(cur) \in Seq(LineType)
        /\ \A i \in 1..MaxRotations : ss[i] = EventsOf(arch[i])
    BY <1>1, EventsOfIs
  <1>3. LoadAll = FlattenSeq(ss) \o EventsOf(cur)
    BY DEF LoadAll
  <1>4. 1 \in 1..MaxRotations
    BY <1>1
  <1>5. ss \in [1..MaxRotations -> Seq(LineType)] /\ MaxRotations \in Nat \ {0}
    BY <1>1, <1>2
  <1> HIDE DEF ss
  <1>6. /\ FlattenSeq(ss) \in Seq(LineType)
        /\ MaxRotations = 1 => FlattenSeq(ss) = ss[1]
        /\ \A i \in 1..MaxRotations : ToSet(ss[i]) \subseteq ToSet(FlattenSeq(ss))
    BY <1>5, FlattenKeeps
  <1>. QED
    BY <1>2, <1>3, <1>4, <1>6 DEF ss

LEMMA Read ==
    ASSUME WalTypes, NEW e, InLog(e)
    PROVE  e \in ToSet(Readable)
  <1> DEFINE n == Len(files)
             old == FlattenSeq([i \in 1..MaxRotations |-> EventsOf(arch[i])])
             new == EventsOf(cur)
             Id(line) == <<line.w, line.n>>
  <1>1. /\ cur \in 0..n /\ \A i \in 1..MaxRotations : arch[i] \in 0..n
    BY DEF WalTypes
  <1>2. ASSUME NEW i \in 0..n, e \in EventsIn(Lines(i))
        PROVE  \E line \in ToSet(EventsOf(i)) : Id(line) = e
    <2>1. Lines(i) \in Seq(LineType) /\ DOMAIN Lines(i) = 1..Len(Lines(i))
      BY LinesType
    <2>2. EventsOf(i) \in Seq(LineType) /\ DOMAIN EventsOf(i) = 1..Len(EventsOf(i))
      BY EventsOfIs
    <2>3. PICK d : Selects(d, EventsOf(i), Lines(i), {k \in 1..Len(Lines(i)) : Lines(i)[k].kind = "event"})
      BY EventsOfIs
    <2>4. PICK k \in 1..Len(Lines(i)) : Lines(i)[k].kind = "event" /\ Id(Lines(i)[k]) = e
      BY <1>2, <2>1 DEF EventsIn
    <2>5. PICK l \in 1..Len(EventsOf(i)) : EventsOf(i)[l] = Lines(i)[k]
      BY <2>3, <2>4 DEF Selects
    <2>. QED
      BY <2>2, <2>4, <2>5 DEF ToSet
  <1>3. /\ LoadAll = old \o new /\ old \in Seq(LineType) /\ new \in Seq(LineType)
        /\ \A i \in 1..MaxRotations : ToSet(EventsOf(arch[i])) \subseteq ToSet(old)
    BY LoadIs
  <1> HIDE DEF old, new
  <1>4. \E line \in ToSet(old) \cup ToSet(new) : Id(line) = e
    <2>1. CASE e \in EventsIn(Lines(cur))
      BY <1>1, <1>2, <2>1 DEF new
    <2>2. ASSUME NEW i \in 1..MaxRotations, e \in EventsIn(Lines(arch[i]))
          PROVE  \E line \in ToSet(old) \cup ToSet(new) : Id(line) = e
      BY <1>1, <1>2, <1>3, <2>2
    <2>. QED
      BY <2>1, <2>2 DEF InLog
  <1>5. \A line \in ToSet(old) \cup ToSet(new) : \E k \in DOMAIN LoadAll : LoadAll[k] = line
    <2>1. /\ DOMAIN old = 1..Len(old) /\ DOMAIN new = 1..Len(new)
          /\ \A k \in 1..Len(old) : k \in DOMAIN (old \o new) /\ (old \o new)[k] = old[k]
          /\ \A k \in 1..Len(new) : Len(old) + k \in DOMAIN (old \o new)
                                    /\ (old \o new)[Len(old) + k] = new[k]
      BY <1>3
    <2>. QED
      BY <1>3, <2>1 DEF ToSet
  <1>6. PICK k \in DOMAIN LoadAll : Id(LoadAll[k]) = e
    BY <1>4, <1>5
  <1>. QED
    BY <1>6 DEF Readable, ToSet

LEMMA ExplainedLoss == WalBase /\ Explained => LossExplained
  BY Read DEF WalBase, Explained, LossExplained

-----------------------------------------------------------------------------
(* The numbers of a file                                                   *)

LEMMA PushWhole ==
    ASSUME NEW ls \in Seq(LineType), NEW line \in LineType, Whole(ls)
    PROVE  /\ Push(ls, line) = Append(ls, line)
           /\ Len(Push(ls, line)) = Len(ls) + 1 /\ Len(ls) \in Nat
           /\ Push(ls, line)[Len(ls) + 1] = line
           /\ \A k \in 1..Len(ls) : Push(ls, line)[k] = ls[k]
           /\ DOMAIN Push(ls, line) = 1..(Len(ls) + 1) /\ DOMAIN ls = 1..Len(ls)
  <1>1. ls # <<>> => Last(ls).kind # "torn"
    <2>1. ls # <<>> => Len(ls) \in DOMAIN ls
      OBVIOUS
    <2>. QED
      BY <2>1 DEF Whole, Last
  <1>2. Push(ls, line) = Append(ls, line)
    BY <1>1 DEF Push
  <1>. QED
    BY <1>2

LEMMA PushNumbered ==
    ASSUME NEW ls \in Seq(LineType), NEW line \in LineType, Whole(ls),
           line.kind \in {"marker", "event"}, line.kind = "event" => line.seq > 0
    PROVE  /\ Whole(Push(ls, line))
           /\ EventsNumbered(ls)
              /\ (line.kind = "event" => \A k \in 1..Len(ls) : ls[k].kind = "event" => ls[k].seq < line.seq)
                 => EventsNumbered(Push(ls, line))
           /\ Numbered(ls)
              /\ (\A k \in 1..Len(ls) : ls[k].seq <= line.seq
                                        /\ (line.kind = "event" => ls[k].seq < line.seq))
                 => Numbered(Push(ls, line))
  <1> DEFINE p == Push(ls, line)
             n == Len(ls)
  <1>1. /\ n \in Nat /\ p[n + 1] = line /\ \A k \in 1..n : p[k] = ls[k]
        /\ DOMAIN p = 1..(n + 1) /\ DOMAIN ls = 1..n
    BY PushWhole
  <1>2. \A k \in 1..(n + 1) : k = n + 1 \/ k \in 1..n
    BY <1>1
  <1>3. \A k, l \in 1..(n + 1) : k < l => k \in 1..n
    BY <1>1
  <1> HIDE DEF p, n
  <1>4. Whole(p)
    BY <1>1, <1>2 DEF Whole
  <1>5. ASSUME EventsNumbered(ls),
               line.kind = "event" => \A k \in 1..n : ls[k].kind = "event" => ls[k].seq < line.seq
        PROVE  EventsNumbered(p)
    <2> SUFFICES ASSUME NEW k \in 1..(n + 1), NEW l \in 1..(n + 1), k < l,
                        p[k].kind = "event", p[l].kind = "event"
                 PROVE  p[k].seq < p[l].seq
      BY <1>1 DEF EventsNumbered
    <2>1. k \in 1..n
      BY <1>3
    <2>2. CASE l = n + 1
      BY <1>1, <1>5, <2>1, <2>2
    <2>3. CASE l \in 1..n
      BY <1>1, <1>5, <2>1, <2>3 DEF EventsNumbered
    <2>. QED
      BY <1>2, <2>2, <2>3
  <1>6. ASSUME Numbered(ls),
               \A k \in 1..n : ls[k].seq <= line.seq /\ (line.kind = "event" => ls[k].seq < line.seq)
        PROVE  Numbered(p)
    <2> SUFFICES ASSUME NEW k \in 1..(n + 1), NEW l \in 1..(n + 1), k < l
                 PROVE  /\ p[k].seq <= p[l].seq
                        /\ p[l].kind = "event" => p[k].seq < p[l].seq
      BY <1>1 DEF Numbered
    <2>1. k \in 1..n
      BY <1>3
    <2>2. CASE l = n + 1
      BY <1>1, <1>6, <2>1, <2>2
    <2>3. CASE l \in 1..n
      BY <1>1, <1>6, <2>1, <2>3 DEF Numbered
    <2>. QED
      BY <1>2, <2>2, <2>3
  <1>. QED
    BY <1>4, <1>5, <1>6 DEF p, n

\* The copy of a file whose numbers are in order.
LEMMA CopyNumbered ==
    ASSUME WalTypes, Whole(Lines(cur)), Numbered(Lines(cur)), Lines(tmp) = <<>>,
           NEW base \in RecoveredSeqs(Lines(tmp))
    PROVE  /\ Whole(Copy(base)) /\ Numbered(Copy(base)) /\ EventsNumbered(Copy(base))
           /\ \A k \in DOMAIN Copy(base) :
                 \/ Copy(base)[k].seq = 0
                 \/ \E l \in DOMAIN Lines(cur) : Copy(base)[k].seq <= Lines(cur)[l].seq
  <1> DEFINE c == Copy(base)
             F == Lines(cur)
             marker == Line("marker", Nobody, 0, base)
  <1>1. /\ c \in Seq(LineType) /\ F \in Seq(LineType) /\ marker \in LineType
        /\ DOMAIN c = 1..Len(c) /\ DOMAIN F = 1..Len(F) /\ Len(c) \in Nat /\ Len(F) \in Nat
    <2>1. c \in Seq(LineType) /\ F \in Seq(LineType) /\ marker \in LineType
      BY CopyIs
    <2>. QED
      BY <2>1
  <1>2. base = 0
    <2>1. Lines(tmp) \in Seq(LineType)
      BY CopyIs
    <2>. QED
      BY <2>1, Recovered
  <1>3. marker.kind = "marker" /\ marker.seq = 0
    BY <1>2 DEF Line
  <1>4. \A k \in 1..Len(c) : \/ k = 1 /\ c[k] = marker
                             \/ \E i \in 1..Len(F) : c[k] = F[i] /\ Parses(F[i])
    BY CopyHolds
  <1>5. ASSUME NEW k \in 2..Len(c), NEW l \in 2..Len(c), k < l
        PROVE  \E i, j \in 1..Len(F) : i < j /\ c[k] = F[i] /\ c[l] = F[j]
    BY <1>5, CopyInOrder
  <1>6. Whole(F) /\ Numbered(F)
    OBVIOUS
  <1>12. c[1] = marker
    <2>1. Kept \in Seq(LineType) /\ Later \in Seq(LineType) /\ c = <<marker>> \o Kept \o Later
      BY CopyIs DEF Copy
    <2> HIDE DEF c, marker
    <2>. QED
      BY <2>1
  <1> HIDE DEF c, F, marker
  <1>7. \A i \in 1..Len(F) : F[i].seq \in Nat /\ (F[i].kind = "event" => F[i].seq > 0)
    <2>1. \A i \in 1..Len(F) : F[i] \in LineType
      BY <1>1
    <2>. QED
      BY <1>1, <1>6, <2>1 DEF Whole, LineType
  <1>8. Whole(c)
    BY <1>1, <1>3, <1>4, <1>7 DEF Whole, Parses
  <1>9. ASSUME NEW k \in 1..Len(c), NEW l \in 1..Len(c), k < l
        PROVE  c[k].seq <= c[l].seq /\ (c[l].kind = "event" => c[k].seq < c[l].seq)
    <2>1. CASE k \in 2..Len(c)
      <3>1. l \in 2..Len(c)
        BY <1>1, <1>9, <2>1
      <3>2. PICK i, j \in 1..Len(F) : i < j /\ c[k] = F[i] /\ c[l] = F[j]
        BY <1>5, <1>9, <2>1, <3>1
      <3>. QED
        BY <1>1, <1>6, <3>2 DEF Numbered
    <2>2. CASE k = 1
      <3>1. l # 1
        BY <1>9, <2>2
      <3>2. PICK j \in 1..Len(F) : c[l] = F[j]
        BY <1>4, <3>1
      <3>3. c[k].seq = 0
        BY <1>3, <1>12, <2>2
      <3>4. F[j].seq \in Nat /\ (F[j].kind = "event" => F[j].seq > 0)
        BY <1>7
      <3>. QED
        BY <3>2, <3>3, <3>4
    <2>. QED
      BY <1>1, <2>1, <2>2
  <1>10. Numbered(c) /\ EventsNumbered(c)
    BY <1>1, <1>9 DEF Numbered, EventsNumbered
  <1>11. \A k \in 1..Len(c) : c[k].seq = 0 \/ \E l \in 1..Len(F) : c[k].seq <= F[l].seq
    <2>1. \A i \in 1..Len(F) : F[i].seq <= F[i].seq
      BY <1>7
    <2>. QED
      BY <1>3, <1>4, <2>1
  <1>. QED
    BY <1>1, <1>8, <1>10, <1>11 DEF c, F

\* Files keep their lines, and a new one is empty: so do the current and the temporary file.
LEMMA SameLinesKeep ==
    ASSUME WalBase, WalTypes', SameLines, tmp' = tmp, cur # 0 => cur' = cur,
           \/ Len(files') = Len(files) /\ cur' \in {0, cur}
           \/ cur = 0 /\ Len(files') = Len(files) + 1 /\ files'[Len(files) + 1].lines = <<>>
              /\ cur' \in {0, Len(files) + 1}
    PROVE  /\ Lines(cur)' = Lines(cur) /\ Lines(tmp)' = Lines(tmp)
           /\ \A k \in 1..Len(files') : k \in 1..Len(files) \/ files'[k].lines = <<>>
  <1> DEFINE n == Len(files)
  <1>1. /\ n \in Nat /\ cur \in 0..n /\ tmp \in 0..n /\ Len(files') \in Nat
        /\ \A k \in 1..n : files'[k].lines = files[k].lines
    BY LinesType, LinesTypeNext DEF WalBase, WalTypes, SameLines
  <1>2. \A k \in 1..(n + 1) : k \in 1..n \/ k = n + 1
    BY <1>1
  <1>3. Lines(cur)' = Lines(cur)
    <2>1. CASE cur # 0
      BY <1>1, <2>1 DEF Lines
    <2>2. CASE cur = 0 /\ cur' = 0
      BY <2>2 DEF Lines
    <2>3. CASE cur = 0 /\ cur' = n + 1 /\ files'[n + 1].lines = <<>>
      BY <1>1, <2>3 DEF Lines
    <2>. QED
      BY <2>1, <2>2, <2>3
  <1>. QED
    BY <1>1, <1>2, <1>3 DEF Lines

LEMMA NumbersWriter ==
    ASSUME LogAssumption, WalBase, Numbering, faults = 0, faults' = 0, NEW w \in Writers, Writer(w)
    PROVE  Numbering'
  <1> DEFINE n == Len(files)
             fd == wr[w].fd
             C == Lines(cur)
  <1>1. /\ WalTypes /\ NamesApart /\ WalTypes' /\ WriterHolds(w) /\ n \in Nat /\ Len(files') \in Nat
        /\ cur \in 0..n /\ tmp \in 0..n /\ wr \in [Writers -> WriterType(n)] /\ wr[w] \in WriterType(n)
        /\ \A i \in 1..n : files[i].lines \in Seq(LineType) /\ Lines(i) = files[i].lines
        /\ C \in Seq(LineType) /\ DOMAIN files = 1..n /\ DOMAIN files' = 1..Len(files')
    <2>1. WalTypes'
      BY TypesStep DEF Next
    <2>. QED
      BY <2>1, LinesType, LinesTypeNext DEF WalBase, WalTypes
  <1>2. WriterEffect(w)
    BY WriterEffects
  <1>3. /\ tmp' = tmp /\ mt' = mt /\ (cur # 0 => cur' = cur)
        /\ \A v \in Writers \ {w} : ~ Alive(v) /\ wr'[v] = wr[v]
    BY <1>2 DEF WriterEffect
  <1>4. \A v \in Writers \ {w} : NumbersBelow(v)'
    BY <1>3 DEF NumbersBelow, Alive
  <1>5. ~ AppendFail(w)
    BY DEF AppendFail
  <1>6. /\ NumbersBelow(w) /\ (tmp # 0 => mt.pc = "cleanupRename") /\ CopyBelow
        /\ \A i \in 1..n : Whole(files[i].lines) /\ EventsNumbered(files[i].lines)
        /\ Numbered(C) /\ Numbered(Lines(tmp)) /\ Whole(C)
    <2>1. Whole(<<>>)
      BY DEF Whole
    <2>2. Lines(0) = <<>>
      BY DEF Lines
    <2>3. cur = 0 \/ cur \in 1..n
      BY <1>1
    <2>. QED
      BY <1>1, <2>1, <2>2, <2>3 DEF Numbering
  <1>7. CASE /\ SameLines /\ ~ AppendWrite(w) /\ (wr[w].pc = "createWrite" => wr'[w].pc = "closed")
             /\ \/ Len(files') = n
                \/ cur = 0 /\ cur' = n + 1 /\ Len(files') = n + 1 /\ files'[cur'].lines = <<>>
    <2>1. /\ Lines(cur)' = C /\ Lines(tmp)' = Lines(tmp)
          /\ \A k \in 1..Len(files') : k \in 1..n \/ files'[k].lines = <<>>
      <3>1. cur' \in 0..Len(files') /\ (cur = 0 => cur' = 0 \/ cur' = n + 1)
        BY <1>1, <1>2 DEF WalTypes, WriterEffect
      <3>2. \/ Len(files') = n /\ cur' \in {0, cur}
            \/ cur = 0 /\ Len(files') = n + 1 /\ files'[n + 1].lines = <<>> /\ cur' \in {0, n + 1}
        <4>1. CASE Len(files') = n
          <5>1. cur' \in 0..n
            BY <3>1, <4>1
          <5>2. cur' # n + 1
            BY <1>1, <5>1
          <5>. QED
            BY <1>3, <3>1, <4>1, <5>2
        <4>2. CASE cur = 0 /\ cur' = n + 1 /\ Len(files') = n + 1 /\ files'[cur'].lines = <<>>
          BY <4>2
        <4>. QED
          BY <1>7, <4>1, <4>2
      <3>. QED
        BY <1>1, <1>3, <1>7, <3>2, SameLinesKeep
    <2>2. \A k \in 1..Len(files') : Whole(files'[k].lines) /\ EventsNumbered(files'[k].lines)
      <3>1. Whole(<<>>) /\ EventsNumbered(<<>>)
        BY DEF Whole, EventsNumbered
      <3>. QED
        BY <1>6, <1>7, <2>1, <3>1 DEF SameLines
    <2>3. NumbersBelow(w)'
      <3>1. ASSUME wr'[w].pc \in {"createOpen", "createLock", "createWrite", "closed"}
            PROVE  NumbersBelow(w)'
        BY <3>1 DEF NumbersBelow
      <3>2. CASE CreateNew(w) \/ Close(w)
        BY <1>1, <3>1, <3>2 DEF CreateNew, OpenPath, Close, WriterType
      <3>3. CASE CreateOpen(w)
        <4>1. CASE cur = 0
          <5>1. Lines(cur)' = <<>> /\ wr'[w].pc = "ready" /\ wr'[w].seq = 1
            BY <1>1, <3>3, <4>1 DEF CreateOpen, WriterType, Lines
          <5>. QED
            BY <5>1 DEF NumbersBelow, Pending
        <4>2. CASE cur # 0
          BY <1>1, <3>1, <3>3, <4>2 DEF CreateOpen, OpenPath, WriterType
        <4>. QED
          BY <4>1, <4>2
      <3>4. CASE CreateMarker(w)
        BY <1>7, <3>1, <3>4 DEF CreateMarker
      <3>5. CASE WriterLock(w)
        <4>1. CASE wr[w].pc = "createLock"
          BY <1>1, <3>1, <3>5, <4>1 DEF WriterLock, WriterType
        <4>2. CASE wr[w].pc = "appendLock"
          <5>1. wr'[w].seq = wr[w].seq /\ wr'[w].fd = fd /\ fd \in 1..n /\ fd # 0
            BY <1>1, <3>5, <4>2 DEF WriterLock, WriterHolds, Opened, WriterType
          <5>2. IF wr'[w].fd = 0 THEN TRUE ELSE files'[wr'[w].fd].lines = files[fd].lines
            BY <1>7, <5>1 DEF SameLines
          <5>3. Lines(wr[w].fd)' = Lines(wr[w].fd)
            BY <5>1, <5>2 DEF Lines
          <5>. QED
            BY <1>6, <2>1, <4>2, <5>1, <5>3 DEF NumbersBelow, Pending
        <4>. QED
          BY <3>5, <4>1, <4>2 DEF WriterLock
      <3>6. CASE AppendOpen(w)
        <4>1. wr[w].pc = "ready" /\ wr'[w].fd = cur' /\ wr'[w].seq = wr[w].seq
          <5>1. wr' = [wr EXCEPT ![w] = [wr[w] EXCEPT !.pc = "appendLock", !.fd = cur', !.late = InRotationWindow]]
            BY <1>1, <3>6, OpenIs DEF AppendOpen
          <5>. QED
            BY <1>1, <3>6, <5>1 DEF AppendOpen, WriterType
        <4>2. Lines(wr[w].fd)' = Lines(cur)'
          BY <4>1 DEF Lines
        <4>. QED
          BY <1>6, <2>1, <4>1, <4>2 DEF NumbersBelow
      <3>. QED
        BY <1>5, <1>7, <3>2, <3>3, <3>4, <3>5, <3>6 DEF Writer
    <2>. QED
      BY <1>1, <1>3, <1>4, <1>6, <2>1, <2>2, <2>3 DEF Numbering, CopyBelow
  <1>8. ASSUME NEW line, Pushes(w, line)
        PROVE  Numbering'
    <2> DEFINE ls == files[fd].lines
               p == Push(ls, line)
    <2>1. /\ fd \in 1..n /\ line \in LineType /\ OtherLines(fd, p) /\ fd # tmp
          /\ line.kind \in {"marker", "event"} /\ UNCHANGED <<cur, tmp>>
      BY <1>1, <1>5, <1>8 DEF Pushes, WriterHolds, Opened, CreateMarker, AppendWrite, dirs
    <2>2. /\ ls \in Seq(LineType) /\ Whole(ls) /\ EventsNumbered(ls)
      BY <1>1, <1>6, <2>1
    \* what the line follows
    <2>3. /\ \A k \in 1..Len(C) : C[k].seq <= line.seq /\ (line.kind = "event" => C[k].seq < line.seq)
          /\ line.kind = "event" => line.seq > 0
                                    /\ \A k \in 1..Len(ls) : ls[k].kind = "event" => ls[k].seq < line.seq
          /\ wr'[w].pc = "ready" /\ wr'[w].seq = line.seq + 1 /\ line.seq \in Nat
      <3>1. DOMAIN C = 1..Len(C) /\ DOMAIN ls = 1..Len(ls) /\ line.seq \in Nat
            /\ \A k \in 1..Len(C) : C[k].seq \in Nat
        <4>1. \A k \in 1..Len(C) : C[k] \in LineType
          BY <1>1
        <4>2. \A k \in 1..Len(C) : C[k].seq \in Nat
          BY <4>1 DEF LineType
        <4>3. line.seq \in Nat
          BY <1>1, <2>1, <2>2 DEF LineType
        <4>. QED
          BY <1>1, <2>1, <2>2, <4>2, <4>3
      <3>2. CASE CreateMarker(w) /\ line.kind = "marker"
        <4>1. line.seq \in RecoveredSeqs(C) /\ wr'[w].pc = "ready" /\ wr'[w].seq = line.seq + 1
          BY <1>5, <1>8, <3>2 DEF Pushes
        <4>2. \A k \in 1..Len(C) : C[k].seq <= line.seq
          BY <1>1, <1>6, <4>1, Recovered
        <4>. QED
          BY <3>1, <3>2, <4>1, <4>2
      <3>3. CASE AppendWrite(w) /\ line.kind = "event"
        <4>1. line.seq = wr[w].seq /\ wr'[w].pc = "ready" /\ wr'[w].seq = line.seq + 1
          BY <1>5, <1>8, <3>3 DEF Pushes
        <4>2. wr[w].pc \in {"ready", "appendLock", "appendWrite"} /\ Pending(w)
          BY <3>3 DEF AppendWrite, Pending
        <4>3. /\ line.seq > 0 /\ \A k \in DOMAIN C : C[k].seq < line.seq
              /\ \A k \in DOMAIN Lines(fd) : Lines(fd)[k].kind = "event" => Lines(fd)[k].seq < line.seq
          BY <1>6, <4>1, <4>2 DEF NumbersBelow
        <4>4. Lines(fd) = ls
          BY <1>1, <2>1
        <4>. QED
          BY <3>1, <4>1, <4>3, <4>4
      <3>. QED
        BY <1>5, <1>8, <3>2, <3>3 DEF Pushes
    <2>4. Whole(p) /\ EventsNumbered(p)
      BY <2>1, <2>2, <2>3, PushNumbered
    <2>5. /\ Len(files') = n /\ \A k \in 1..n : files'[k].lines = IF k = fd THEN p ELSE files[k].lines
      BY <2>1 DEF OtherLines
    <2>6. Lines(tmp)' = Lines(tmp)
      BY <1>1, <2>1, <2>5 DEF Lines
    <2>7. Lines(cur)' = IF cur = fd THEN Push(C, line) ELSE C
      BY <1>1, <2>1, <2>5 DEF Lines
    <2> HIDE DEF p, ls, C
    <2>8. \A i \in 1..Len(files') : Whole(files'[i].lines) /\ EventsNumbered(files'[i].lines)
      BY <1>6, <2>4, <2>5
    <2>9. /\ C \in Seq(LineType) /\ Whole(C) /\ line \in LineType
      BY <1>1, <1>6, <2>1
    <2>10. Numbered(Push(C, line))
      BY <1>6, <2>1, <2>3, <2>9, PushNumbered
    <2>11. Numbered(Lines(cur)')
      BY <1>6, <2>7, <2>10
    <2>12. /\ DOMAIN C = 1..Len(C) /\ DOMAIN Push(C, line) = 1..(Len(C) + 1) /\ Len(C) \in Nat
           /\ \A k \in 1..Len(C) : Push(C, line)[k] = C[k]
           /\ Push(C, line)[Len(C) + 1] = line
      BY <2>9, PushWhole
    <2>13. \A k \in DOMAIN Lines(cur)' : Lines(cur)'[k].seq < line.seq + 1
      <3>1. \A k \in 1..Len(C) : C[k].seq \in Nat
        <4>1. \A k \in 1..Len(C) : C[k] \in LineType
          BY <2>9, <2>12
        <4>. QED
          BY <4>1 DEF LineType
      <3>2. ASSUME NEW k \in 1..Len(C) PROVE C[k].seq < line.seq + 1
        <4>1. C[k].seq <= line.seq /\ C[k].seq \in Nat /\ line.seq \in Nat
          BY <2>3, <3>1
        <4>. QED
          BY <4>1
      <3>3. line.seq < line.seq + 1
        BY <2>3
      <3>4. \A k \in 1..(Len(C) + 1) : k \in 1..Len(C) \/ k = Len(C) + 1
        BY <2>12
      <3>5. \A k \in DOMAIN Push(C, line) : Push(C, line)[k].seq < line.seq + 1
        BY <2>12, <3>2, <3>3, <3>4
      <3>. QED
        BY <2>7, <2>12, <3>2, <3>5
    <2>14. NumbersBelow(w)'
      <3>1. wr'[w].seq > 0 /\ ~ Pending(w)'
        BY <2>3 DEF Pending
      <3>. QED
        BY <2>3, <2>13, <3>1 DEF NumbersBelow
    <2>15. CopyBelow'
      <3>1. ASSUME NEW s, \E l \in DOMAIN C : s <= C[l].seq
            PROVE  \E l \in DOMAIN Lines(cur)' : s <= Lines(cur)'[l].seq
        <4>1. PICK l \in 1..Len(C) : s <= C[l].seq
          BY <2>12, <3>1
        <4>2. l \in 1..(Len(C) + 1)
          BY <2>12
        <4>. QED
          BY <2>7, <2>12, <4>1, <4>2
      <3>. QED
        BY <1>6, <2>6, <3>1 DEF CopyBelow, C
    <2>. QED
      BY <1>1, <1>3, <1>4, <1>6, <2>6, <2>8, <2>11, <2>14, <2>15 DEF Numbering
  <1>. QED
    BY <1>7, <1>8, WriterWrites

LEMMA NumbersMaintenance ==
    ASSUME LogAssumption, WalBase, Numbering, faults = 0, faults' = 0, Maintenance
    PROVE  Numbering'
  <1> DEFINE n == Len(files)
             C == Lines(cur)
  <1>1. /\ WalTypes /\ NamesApart /\ MaintHolds /\ WalTypes' /\ n \in Nat /\ Len(files') \in Nat
        /\ cur \in 0..n /\ tmp \in 0..n /\ mt \in MaintType(n) /\ mt.fd \in 0..n
        /\ \A i \in 1..n : files[i].lines \in Seq(LineType) /\ Lines(i) = files[i].lines
        /\ C \in Seq(LineType) /\ DOMAIN files = 1..n /\ DOMAIN files' = 1..Len(files')
    <2>1. WalTypes'
      BY TypesStep DEF Next
    <2>2. mt \in MaintType(n)
      BY DEF WalBase, WalTypes
    <2>3. mt.fd \in 0..n
      BY <2>2 DEF MaintType
    <2>. QED
      BY <2>1, <2>3, LinesType, LinesTypeNext DEF WalBase, WalTypes
  <1>14. MaintHolds /\ (cur # 0 => cur \in 1..n) /\ (mt.fd # 0 => mt.fd \in 1..n)
    BY <1>1
  <1>2. ~ Crash /\ ~ CleanupFail
    BY DEF Crash, CleanupFail
  <1>3. \A w \in Writers : SameFields(w)
    BY <1>2, MaintenanceEffects DEF MaintenanceEffect
  <1>4. Numbered(<<>>) /\ Whole(<<>>) /\ EventsNumbered(<<>>) /\ Lines(0) = <<>>
    BY DEF Numbered, Whole, EventsNumbered, Lines
  <1>5. /\ (tmp # 0 => mt.pc = "cleanupRename") /\ CopyBelow
        /\ \A i \in 1..n : Whole(files[i].lines) /\ EventsNumbered(files[i].lines)
        /\ Numbered(C) /\ Numbered(Lines(tmp)) /\ Whole(C)
        /\ \A w \in Writers : NumbersBelow(w)
    BY <1>1, <1>4 DEF Numbering
  \* the writers' numbers stay above
  <1>6. ASSUME \A w \in Writers : wr[w].pc \in {"ready", "appendLock", "appendWrite"} =>
                   \A k \in DOMAIN Lines(cur)' : Lines(cur)'[k].seq < wr[w].seq,
               \A k \in 1..n : files'[k].lines = files[k].lines \/ files'[k].lines = <<>> \/ k = tmp
        PROVE  \A w \in Writers : NumbersBelow(w)'
    <2> TAKE w \in Writers
    <2>1. SameFields(w) /\ NumbersBelow(w) /\ WriterHolds(w) /\ wr[w] \in WriterType(n)
      BY <1>1, <1>3, <1>5 DEF WalBase, WalTypes
    <2>2. ASSUME Pending(w), NEW k \in DOMAIN Lines(wr[w].fd)', Lines(wr[w].fd)'[k].kind = "event"
          PROVE  Lines(wr[w].fd)'[k].seq < wr[w].seq
      <3>1. wr[w].fd \in 1..n /\ wr[w].fd # tmp /\ wr'[w].fd = wr[w].fd
        BY <2>1, <2>2 DEF Pending, Opened, WriterHolds, WriterType, SameFields
      <3>2. Lines(wr[w].fd)' = files'[wr[w].fd].lines /\ Lines(wr[w].fd) = files[wr[w].fd].lines
        BY <3>1 DEF Lines
      <3>3. Lines(wr[w].fd)' = Lines(wr[w].fd) \/ Lines(wr[w].fd)' = <<>>
        BY <1>6, <3>1, <3>2
      <3>4. Lines(wr[w].fd)' # <<>>
        BY <2>2
      <3>5. wr[w].pc \in {"ready", "appendLock", "appendWrite"}
        BY <2>2 DEF Pending
      <3>. QED
        BY <2>1, <2>2, <3>3, <3>4, <3>5 DEF NumbersBelow
    <2>3. Pending(w)' <=> Pending(w)
      BY <2>1 DEF SameFields, Pending
    <2>. QED
      BY <1>6, <2>1, <2>2, <2>3 DEF NumbersBelow, SameFields
  <1>7. \A w \in Writers : wr[w].pc \in {"ready", "appendLock", "appendWrite"} =>
            wr[w].seq > 0 /\ \A k \in DOMAIN C : C[k].seq < wr[w].seq
    BY <1>5 DEF NumbersBelow
  <1>8. \A w \in Writers : wr[w].seq \in Nat
    BY <1>1 DEF WalTypes, WriterType
  <1>9. CASE CleanupOpen \/ CleanupLock \/ CleanupNothing \/ CleanupUnlock \/ RotateOpen \/ RotateLock
    <2>1. tmp = 0 /\ tmp' = 0 /\ cur' = cur
      BY <1>5, <1>9 DEF CleanupOpen, CleanupLock, CleanupNothing, CleanupUnlock, RotateOpen, RotateLock,
                        dirs
    <2>2. SameLines /\ Len(files') = n
      <3>1. CASE CleanupOpen \/ RotateOpen
        <4>1. files' = files /\ files \in Seq(File)
          BY <1>1, <3>1 DEF CleanupOpen, RotateOpen, WalTypes
        <4>. QED
          BY <1>1, <4>1 DEF SameLines
      <3>2. CASE CleanupLock \/ CleanupNothing \/ CleanupUnlock \/ RotateLock
        <4>1. mt.fd \in 1..n
          BY <1>14, <3>2 DEF CleanupLock, CleanupNothing, CleanupUnlock, RotateLock, MaintHolds
        <4>2. \E who \in Owners : files' = [files EXCEPT ![mt.fd].flock = who]
          BY <3>2, <4>1 DEF CleanupLock, CleanupNothing, CleanupUnlock, RotateLock, Lock, Owners
        <4>. QED
          BY <1>1, <4>1, <4>2, LockIs
      <3>. QED
        BY <1>9, <3>1, <3>2
    <2>3. Lines(cur)' = C /\ Lines(tmp)' = Lines(tmp)
      BY <1>1, <2>1, <2>2, SameLinesKeep
    <2>4. \A w \in Writers : NumbersBelow(w)'
      BY <1>6, <1>7, <2>2, <2>3 DEF SameLines
    <2>5. \A i \in 1..Len(files') : Whole(files'[i].lines) /\ EventsNumbered(files'[i].lines)
      BY <1>5, <2>2 DEF SameLines
    <2>6. CopyBelow'
      BY <1>5, <2>3 DEF CopyBelow
    <2>. QED
      BY <1>1, <1>5, <2>1, <2>3, <2>4, <2>5, <2>6 DEF Numbering
  <1>10. CASE CleanupWrite
    <2>1. tmp = 0 /\ cur' = cur /\ Lines(tmp) = <<>> /\ mt'.pc = "cleanupRename"
      BY <1>1, <1>4, <1>5, <1>10 DEF CleanupWrite, Step, MaintType
    <2>2. PICK base \in RecoveredSeqs(Lines(tmp)) : WriteTemp(Copy(base))
      BY <1>1, <1>10, CopyIs DEF CleanupWrite
    <2> DEFINE ls == Copy(base)
    <2>3. /\ Whole(ls) /\ Numbered(ls) /\ EventsNumbered(ls) /\ ls \in Seq(LineType)
          /\ \A k \in DOMAIN ls : ls[k].seq = 0 \/ \E l \in DOMAIN C : ls[k].seq <= C[l].seq
      <3>1. ls \in Seq(LineType)
        BY <1>1, CopyIs
      <3>. QED
        BY <1>1, <1>5, <2>1, <3>1, CopyNumbered
    <2>4. WriteTemp(ls)
      BY <2>2
    <2> HIDE DEF ls
    <2>5. /\ Len(files') = n + 1 /\ tmp' = n + 1 /\ files'[n + 1].lines = ls
          /\ \A k \in 1..n : files'[k].lines = files[k].lines
      <3>1. /\ \A k \in 1..n : k # tmp => files'[k].lines = files[k].lines
            /\ tmp = 0 => tmp' = n + 1 /\ files'[tmp'].lines = ls /\ Len(files') = n + 1
        BY <1>1, <2>3, <2>4, TempIs
      <3>2. \A k \in 1..n : k # tmp
        BY <1>1, <2>1
      <3>. QED
        BY <2>1, <3>1, <3>2
    <2>6. Lines(cur)' = C /\ Lines(tmp)' = ls
      <3>1. n + 1 # 0
        BY <1>1
      <3>. QED
        BY <1>1, <2>1, <2>5, <3>1 DEF Lines
    <2>7. \A i \in 1..Len(files') : Whole(files'[i].lines) /\ EventsNumbered(files'[i].lines)
      <3>1. \A i \in 1..(n + 1) : i \in 1..n \/ i = n + 1
        BY <1>1
      <3>. QED
        BY <1>5, <2>3, <2>5, <3>1
    <2>8. \A w \in Writers : NumbersBelow(w)'
      BY <1>6, <1>7, <2>5, <2>6
    <2>9. CopyBelow'
      BY <2>3, <2>6 DEF CopyBelow
    <2>. QED
      BY <1>1, <1>5, <2>1, <2>3, <2>6, <2>7, <2>8, <2>9 DEF Numbering
  <1>11. CASE CleanupRename
    <2>1. tmp \in 1..n /\ cur' = tmp /\ tmp' = 0 /\ mt.fd \in 1..n
      BY <1>1, <1>11 DEF CleanupRename, MaintHolds
    <2>2. SameLines /\ Len(files') = n
      <3>1. files' = [files EXCEPT ![mt.fd].flock = Nobody] /\ Nobody \in Owners
        BY <1>11 DEF CleanupRename, Owners
      <3>. QED
        BY <1>1, <2>1, <3>1, LockIs
    <2>3. Lines(cur)' = Lines(tmp) /\ Lines(tmp)' = <<>>
      BY <2>1, <2>2 DEF SameLines, Lines
    <2>4. ASSUME NEW w \in Writers, wr[w].pc \in {"ready", "appendLock", "appendWrite"},
                 NEW k \in DOMAIN Lines(tmp)
          PROVE  Lines(tmp)[k].seq < wr[w].seq
      <3>1. wr[w].seq > 0 /\ wr[w].seq \in Nat /\ \A l \in DOMAIN C : C[l].seq < wr[w].seq
        BY <1>7, <1>8, <2>4
      <3>2. Lines(tmp)[k].seq = 0 \/ \E l \in DOMAIN C : Lines(tmp)[k].seq <= C[l].seq
        BY <1>5, <2>4 DEF CopyBelow
      <3>3. CASE Lines(tmp)[k].seq = 0
        BY <3>1, <3>3
      <3>4. ASSUME NEW l \in DOMAIN C, Lines(tmp)[k].seq <= C[l].seq
            PROVE  Lines(tmp)[k].seq < wr[w].seq
        <4>1. Lines(tmp) \in Seq(LineType)
          BY <1>1, <2>1
        <4>2. Lines(tmp)[k] \in LineType /\ C[l] \in LineType
          BY <1>1, <2>4, <4>1
        <4>3. Lines(tmp)[k].seq \in Nat /\ C[l].seq \in Nat
          BY <4>2 DEF LineType
        <4>. QED
          BY <3>1, <3>4, <4>3
      <3>. QED
        BY <3>2, <3>3, <3>4
    <2>5. \A w \in Writers : NumbersBelow(w)'
      BY <1>6, <2>2, <2>3, <2>4 DEF SameLines
    <2>6. \A i \in 1..Len(files') : Whole(files'[i].lines) /\ EventsNumbered(files'[i].lines)
      BY <1>5, <2>2 DEF SameLines
    <2>7. CopyBelow'
      BY <2>3 DEF CopyBelow
    <2>. QED
      BY <1>1, <1>4, <1>5, <2>1, <2>3, <2>5, <2>6, <2>7 DEF Numbering
  <1>12. CASE RotateRename
    <2>1. tmp = 0 /\ tmp' = 0 /\ cur' = 0 /\ files' = files
      BY <1>5, <1>12 DEF RotateRename
    <2>2. Lines(cur)' = <<>> /\ Lines(tmp)' = <<>>
      BY <2>1 DEF Lines
    <2>3. \A w \in Writers : NumbersBelow(w)'
      BY <1>6, <2>1, <2>2
    <2>4. CopyBelow'
      BY <2>2 DEF CopyBelow
    <2>. QED
      BY <1>1, <1>4, <1>5, <2>1, <2>2, <2>3, <2>4 DEF Numbering
  <1>13. CASE RotateCreate
    <2>1. tmp = 0 /\ tmp' = 0 /\ mt.fd \in 1..n
      <3>1. tmp = 0 /\ tmp' = tmp
        BY <1>5, <1>13 DEF RotateCreate
      <3>2. mt.fd # 0
        BY <1>13, <1>14 DEF RotateCreate, MaintHolds, InRotationWindow
      <3>. QED
        BY <1>14, <3>1, <3>2
    <2>2. /\ cur' \in 1..Len(files') /\ files'[cur'].lines = <<>>
          /\ \A k \in 1..n : files'[k].lines = IF k = cur THEN <<>> ELSE files[k].lines
          /\ Len(files') = n \/ (Len(files') = n + 1 /\ cur' = n + 1)
      <3>1. /\ cur' \in 1..Len(files') /\ files'[cur'].lines = <<>>
            /\ \A k \in 1..n : files'[k].lines = IF k = cur THEN <<>> ELSE files[k].lines
        BY <1>1, <1>13, <2>1, EmptiedIs
      <3>2. Len(files') = n \/ (Len(files') = n + 1 /\ cur' = n + 1)
        BY <1>1, <1>13, <2>1, EmptiedIs
      <3>. QED
        BY <3>1, <3>2
    <2>3. Lines(cur)' = <<>> /\ Lines(tmp)' = <<>>
      BY <2>1, <2>2 DEF Lines
    <2>4. \A w \in Writers : NumbersBelow(w)'
      BY <1>6, <2>2, <2>3
    <2>5. \A i \in 1..Len(files') : Whole(files'[i].lines) /\ EventsNumbered(files'[i].lines)
      <3>1. \A i \in 1..(n + 1) : i \in 1..n \/ i = n + 1
        BY <1>1
      <3>2. \A i \in 1..Len(files') : i \in 1..n \/ i = cur'
        BY <2>2, <3>1
      <3>. QED
        BY <1>4, <1>5, <2>2, <3>2
    <2>6. CopyBelow'
      BY <2>3 DEF CopyBelow
    <2>. QED
      BY <1>1, <1>4, <2>1, <2>3, <2>4, <2>5, <2>6 DEF Numbering
  <1>. QED
    BY <1>2, <1>9, <1>10, <1>11, <1>12, <1>13 DEF Maintenance

LEMMA NumberingInit == LogAssumption /\ Init => Numbering
  <1> SUFFICES ASSUME Init
               PROVE  Numbering
    OBVIOUS
  <1>1. DOMAIN files = {} /\ Lines(cur) = <<>> /\ Lines(tmp) = <<>>
    BY DEF Init, Lines
  <1>. QED
    BY <1>1 DEF Init, Numbering, CopyBelow, Numbered, NumbersBelow

LEMMA NumberingStep ==
    LogAssumption /\ WalBase /\ Numbering /\ faults = 0 /\ faults' = 0 /\ [Next]_vars => Numbering'
  <1> SUFFICES ASSUME LogAssumption, WalBase, Numbering, faults = 0, faults' = 0, [Next]_vars
               PROVE  Numbering'
    OBVIOUS
  <1>1. CASE Tick \/ UNCHANGED vars
    <2>1. files' = files /\ cur' = cur /\ tmp' = tmp /\ mt' = mt /\ wr' = wr
      BY <1>1 DEF Tick, vars, dirs
    <2>2. Lines(cur)' = Lines(cur) /\ Lines(tmp)' = Lines(tmp)
          /\ \A w : Lines(wr[w].fd)' = Lines(wr[w].fd)
      BY <2>1 DEF Lines
    <2>3. \A w \in Writers : NumbersBelow(w)'
      BY <2>1, <2>2 DEF Numbering, NumbersBelow, Pending
    <2>. QED
      BY <2>1, <2>2, <2>3 DEF Numbering, CopyBelow
  <1>. QED
    BY <1>1, NumbersWriter, NumbersMaintenance DEF Next

\* No two events of a file have a number in common.
LEMMA NumberedDistinct == WalBase /\ Numbering => EventSeqsDistinct
  <1> SUFFICES ASSUME WalBase, Numbering, NEW i \in DOMAIN files,
                      NEW k \in DOMAIN files[i].lines, NEW l \in DOMAIN files[i].lines,
                      files[i].lines[k].kind = "event", files[i].lines[l].kind = "event", k # l
               PROVE  files[i].lines[k].seq # files[i].lines[l].seq
    BY DEF EventSeqsDistinct
  <1>1. /\ files[i].lines \in Seq(LineType) /\ EventsNumbered(files[i].lines)
        /\ DOMAIN files[i].lines = 1..Len(files[i].lines)
    BY LinesType DEF WalBase, Numbering
  <1>2. files[i].lines[k] \in LineType /\ files[i].lines[l] \in LineType /\ k \in Nat /\ l \in Nat
    BY <1>1
  <1>3. files[i].lines[k].seq \in Nat /\ files[i].lines[l].seq \in Nat /\ (k < l \/ l < k)
    BY <1>2 DEF LineType
  <1>. QED
    BY <1>1, <1>3 DEF EventsNumbered

-----------------------------------------------------------------------------
(* The order of what is read                                               *)

LEMMA PushTimed ==
    ASSUME NEW ls \in Seq(LineType), NEW line \in LineType, Whole(ls), Timed(ls),
           \A k \in DOMAIN ls : ls[k].ts <= line.ts
    PROVE  /\ Timed(Push(ls, line))
           /\ \A k \in DOMAIN Push(ls, line) : Push(ls, line)[k].ts <= line.ts
           /\ \A k \in DOMAIN Push(ls, line) : Push(ls, line)[k] = line
                                               \/ \E i \in DOMAIN ls : Push(ls, line)[k] = ls[i]
  <1> DEFINE p == Push(ls, line)
             n == Len(ls)
  <1>1. /\ n \in Nat /\ p[n + 1] = line /\ \A k \in 1..n : p[k] = ls[k]
        /\ DOMAIN p = 1..(n + 1) /\ DOMAIN ls = 1..n
    BY PushWhole
  <1>2. /\ \A k \in 1..(n + 1) : k = n + 1 \/ k \in 1..n
        /\ \A k, l \in 1..(n + 1) : k < l => k \in 1..n
    BY <1>1
  <1>3. line.ts \in Nat /\ line.ts <= line.ts
    BY WalAssumption DEF LineType
  <1> HIDE DEF p, n
  <1>4. \A k \in DOMAIN p : p[k].ts <= line.ts
    BY <1>1, <1>2, <1>3
  <1>5. Timed(p)
    <2> SUFFICES ASSUME NEW k \in 1..(n + 1), NEW l \in 1..(n + 1), k < l,
                        p[k].kind = "event", p[l].kind = "event"
                 PROVE  p[k].ts <= p[l].ts
      BY <1>1 DEF Timed
    <2>1. k \in 1..n
      BY <1>2
    <2>2. CASE l = n + 1
      BY <1>1, <1>4, <2>1, <2>2
    <2>3. CASE l \in 1..n
      BY <1>1, <2>1, <2>3 DEF Timed
    <2>. QED
      BY <1>2, <2>2, <2>3
  <1>6. \A k \in DOMAIN p : p[k] = line \/ \E i \in DOMAIN ls : p[k] = ls[i]
    BY <1>1, <1>2
  <1>. QED
    BY <1>4, <1>5, <1>6 DEF p

\* What Timing says of a file.
Dated(ls) == Timed(ls) /\ \A k \in DOMAIN ls : ls[k].ts <= clock

LEMMA TimingWriter ==
    ASSUME LogAssumption, WalBase, Numbering, Timing, faults = 0, faults' = 0,
           NEW w \in Writers, Writer(w)
    PROVE  Timing'
  <1> DEFINE n == Len(files)
             fd == wr[w].fd
             A == Lines(arch[1])
             C == Lines(cur)
             T == Lines(tmp)
  <1>1. /\ WalTypes /\ NamesApart /\ MaintHolds /\ WalTypes' /\ WriterHolds(w) /\ PendingWhere(w)
        /\ n \in Nat /\ Len(files') \in Nat
        /\ cur \in 0..n /\ tmp \in 0..n /\ arch[1] \in 0..n /\ wr[w] \in WriterType(n)
        /\ \A i \in 1..n : files[i].lines \in Seq(LineType) /\ Lines(i) = files[i].lines
        /\ DOMAIN files = 1..n /\ DOMAIN files' = 1..Len(files')
        /\ Before(A, C) /\ Before(A, T)
        /\ \A i \in 1..n : Whole(files[i].lines) /\ Dated(files[i].lines)
        /\ tmp # 0 => mt.pc = "cleanupRename"
        /\ arch[1] # 0 => arch[1] # cur /\ arch[1] # tmp
    <2>1. WalTypes'
      BY TypesStep DEF Next
    <2>2. 1 \in 1..MaxRotations
      BY WalAssumption
    <2>3. DOMAIN files = 1..n
      BY LinesType DEF WalBase
    <2>4. \A i \in 1..n : Whole(files[i].lines) /\ Dated(files[i].lines)
      BY <2>3 DEF Numbering, Timing, Dated
    <2>5. arch[1] # 0 => arch[1] # cur /\ arch[1] # tmp
      BY <2>2 DEF WalBase, NamesApart
    <2>6. Before(A, C) /\ Before(A, T) /\ (tmp # 0 => mt.pc = "cleanupRename")
      BY DEF Numbering, Timing
    <2>. QED
      BY <2>1, <2>2, <2>4, <2>5, <2>6, LinesType, LinesTypeNext DEF WalBase, WalTypes
  <1>2. WriterEffect(w) /\ ~ AppendFail(w)
    BY WriterEffects DEF AppendFail
  <1>3. arch' = arch /\ tmp' = tmp /\ clock' = clock /\ (cur # 0 => cur' = cur)
        /\ (cur = 0 => cur' = 0 \/ cur' = n + 1)
    BY <1>2 DEF WriterEffect
  <1>4. CASE SameLines /\ \/ Len(files') = n
                          \/ cur = 0 /\ cur' = n + 1 /\ Len(files') = n + 1 /\ files'[cur'].lines = <<>>
    <2>1. \/ Len(files') = n /\ cur' \in {0, cur}
          \/ cur = 0 /\ Len(files') = n + 1 /\ files'[n + 1].lines = <<>> /\ cur' \in {0, n + 1}
      <3>1. CASE Len(files') = n
        <4>1. cur' \in 0..n
          BY <1>1, <3>1 DEF WalTypes
        <4>2. cur' # n + 1
          BY <1>1, <4>1
        <4>. QED
          BY <1>3, <3>1, <4>2
      <3>2. CASE cur = 0 /\ cur' = n + 1 /\ Len(files') = n + 1 /\ files'[cur'].lines = <<>>
        BY <3>2
      <3>. QED
        BY <1>4, <3>1, <3>2
    <2>2. /\ Lines(cur)' = C /\ Lines(tmp)' = T
          /\ \A k \in 1..Len(files') : k \in 1..n \/ files'[k].lines = <<>>
      BY <1>1, <1>3, <1>4, <2>1, SameLinesKeep
    <2>3. Lines(arch[1])' = A
      <3>1. arch'[1] = arch[1] /\ (arch[1] # 0 => arch[1] \in 1..n)
        BY <1>1, <1>3
      <3>2. arch[1] # 0 => files'[arch[1]].lines = files[arch[1]].lines
        BY <1>4, <3>1 DEF SameLines
      <3>. QED
        BY <3>1, <3>2 DEF Lines
    <2>4. \A k \in 1..Len(files') : Dated(files'[k].lines)
      <3>1. Dated(<<>>)
        BY DEF Dated, Timed
      <3>. QED
        BY <1>1, <1>4, <2>2, <3>1 DEF SameLines
    <2>. QED
      BY <1>1, <1>3, <2>2, <2>3, <2>4 DEF Timing, Dated
  <1>5. ASSUME NEW line, Pushes(w, line)
        PROVE  Timing'
    <2> DEFINE ls == files[fd].lines
               p == Push(ls, line)
    <2>1. /\ fd \in 1..n /\ line \in LineType /\ OtherLines(fd, p) /\ fd # tmp /\ line.ts = clock
          /\ cur' = cur /\ (line.kind = "event" => AppendWrite(w))
      BY <1>1, <1>2, <1>5 DEF Pushes, WriterHolds, Opened, CreateMarker, AppendWrite, dirs
    <2>2. /\ ls \in Seq(LineType) /\ Whole(ls) /\ Timed(ls) /\ \A k \in DOMAIN ls : ls[k].ts <= line.ts
      BY <1>1, <2>1 DEF Dated
    <2>3. /\ Timed(p) /\ \A k \in DOMAIN p : p[k].ts <= clock
          /\ \A k \in DOMAIN p : p[k] = line \/ \E i \in DOMAIN ls : p[k] = ls[i]
      BY <2>1, <2>2, PushTimed
    <2>4. /\ Len(files') = n /\ \A k \in 1..n : files'[k].lines = IF k = fd THEN p ELSE files[k].lines
      BY <2>1 DEF OtherLines
    <2>5. /\ Lines(cur)' = IF cur = fd THEN p ELSE C
          /\ Lines(arch[1])' = IF arch[1] = fd THEN p ELSE A
          /\ Lines(tmp)' = T
          /\ cur = fd => C = ls
          /\ arch[1] = fd => A = ls
      BY <1>1, <1>3, <2>1, <2>4 DEF Lines
    <2>6. \A i \in 1..n : Dated(files'[i].lines)
      BY <1>1, <2>3, <2>4 DEF Dated
    <2>7. \A k \in DOMAIN A : A[k].ts <= clock
      <3>1. CASE arch[1] = 0
        BY <3>1 DEF Lines
      <3>2. CASE arch[1] # 0
        BY <1>1, <3>2 DEF Dated
      <3>. QED
        BY <3>1, <3>2
    \* an event is not pushed to the newest archive once something came after it
    <2>8. line.kind = "event" /\ arch[1] = fd => C = <<>> /\ T = <<>>
      <3>1. ASSUME line.kind = "event", arch[1] = fd PROVE C = <<>> /\ T = <<>>
        <4>1. Pending(w)
          BY <2>1, <3>1 DEF AppendWrite, Pending
        <4>2. C = <<>>
          <5>1. 1 \in 1..MaxRotations
            BY WalAssumption
          <5>. QED
            BY <1>1, <2>1, <3>1, <4>1, <5>1 DEF PendingWhere
        <4>3. tmp = 0
          BY <1>1, <4>2 DEF MaintHolds
        <4>. QED
          BY <4>2, <4>3 DEF Lines
      <3>. QED
        BY <3>1
    <2> HIDE DEF p, ls, A, C, T
    <2>9. Before(Lines(arch[1])', Lines(cur)')
      <3>1. CASE cur = fd
        <4>1. Lines(arch[1])' = A /\ Lines(cur)' = p
          BY <1>1, <2>1, <2>5, <3>1
        <4>. QED
          BY <1>1, <2>1, <2>3, <2>5, <2>7, <3>1, <4>1 DEF Before
      <3>2. CASE cur # fd /\ arch[1] = fd
        <4>1. Lines(arch[1])' = p /\ Lines(cur)' = C /\ A = ls
          BY <2>5, <3>2
        <4>. QED
          BY <1>1, <2>3, <2>8, <3>2, <4>1 DEF Before
      <3>3. CASE cur # fd /\ arch[1] # fd
        BY <1>1, <2>5, <3>3
      <3>. QED
        BY <3>1, <3>2, <3>3
    <2>10. Before(Lines(arch[1])', Lines(tmp)')
      <3>1. CASE arch[1] = fd
        <4>1. Lines(arch[1])' = p /\ Lines(tmp)' = T /\ A = ls
          BY <2>5, <3>1
        <4>. QED
          BY <1>1, <2>3, <2>8, <3>1, <4>1 DEF Before
      <3>2. CASE arch[1] # fd
        BY <1>1, <2>5, <3>2
      <3>. QED
        BY <3>1, <3>2
    <2>. QED
      BY <1>1, <1>3, <2>4, <2>6, <2>9, <2>10 DEF Timing, Dated
  <1>. QED
    BY <1>4, <1>5, WriterWrites

LEMMA TimingMaintenance ==
    ASSUME LogAssumption, WalBase, Numbering, Timing, faults = 0, faults' = 0, Maintenance
    PROVE  Timing'
  <1> DEFINE n == Len(files)
             A == Lines(arch[1])
             C == Lines(cur)
             T == Lines(tmp)
  <1>1. /\ WalTypes /\ NamesApart /\ MaintHolds /\ WalTypes' /\ n \in Nat /\ Len(files') \in Nat
        /\ cur \in 0..n /\ tmp \in 0..n /\ arch[1] \in 0..n
        /\ \A i \in 1..n : files[i].lines \in Seq(LineType) /\ Lines(i) = files[i].lines
        /\ DOMAIN files = 1..n /\ DOMAIN files' = 1..Len(files')
        /\ Before(A, C) /\ Before(A, T)
        /\ \A i \in 1..n : Dated(files[i].lines)
        /\ tmp # 0 => mt.pc = "cleanupRename"
        /\ arch[1] # 0 => arch[1] # cur /\ arch[1] # tmp
        /\ Numbered(C) /\ MaxRotations \in Nat \ {0}
    <2>1. WalTypes'
      BY TypesStep DEF Next
    <2>2. 1 \in 1..MaxRotations /\ MaxRotations \in Nat \ {0}
      BY WalAssumption
    <2>3. DOMAIN files = 1..n
      BY LinesType DEF WalBase
    <2>4. \A i \in 1..n : Dated(files[i].lines)
      BY <2>3 DEF Timing, Dated
    <2>5. arch[1] # 0 => arch[1] # cur /\ arch[1] # tmp
      BY <2>2 DEF WalBase, NamesApart
    <2>6. Before(A, C) /\ Before(A, T) /\ (tmp # 0 => mt.pc = "cleanupRename") /\ Numbered(C)
      BY DEF Numbering, Timing
    <2>. QED
      BY <2>1, <2>2, <2>4, <2>5, <2>6, LinesType, LinesTypeNext DEF WalBase, WalTypes
  <1>2. /\ ~ Crash /\ ~ CleanupFail
        /\ clock' = clock /\ Len(files') >= n
    BY MaintenanceEffects DEF Crash, CleanupFail, MaintenanceEffect
  <1>3. (cur # 0 => cur \in 1..n) /\ (mt.fd # 0 => mt.fd \in 1..n) /\ (arch[1] # 0 => arch[1] \in 1..n)
    <2>1. mt \in MaintType(n)
      BY <1>1 DEF WalTypes
    <2>2. mt.fd \in 0..n
      BY <2>1 DEF MaintType
    <2>. QED
      BY <1>1, <2>2
  <1>4. \A ls : Before(ls, <<>>) /\ Before(<<>>, ls) /\ Dated(<<>>)
    BY DEF Before, Dated, Timed
  <1>5. CASE CleanupOpen \/ CleanupLock \/ CleanupNothing \/ CleanupUnlock \/ RotateOpen \/ RotateLock
    <2>1. tmp' = tmp /\ cur' = cur /\ arch' = arch
      BY <1>5 DEF CleanupOpen, CleanupLock, CleanupNothing, CleanupUnlock, RotateOpen, RotateLock, dirs
    <2>2. SameLines /\ Len(files') = n
      <3>1. CASE CleanupOpen \/ RotateOpen
        <4>1. files' = files /\ files \in Seq(File)
          BY <1>1, <3>1 DEF CleanupOpen, RotateOpen, WalTypes
        <4>. QED
          BY <1>1, <4>1 DEF SameLines
      <3>2. CASE CleanupLock \/ CleanupNothing \/ CleanupUnlock \/ RotateLock
        <4>1. mt.fd \in 1..n
          BY <1>1, <1>3, <3>2 DEF CleanupLock, CleanupNothing, CleanupUnlock, RotateLock, MaintHolds
        <4>2. \E who \in Owners : files' = [files EXCEPT ![mt.fd].flock = who]
          BY <3>2, <4>1 DEF CleanupLock, CleanupNothing, CleanupUnlock, RotateLock, Lock, Owners
        <4>. QED
          BY <1>1, <4>1, <4>2, LockIs
      <3>. QED
        BY <1>5, <3>1, <3>2
    <2>3. Lines(cur)' = C /\ Lines(tmp)' = T /\ Lines(arch[1])' = A
      BY <1>1, <2>1, <2>2 DEF Lines, SameLines
    <2>. QED
      BY <1>1, <1>2, <2>2, <2>3 DEF Timing, Dated, SameLines
  <1>6. CASE CleanupWrite
    <2>1. tmp = 0 /\ cur' = cur /\ arch' = arch /\ T = <<>> /\ cur \in 1..n
      BY <1>1, <1>3, <1>6 DEF CleanupWrite, MaintHolds, Lines
    <2>2. PICK base \in RecoveredSeqs(Lines(tmp)) : WriteTemp(Copy(base))
      BY <1>1, <1>6, CopyIs DEF CleanupWrite
    <2> DEFINE ls == Copy(base)
               marker == Line("marker", Nobody, 0, base)
    <2>3. ls \in Seq(LineType) /\ DOMAIN ls = 1..Len(ls) /\ Len(ls) \in Nat
      <3>1. ls \in Seq(LineType)
        BY <1>1, CopyIs
      <3>. QED
        BY <3>1
    <2>4. marker.kind = "marker" /\ marker.ts = clock
      BY DEF Line
    <2>5. \A k \in 1..Len(ls) : \/ k = 1 /\ ls[k] = marker
                                \/ \E i \in 1..Len(C) : ls[k] = C[i]
      BY <1>1, CopyHolds
    <2>6. \A k, l \in 2..Len(ls) : k < l => \E i, j \in 1..Len(C) : i < j /\ ls[k] = C[i] /\ ls[l] = C[j]
      BY <1>1, CopyInOrder
    <2>7. C \in Seq(LineType) /\ DOMAIN C = 1..Len(C) /\ Dated(C)
      <3>1. C = files[cur].lines /\ C \in Seq(LineType)
        BY <1>1, <2>1
      <3>. QED
        BY <1>1, <2>1, <3>1
    <2>8. ls[1] = marker
      <3>1. Kept \in Seq(LineType) /\ Later \in Seq(LineType) /\ ls = <<marker>> \o Kept \o Later
            /\ marker \in LineType
        BY <1>1, CopyIs DEF Copy
      <3> HIDE DEF ls, marker
      <3>. QED
        BY <3>1
    <2>9. WriteTemp(ls)
      BY <2>2
    <2> HIDE DEF ls, marker
    <2>10. /\ Len(files') = n + 1 /\ tmp' = n + 1 /\ files'[n + 1].lines = ls
           /\ \A k \in 1..n : files'[k].lines = files[k].lines
      <3>1. /\ \A k \in 1..n : k # tmp => files'[k].lines = files[k].lines
            /\ tmp = 0 => tmp' = n + 1 /\ files'[tmp'].lines = ls /\ Len(files') = n + 1
        BY <1>1, <2>3, <2>9, TempIs
      <3>2. \A k \in 1..n : k # tmp
        BY <1>1, <2>1
      <3>. QED
        BY <2>1, <3>1, <3>2
    <2>11. Lines(cur)' = C /\ Lines(tmp)' = ls /\ Lines(arch[1])' = A
      <3>1. n + 1 # 0
        BY <1>1
      <3>. QED
        BY <1>1, <2>1, <2>10, <3>1 DEF Lines
    <2>12. Timed(ls)
      <3> SUFFICES ASSUME NEW k \in 1..Len(ls), NEW l \in 1..Len(ls), k < l,
                          ls[k].kind = "event", ls[l].kind = "event"
                   PROVE  ls[k].ts <= ls[l].ts
        BY <2>3 DEF Timed
      <3>1. k # 1 /\ l # 1
        BY <2>4, <2>8
      <3>2. k \in 2..Len(ls) /\ l \in 2..Len(ls)
        BY <2>3, <3>1
      <3>3. PICK i, j \in 1..Len(C) : i < j /\ ls[k] = C[i] /\ ls[l] = C[j]
        BY <2>6, <3>2
      <3>. QED
        BY <2>7, <3>3 DEF Dated, Timed
    <2>13. \A k \in DOMAIN ls : ls[k].ts <= clock
      <3>1. clock \in Nat /\ clock <= clock
        BY <1>1, WalAssumption DEF WalTypes
      <3>. QED
        BY <2>3, <2>4, <2>5, <2>7, <3>1 DEF Dated
    <2>14. Before(A, ls)
      <3>1. ASSUME NEW k \in DOMAIN A, NEW l \in DOMAIN ls, A[k].kind = "event", ls[l].kind = "event"
            PROVE  A[k].ts <= ls[l].ts
        <4>1. PICK i \in 1..Len(C) : ls[l] = C[i]
          BY <2>3, <2>4, <2>5, <3>1
        <4>. QED
          BY <1>1, <2>7, <3>1, <4>1 DEF Before
      <3>. QED
        BY <3>1 DEF Before
    <2>15. \A i \in 1..(n + 1) : Dated(files'[i].lines)
      <3>1. \A i \in 1..(n + 1) : i \in 1..n \/ i = n + 1
        BY <1>1
      <3>. QED
        BY <1>1, <2>10, <2>12, <2>13, <3>1 DEF Dated
    <2>. QED
      BY <1>1, <1>2, <2>10, <2>11, <2>14, <2>15 DEF Timing, Dated
  <1>7. CASE CleanupRename
    <2>1. tmp \in 1..n /\ cur' = tmp /\ tmp' = 0 /\ mt.fd \in 1..n /\ arch' = arch
      BY <1>1, <1>3, <1>7 DEF CleanupRename, MaintHolds
    <2>2. SameLines /\ Len(files') = n
      <3>1. files' = [files EXCEPT ![mt.fd].flock = Nobody] /\ Nobody \in Owners
        BY <1>7 DEF CleanupRename, Owners
      <3>. QED
        BY <1>1, <2>1, <3>1, LockIs
    <2>3. Lines(cur)' = T /\ Lines(tmp)' = <<>> /\ Lines(arch[1])' = A
      BY <1>1, <2>1, <2>2 DEF SameLines, Lines
    <2>. QED
      BY <1>1, <1>2, <1>4, <2>2, <2>3 DEF Timing, Dated, SameLines
  <1>8. CASE RotateRename
    <2>1. tmp = 0 /\ tmp' = 0 /\ cur' = 0 /\ files' = files
      BY <1>1, <1>8 DEF RotateRename
    <2>2. arch'[1] = cur
      <3>1. 1 \in 1..MaxRotations
        BY <1>1
      <3>. QED
        BY <1>8, <3>1, ShiftIs
    <2>3. Lines(cur)' = <<>> /\ Lines(tmp)' = <<>> /\ Lines(arch[1])' = C
      BY <2>1, <2>2 DEF Lines
    <2>. QED
      BY <1>1, <1>2, <1>4, <2>1, <2>3 DEF Timing, Dated
  <1>9. CASE RotateCreate
    <2>1. tmp = 0 /\ tmp' = 0 /\ arch' = arch /\ mt.fd \in 1..n
      <3>1. mt.fd # 0
        BY <1>1, <1>9 DEF RotateCreate, MaintHolds, InRotationWindow
      <3>. QED
        BY <1>1, <1>3, <1>9, <3>1 DEF RotateCreate
    <2>2. /\ cur' \in 1..Len(files') /\ files'[cur'].lines = <<>>
          /\ \A k \in 1..n : files'[k].lines = IF k = cur THEN <<>> ELSE files[k].lines
          /\ Len(files') = n \/ (Len(files') = n + 1 /\ cur' = n + 1)
      BY <1>1, <1>9, <2>1, EmptiedIs
    <2>3. Lines(cur)' = <<>> /\ Lines(tmp)' = <<>> /\ Lines(arch[1])' = A
      BY <1>1, <1>3, <2>1, <2>2 DEF Lines
    <2>4. \A i \in 1..Len(files') : Dated(files'[i].lines)
      <3>1. \A i \in 1..(n + 1) : i \in 1..n \/ i = n + 1
        BY <1>1
      <3>2. \A i \in 1..Len(files') : i \in 1..n \/ i = cur'
        BY <2>2, <3>1
      <3>. QED
        BY <1>1, <1>4, <2>2, <3>2
    <2>. QED
      BY <1>1, <1>2, <1>4, <2>3, <2>4 DEF Timing, Dated
  <1>. QED
    BY <1>2, <1>5, <1>6, <1>7, <1>8, <1>9 DEF Maintenance

LEMMA TimingInit == LogAssumption /\ Init => Timing
  <1> SUFFICES ASSUME Init
               PROVE  Timing
    OBVIOUS
  <1>1. 1 \in 1..MaxRotations
    BY WalAssumption
  <1>2. DOMAIN files = {} /\ Lines(cur) = <<>> /\ Lines(tmp) = <<>> /\ Lines(arch[1]) = <<>>
    BY <1>1 DEF Init, Lines
  <1>. QED
    BY <1>2 DEF Timing, Before

LEMMA TimingStep ==
    LogAssumption /\ WalBase /\ Numbering /\ Timing /\ faults = 0 /\ faults' = 0 /\ [Next]_vars => Timing'
  <1> SUFFICES ASSUME LogAssumption, WalBase, Numbering, Timing, faults = 0, faults' = 0, [Next]_vars
               PROVE  Timing'
    OBVIOUS
  <1>1. CASE Tick \/ UNCHANGED vars
    <2>1. files' = files /\ cur' = cur /\ tmp' = tmp /\ arch' = arch
      BY <1>1 DEF Tick, vars, dirs
    <2>2. Lines(cur)' = Lines(cur) /\ Lines(tmp)' = Lines(tmp) /\ Lines(arch[1])' = Lines(arch[1])
      BY <2>1 DEF Lines
    <2>3. clock \in Nat /\ clock' \in Nat /\ clock <= clock'
      BY StepGrows
    <2>4. ASSUME NEW i \in DOMAIN files, NEW k \in DOMAIN files[i].lines
          PROVE  files[i].lines[k].ts <= clock'
      <3>1. files[i].lines \in Seq(LineType) /\ files[i].lines[k].ts <= clock
        BY LinesType DEF WalBase, Timing
      <3>2. files[i].lines[k] \in LineType
        BY <3>1
      <3>3. files[i].lines[k].ts \in Nat
        BY <3>2, WalAssumption DEF LineType
      <3>. QED
        BY <2>3, <3>1, <3>3
    <2>. QED
      BY <2>1, <2>2, <2>4 DEF Timing
  <1>. QED
    BY <1>1, TimingWriter, TimingMaintenance DEF Next

\* With one archive, what is read is in the order of its times.
LEMMA TimedLoad == WalBase /\ Timing /\ MaxRotations = 1 => ChronologicalLoad
  <1> SUFFICES ASSUME WalBase, Timing, MaxRotations = 1,
                      NEW i \in DOMAIN LoadAll, NEW j \in DOMAIN LoadAll, i < j
               PROVE  LoadAll[i].ts <= LoadAll[j].ts
    BY DEF ChronologicalLoad
  <1> DEFINE n == Len(files)
             a == EventsOf(arch[1])
             c == EventsOf(cur)
             old == FlattenSeq([k \in 1..MaxRotations |-> EventsOf(arch[k])])
  <1>1. WalTypes /\ cur \in 0..n /\ arch[1] \in 0..n
    <2>1. 1 \in 1..MaxRotations
      BY WalAssumption
    <2>. QED
      BY <2>1 DEF WalBase, WalTypes
  <1>2. LoadAll = old \o c /\ old = a /\ old \in Seq(LineType) /\ c \in Seq(LineType)
    BY <1>1, LoadIs
  \* the events of a file are in order
  <1>3. ASSUME NEW f \in 0..n
        PROVE  /\ \A k, l \in 1..Len(EventsOf(f)) : k < l => EventsOf(f)[k].ts <= EventsOf(f)[l].ts
               /\ \A k \in 1..Len(EventsOf(f)) : \E m \in DOMAIN Lines(f) :
                      EventsOf(f)[k] = Lines(f)[m] /\ Lines(f)[m].kind = "event"
    <2>1. PICK e : Selects(e, EventsOf(f), Lines(f), {k \in 1..Len(Lines(f)) : Lines(f)[k].kind = "event"})
      BY <1>1, EventsOfIs
    <2>2. DOMAIN Lines(f) = 1..Len(Lines(f)) /\ Timed(Lines(f))
      <3>1. Lines(f) \in Seq(LineType) /\ DOMAIN files = 1..n
            /\ Lines(0) = <<>> /\ \A k \in 1..n : Lines(k) = files[k].lines
        BY <1>1, LinesType
      <3>2. Timed(<<>>)
        BY DEF Timed
      <3>3. f = 0 \/ f \in 1..n
        BY <1>3
      <3>. QED
        BY <3>1, <3>2, <3>3 DEF Timing
    <2>3. ASSUME NEW k \in 1..Len(EventsOf(f))
          PROVE  /\ e[k] \in DOMAIN Lines(f) /\ EventsOf(f)[k] = Lines(f)[e[k]]
                 /\ Lines(f)[e[k]].kind = "event"
      BY <2>1, <2>2 DEF Selects
    <2>4. \A k, l \in 1..Len(EventsOf(f)) : k < l => e[k] < e[l]
      BY <2>1 DEF Selects
    <2>. QED
      BY <2>2, <2>3, <2>4 DEF Timed
  <1>4. /\ \A k, l \in 1..Len(a) : k < l => a[k].ts <= a[l].ts
        /\ \A k, l \in 1..Len(c) : k < l => c[k].ts <= c[l].ts
    BY <1>1, <1>3
  <1>5. \A k \in 1..Len(a), l \in 1..Len(c) : a[k].ts <= c[l].ts
    <2> TAKE k \in 1..Len(a), l \in 1..Len(c)
    <2>1. PICK m \in DOMAIN Lines(arch[1]) : a[k] = Lines(arch[1])[m] /\ Lines(arch[1])[m].kind = "event"
      BY <1>1, <1>3
    <2>2. PICK o \in DOMAIN Lines(cur) : c[l] = Lines(cur)[o] /\ Lines(cur)[o].kind = "event"
      BY <1>1, <1>3
    <2>. QED
      BY <2>1, <2>2 DEF Timing, Before
  <1> HIDE DEF a, c, old
  <1>6. /\ Len(a) \in Nat /\ Len(c) \in Nat /\ DOMAIN LoadAll = 1..(Len(a) + Len(c))
        /\ \A k \in 1..Len(a) : LoadAll[k] = a[k]
        /\ \A k \in 1..Len(c) : LoadAll[Len(a) + k] = c[k]
    <2>1. a \in Seq(LineType) /\ c \in Seq(LineType) /\ LoadAll = a \o c
      BY <1>2
    <2>. QED
      BY <2>1
  <1>7. CASE j \in 1..Len(a)
    <2>1. i \in 1..Len(a)
      BY <1>6, <1>7
    <2>. QED
      BY <1>4, <1>6, <1>7, <2>1
  <1>8. CASE j \notin 1..Len(a)
    <2>1. j - Len(a) \in 1..Len(c) /\ j = Len(a) + (j - Len(a))
      BY <1>6, <1>8
    <2>2. LoadAll[j] = c[j - Len(a)]
      BY <1>6, <2>1
    <2>3. CASE i \in 1..Len(a)
      BY <1>5, <1>6, <2>1, <2>2, <2>3
    <2>4. CASE i \notin 1..Len(a)
      <3>1. i - Len(a) \in 1..Len(c) /\ i = Len(a) + (i - Len(a)) /\ i - Len(a) < j - Len(a)
        BY <1>6, <2>1, <2>4
      <3>2. LoadAll[i] = c[i - Len(a)]
        BY <1>6, <3>1
      <3>. QED
        BY <1>4, <2>1, <2>2, <3>1, <3>2
    <2>. QED
      BY <2>3, <2>4
  <1>. QED
    BY <1>7, <1>8

-----------------------------------------------------------------------------
(* What is read of two files                                               *)

\* The events of a file, and the names of those of an archive and of the file after it.
EventLines(ls) == Picked(ls, {k \in DOMAIN ls : ls[k].kind = "event"})
Name(line) == <<line.w, line.n>>
Names(s) == [k \in 1..Len(s) |-> Name(s[k])]
Told(a, c) == Names(EventLines(a) \o EventLines(c))

LEMMA PickedMore ==
    ASSUME NEW A, NEW s \in Seq(A), NEW x \in A, NEW S \in SUBSET (1..Len(s)), NEW T,
           \A i \in 1..Len(s) : i \in T <=> i \in S
    PROVE  Picked(Append(s, x), T) = IF Len(s) + 1 \in T THEN Append(Picked(s, S), x) ELSE Picked(s, S)
  <1> DEFINE n == Len(s)
             r == Append(s, x)
  <1>1. n \in Nat /\ Len(r) = n + 1 /\ r[n + 1] = x /\ \A i \in 1..n : r[i] = s[i]
    OBVIOUS
  <1> HIDE DEF r
  <1>2. PICK f : Picked(s, S) = f[n] /\ Filters(f, s, S, n)
    BY <1>1, PickedByFilter
  <1>3. PICK g : Picked(r, T) = g[n + 1] /\ Filters(g, r, T, n + 1)
    BY <1>1, PickedByFilter
  <1> DEFINE Bad == {i \in 0..n : f[i] # g[i]}
  <1>4. f[0] = <<>> /\ \A i \in 1..n : f[i] = IF i \in S THEN Append(f[i - 1], s[i]) ELSE f[i - 1]
    <2>1. 0 \in 0..n /\ \A i \in 1..n : i \in 0..n /\ i # 0
      BY <1>1
    <2>. QED
      BY <1>2, <2>1, Zenon DEF Filters
  <1>5. g[0] = <<>> /\ \A i \in 1..(n + 1) : g[i] = IF i \in T THEN Append(g[i - 1], r[i]) ELSE g[i - 1]
    <2>1. 0 \in 0..(n + 1) /\ \A i \in 1..(n + 1) : i \in 0..(n + 1) /\ i # 0
      BY <1>1
    <2>. QED
      BY <1>3, <2>1, Zenon DEF Filters
  <1>6. ASSUME Bad # {} PROVE FALSE
    <2>1. PICK m \in Bad : \A k \in Bad : m <= k
      <3>1. Bad \in SUBSET Nat
        BY <1>1
      <3>. QED
        BY <1>6, <3>1, Least
    <2>2. m \in 1..n /\ m \in 1..(n + 1) /\ m - 1 \in 0..n /\ ~ (m <= m - 1)
      BY <1>1, <1>4, <1>5, <2>1
    <2>3. f[m - 1] = g[m - 1]
      BY <2>1, <2>2
    <2>. QED
      BY <1>1, <1>4, <1>5, <2>1, <2>2, <2>3
  <1>7. f[n] = g[n]
    BY <1>1, <1>6
  <1>8. n + 1 \in 1..(n + 1) /\ (n + 1) - 1 = n
    BY <1>1
  <1>. QED
    BY <1>1, <1>2, <1>3, <1>5, <1>7, <1>8 DEF r

LEMMA EventLinesAre ==
    ASSUME NEW A, NEW ls \in Seq(A)
    PROVE  /\ EventLines(ls) \in Seq(A)
           /\ \E e : Selects(e, EventLines(ls), ls, {k \in 1..Len(ls) : ls[k].kind = "event"})
           /\ ls = <<>> => EventLines(ls) = <<>>
  <1> DEFINE T == {k \in 1..Len(ls) : ls[k].kind = "event"}
  <1>1. T \in SUBSET (1..Len(ls)) /\ EventLines(ls) = Picked(ls, T)
    <2>1. DOMAIN ls = 1..Len(ls)
      OBVIOUS
    <2>. QED
      BY <2>1 DEF EventLines
  <1> HIDE DEF T
  <1>2. Picked(ls, T) \in Seq(A) /\ \E e : Selects(e, Picked(ls, T), ls, T)
    BY <1>1, PickedSelects
  <1>3. ls = <<>> => EventLines(ls) = <<>>
    <2> SUFFICES ASSUME ls = <<>>
                 PROVE  Picked(ls, T) = <<>>
      BY <1>1
    <2>1. PICK e : Selects(e, Picked(ls, T), ls, T)
      BY <1>2
    <2>2. T = {} /\ Len(Picked(ls, T)) \in Nat
      BY <1>1, <1>2
    <2>3. Len(Picked(ls, T)) = 0
      <3>1. 1 \notin 1..Len(Picked(ls, T))
        BY <2>1, <2>2 DEF Selects
      <3>. QED
        BY <2>2, <3>1
    <2>. QED
      BY <1>2, <2>3
  <1>. QED
    BY <1>1, <1>2, <1>3 DEF T

LEMMA EventLinesMore ==
    ASSUME NEW A, NEW ls \in Seq(A), NEW x \in A
    PROVE  EventLines(Append(ls, x)) =
               IF x.kind = "event" THEN Append(EventLines(ls), x) ELSE EventLines(ls)
  <1> DEFINE n == Len(ls)
             r == Append(ls, x)
             S == {k \in DOMAIN ls : ls[k].kind = "event"}
             T == {k \in DOMAIN r : r[k].kind = "event"}
  <1>1. /\ n \in Nat /\ DOMAIN ls = 1..n /\ DOMAIN r = 1..(n + 1) /\ r[n + 1] = x
        /\ \A i \in 1..n : r[i] = ls[i]
    OBVIOUS
  <1> HIDE DEF r
  <1>2. /\ S \in SUBSET (1..n) /\ (n + 1 \in T <=> x.kind = "event")
        /\ \A i \in 1..n : i \in T <=> i \in S
        /\ n + 1 \notin S /\ T \subseteq 1..(n + 1)
    BY <1>1
  <1> HIDE DEF S, T
  <1>4. Picked(r, T) = IF n + 1 \in T THEN Append(Picked(ls, S), x) ELSE Picked(ls, S)
    BY <1>2, PickedMore DEF r
  <1>. QED
    BY <1>2, <1>4 DEF EventLines, r, S, T

LEMMA NamesMore ==
    ASSUME NEW A, NEW s \in Seq(A), NEW x \in A
    PROVE  Names(Append(s, x)) = Append(Names(s), Name(x))
  <1> DEFINE r == Append(s, x)
             n == Len(s)
             B == {Name(y) : y \in A}
             N == Names(s)
  <1>1. /\ n \in Nat /\ Len(r) = n + 1 /\ r[n + 1] = x /\ \A i \in 1..n : r[i] = s[i]
        /\ \A i \in 1..n : s[i] \in A
    OBVIOUS
  <1> HIDE DEF r, n
  <1>2. N = [k \in 1..n |-> Name(s[k])] /\ Name(x) \in B /\ \A i \in 1..n : Name(s[i]) \in B
    BY <1>1 DEF Names, n
  <1> HIDE DEF B, N
  <1>3. N \in Seq(B) /\ Len(N) = n
    BY <1>1, <1>2
  <1> DEFINE u == Append(N, Name(x))
  <1>4. u \in Seq(B) /\ Len(u) = n + 1 /\ u[n + 1] = Name(x) /\ \A i \in 1..n : u[i] = N[i]
    BY <1>1, <1>2, <1>3
  <1>5. Names(r) = [k \in 1..(n + 1) |-> Name(r[k])]
    BY <1>1 DEF Names
  <1> HIDE DEF u
  <1>6. ASSUME NEW k \in 1..(n + 1) PROVE u[k] = Name(r[k])
    <2>1. CASE k \in 1..n
      BY <1>1, <1>2, <1>4, <2>1
    <2>2. CASE k = n + 1
      BY <1>1, <1>4, <2>2
    <2>3. k \in 1..n \/ k = n + 1
      BY <1>1
    <2>. QED
      BY <2>1, <2>2, <2>3
  <1>7. u = [k \in 1..(n + 1) |-> u[k]]
    BY <1>4
  <1>8. u = [k \in 1..(n + 1) |-> Name(r[k])]
    BY <1>6, <1>7, Zenon
  <1>. QED
    BY <1>5, <1>8 DEF r, u, N

LEMMA ToldMore ==
    ASSUME NEW A, NEW a \in Seq(A), NEW c \in Seq(A), NEW x \in A
    PROVE  /\ Told(a, Append(c, x)) =
                  IF x.kind = "event" THEN Append(Told(a, c), Name(x)) ELSE Told(a, c)
           /\ c = <<>> => Told(Append(a, x), c) =
                  IF x.kind = "event" THEN Append(Told(a, c), Name(x)) ELSE Told(a, c)
  <1> DEFINE p == EventLines(a)
             q == EventLines(c)
  <1>1. p \in Seq(A) /\ q \in Seq(A) /\ (c = <<>> => q = <<>>)
    BY EventLinesAre
  <1>2. /\ EventLines(Append(a, x)) = IF x.kind = "event" THEN Append(p, x) ELSE p
        /\ EventLines(Append(c, x)) = IF x.kind = "event" THEN Append(q, x) ELSE q
    BY EventLinesMore
  <1> HIDE DEF p, q
  <1>3. p \o q \in Seq(A) /\ p \o Append(q, x) = Append(p \o q, x)
        /\ Append(p, x) \o <<>> = Append(p \o <<>>, x)
    BY <1>1
  <1>4. Names(Append(p \o q, x)) = Append(Names(p \o q), Name(x))
    BY <1>3, NamesMore
  <1>. QED
    BY <1>1, <1>2, <1>3, <1>4 DEF Told, p, q

\* The names that are told are those of the events of both files.
LEMMA ToldNames ==
    ASSUME NEW A, NEW a \in Seq(A), NEW c \in Seq(A)
    PROVE  Promise!Elements(Told(a, c)) = EventsIn(a) \cup EventsIn(c)
  <1> DEFINE p == EventLines(a)
             q == EventLines(c)
             Of(s) == {Name(s[k]) : k \in 1..Len(s)}
  <1>1. ASSUME NEW ls \in Seq(A)
        PROVE  Of(EventLines(ls)) = EventsIn(ls)
    <2> DEFINE T == {k \in 1..Len(ls) : ls[k].kind = "event"}
               r == EventLines(ls)
    <2>1. PICK e : Selects(e, r, ls, T)
      BY EventLinesAre
    <2>2. DOMAIN ls = 1..Len(ls)
      OBVIOUS
    <2>3. EventsIn(ls) = {Name(ls[i]) : i \in T}
      BY <2>2 DEF EventsIn, Name
    <2> HIDE DEF T, r
    <2>4. \A k \in 1..Len(r) : e[k] \in T /\ Name(r[k]) = Name(ls[e[k]])
      BY <2>1 DEF Selects
    <2>5. \A i \in T : \E k \in 1..Len(r) : Name(r[k]) = Name(ls[i])
      BY <2>1 DEF Selects
    <2>. QED
      BY <2>3, <2>4, <2>5 DEF r
  <1>2. Of(p) = EventsIn(a) /\ Of(q) = EventsIn(c) /\ p \in Seq(A) /\ q \in Seq(A)
    BY <1>1, EventLinesAre
  <1> HIDE DEF p, q
  <1>3. /\ Len(p) \in Nat /\ Len(q) \in Nat /\ Len(p \o q) = Len(p) + Len(q)
        /\ \A k \in 1..Len(p) : (p \o q)[k] = p[k]
        /\ \A k \in 1..Len(q) : (p \o q)[Len(p) + k] = q[k]
    BY <1>2
  <1>4. ASSUME NEW k \in 1..Len(p \o q)
        PROVE  Name((p \o q)[k]) \in Of(p) \cup Of(q)
    <2>1. CASE k \in 1..Len(p)
      BY <1>3, <2>1
    <2>2. CASE k \notin 1..Len(p)
      <3>1. k - Len(p) \in 1..Len(q) /\ k = Len(p) + (k - Len(p))
        BY <1>3, <2>2
      <3>. QED
        BY <1>3, <3>1
    <2>. QED
      BY <2>1, <2>2
  <1>5. \A k \in 1..Len(q) : Len(p) + k \in 1..Len(p \o q)
    BY <1>3
  <1>6. \A k \in 1..Len(p) : k \in 1..Len(p \o q)
    BY <1>3
  <1>7. Of(p \o q) = Of(p) \cup Of(q)
    <2>1. Of(p \o q) \subseteq Of(p) \cup Of(q)
      BY <1>4
    <2>2. Of(p) \subseteq Of(p \o q)
      BY <1>3, <1>6
    <2>3. Of(q) \subseteq Of(p \o q)
      BY <1>3, <1>5
    <2>. QED
      BY <2>1, <2>2, <2>3
  <1>8. Promise!Elements(Told(a, c)) = Of(p \o q)
    BY DEF Promise!Elements, Told, Names, p, q
  <1>. QED
    BY <1>2, <1>7, <1>8

\* What is next to each other in p is so in q.
InOrder(p, q) ==
    \A k, l \in 1..Len(p) : k < l => \E i, j \in 1..Len(q) : i < j /\ q[i] = p[k] /\ q[j] = p[l]

LEMMA TailInOrder ==
    ASSUME NEW A, NEW s \in Seq(A), NEW p \in Seq(A), NEW q \in Seq(A), InOrder(p, q),
           \A k \in 1..Len(p) : \E i \in 1..Len(q) : q[i] = p[k]
    PROVE  InOrder(s \o p, s \o q) /\ InOrder(p, s \o q)
  <1> DEFINE m == Len(s)
             sp == s \o p
             sq == s \o q
  <1>1. /\ m \in Nat /\ Len(p) \in Nat /\ Len(q) \in Nat
        /\ Len(sp) = m + Len(p) /\ Len(sq) = m + Len(q)
        /\ \A k \in 1..m : sp[k] = s[k] /\ sq[k] = s[k]
        /\ \A k \in 1..Len(p) : sp[m + k] = p[k]
        /\ \A k \in 1..Len(q) : sq[m + k] = q[k]
    OBVIOUS
  <1> HIDE DEF m, sp, sq
  <1>2. ASSUME NEW k \in 1..Len(p), NEW l \in 1..Len(p), k < l
        PROVE  \E i, j \in 1..Len(sq) : i < j /\ i > m /\ sq[i] = p[k] /\ sq[j] = p[l]
    <2>1. PICK i \in 1..Len(q), j \in 1..Len(q) : i < j /\ q[i] = p[k] /\ q[j] = p[l]
      BY <1>2 DEF InOrder
    <2>2. m + i \in 1..Len(sq) /\ m + j \in 1..Len(sq) /\ m + i < m + j /\ m + i > m
      BY <1>1, <2>1
    <2>. QED
      BY <1>1, <2>1, <2>2
  <1>3. ASSUME NEW k \in 1..Len(p)
        PROVE  \E j \in 1..Len(sq) : j > m /\ sq[j] = p[k]
    <2>1. PICK i \in 1..Len(q) : q[i] = p[k]
      OBVIOUS
    <2>2. m + i \in 1..Len(sq) /\ m + i > m
      BY <1>1
    <2>. QED
      BY <1>1, <2>1, <2>2
  <1>4. ASSUME NEW k \in 1..Len(sp), NEW l \in 1..Len(sp), k < l
        PROVE  \E i, j \in 1..Len(sq) : i < j /\ sq[i] = sp[k] /\ sq[j] = sp[l]
    <2>1. CASE l \in 1..m
      BY <1>1, <1>4, <2>1
    <2>2. CASE l \notin 1..m
      <3>1. l - m \in 1..Len(p) /\ l = m + (l - m) /\ sp[l] = p[l - m]
        BY <1>1, <2>2
      <3>2. CASE k \in 1..m
        <4>1. PICK j \in 1..Len(sq) : j > m /\ sq[j] = p[l - m]
          BY <1>3, <3>1
        <4>2. k \in 1..Len(sq) /\ k < j
          BY <1>1, <3>2, <4>1
        <4>. QED
          BY <1>1, <3>1, <3>2, <4>1, <4>2
      <3>3. CASE k \notin 1..m
        <4>1. k - m \in 1..Len(p) /\ k = m + (k - m) /\ sp[k] = p[k - m] /\ k - m < l - m
          BY <1>1, <1>4, <3>1, <3>3
        <4>. QED
          BY <1>2, <3>1, <4>1
      <3>. QED
        BY <3>2, <3>3
    <2>. QED
      BY <2>1, <2>2
  <1>. QED
    <2>1. InOrder(sp, sq)
      BY <1>4 DEF InOrder
    <2>2. InOrder(p, sq)
      BY <1>2 DEF InOrder
    <2>. QED
      BY <2>1, <2>2 DEF sp, sq

\* The events of t are events of c, in the same order.
Subfile(t, c) ==
    /\ EventsIn(t) \subseteq EventsIn(c)
    /\ \A k \in 1..Len(t) : t[k].kind = "event" => \E i \in 1..Len(c) : c[i] = t[k]
    /\ \A k, l \in 1..Len(t) : k < l /\ t[k].kind = "event" /\ t[l].kind = "event" =>
           \E i, j \in 1..Len(c) : i < j /\ c[i] = t[k] /\ c[j] = t[l]

LEMMA SubfileInOrder ==
    ASSUME NEW A, NEW t \in Seq(A), NEW c \in Seq(A), Subfile(t, c)
    PROVE  /\ InOrder(EventLines(t), EventLines(c))
           /\ \A k \in 1..Len(EventLines(t)) : \E i \in 1..Len(EventLines(c)) :
                  EventLines(c)[i] = EventLines(t)[k]
  <1> DEFINE p == EventLines(t)
             q == EventLines(c)
             T == {k \in 1..Len(t) : t[k].kind = "event"}
             C == {k \in 1..Len(c) : c[k].kind = "event"}
  <1>1. PICK d : Selects(d, p, t, T)
    BY EventLinesAre
  <1>2. PICK e : Selects(e, q, c, C)
    BY EventLinesAre
  <1>3. Len(p) \in Nat /\ Len(q) \in Nat /\ Len(t) \in Nat /\ Len(c) \in Nat
    BY EventLinesAre
  <1> HIDE DEF p, q
  <1>4. ASSUME NEW k \in 1..Len(p)
        PROVE  d[k] \in 1..Len(t) /\ t[d[k]].kind = "event" /\ p[k] = t[d[k]]
    BY <1>1 DEF Selects
  <1>5. ASSUME NEW i \in 1..Len(c), c[i].kind = "event"
        PROVE  \E k \in 1..Len(q) : e[k] = i /\ q[k] = c[i]
    BY <1>2, <1>5 DEF Selects
  <1>6. ASSUME NEW k \in 1..Len(p)
        PROVE  \E i \in 1..Len(q) : q[i] = p[k]
    <2>1. PICK i \in 1..Len(c) : c[i] = t[d[k]]
      BY <1>4 DEF Subfile
    <2>. QED
      BY <1>4, <1>5, <2>1
  <1>7. ASSUME NEW k \in 1..Len(p), NEW l \in 1..Len(p), k < l
        PROVE  \E i, j \in 1..Len(q) : i < j /\ q[i] = p[k] /\ q[j] = p[l]
    <2>1. d[k] < d[l]
      BY <1>1, <1>7 DEF Selects
    <2>2. PICK i \in 1..Len(c), j \in 1..Len(c) : i < j /\ c[i] = t[d[k]] /\ c[j] = t[d[l]]
      BY <1>4, <2>1 DEF Subfile
    <2>3. PICK x \in 1..Len(q) : e[x] = i /\ q[x] = c[i]
      BY <1>4, <1>5, <2>2
    <2>4. PICK y \in 1..Len(q) : e[y] = j /\ q[y] = c[j]
      BY <1>4, <1>5, <2>2
    <2>5. x < y
      <3>1. y < x => e[y] < e[x]
        BY <1>2 DEF Selects
      <3>2. x \in Nat /\ y \in Nat /\ i \in Nat /\ j \in Nat
        BY <1>3
      <3>. QED
        BY <2>2, <2>3, <2>4, <3>1, <3>2
    <2>. QED
      BY <1>4, <2>2, <2>3, <2>4, <2>5
  <1>. QED
    <2>1. InOrder(p, q)
      BY <1>7 DEF InOrder
    <2>. QED
      BY <1>6, <2>1 DEF p, q

LEMMA NamesThinned ==
    ASSUME NEW A, NEW p \in Seq(A), NEW q \in Seq(A), InOrder(p, q), NEW lost,
           Promise!Elements(Names(p)) \subseteq Promise!Elements(Names(q)),
           Promise!Elements(Names(q)) \ Promise!Elements(Names(p)) \subseteq lost
    PROVE  Promise!Thinned(Names(q), Names(p), lost)
  <1>1. /\ DOMAIN Names(p) = 1..Len(p) /\ \A k \in 1..Len(p) : Names(p)[k] = Name(p[k])
        /\ DOMAIN Names(q) = 1..Len(q) /\ \A k \in 1..Len(q) : Names(q)[k] = Name(q[k])
    BY DEF Names
  <1>2. ASSUME NEW k \in 1..Len(p), NEW l \in 1..Len(p), k < l
        PROVE  \E i, j \in 1..Len(q) : i < j /\ Names(q)[i] = Names(p)[k] /\ Names(q)[j] = Names(p)[l]
    <2>1. PICK i \in 1..Len(q), j \in 1..Len(q) : i < j /\ q[i] = p[k] /\ q[j] = p[l]
      BY <1>2 DEF InOrder
    <2>. QED
      BY <1>1, <2>1
  <1>3. \A k, l \in DOMAIN Names(p) : k < l =>
            \E i, j \in DOMAIN Names(q) : i < j /\ Names(q)[i] = Names(p)[k] /\ Names(q)[j] = Names(p)[l]
    <2> TAKE k, l \in DOMAIN Names(p)
    <2> HAVE k < l
    <2>1. k \in 1..Len(p) /\ l \in 1..Len(p)
      BY <1>1
    <2>2. PICK i \in 1..Len(q), j \in 1..Len(q) :
              i < j /\ Names(q)[i] = Names(p)[k] /\ Names(q)[j] = Names(p)[l]
      BY <1>2, <2>1
    <2>3. i \in DOMAIN Names(q) /\ j \in DOMAIN Names(q)
      BY <1>1
    <2>. QED
      BY <2>2, <2>3, Zenon
  <1>. QED
    BY <1>3, Zenon DEF Promise!Thinned

\* A file loses some of its events, without their order being disturbed.
LEMMA ToldThinned ==
    ASSUME NEW A, NEW a \in Seq(A), NEW c \in Seq(A), NEW t \in Seq(A), Subfile(t, c),
           NEW lost, EventsIn(c) \ EventsIn(t) \subseteq lost
    PROVE  Promise!Thinned(Told(a, c), Told(a, t), lost)
  <1> DEFINE s == EventLines(a)
             p == EventLines(t)
             q == EventLines(c)
  <1>1. s \in Seq(A) /\ p \in Seq(A) /\ q \in Seq(A)
    BY EventLinesAre
  <1>2. InOrder(p, q) /\ \A k \in 1..Len(p) : \E i \in 1..Len(q) : q[i] = p[k]
    BY SubfileInOrder
  <1>3. /\ Promise!Elements(Told(a, c)) = EventsIn(a) \cup EventsIn(c)
        /\ Promise!Elements(Told(a, t)) = EventsIn(a) \cup EventsIn(t)
    BY ToldNames
  <1>4. Told(a, c) = Names(s \o q) /\ Told(a, t) = Names(s \o p)
    BY DEF Told
  <1> HIDE DEF s, p, q
  <1>5. InOrder(s \o p, s \o q) /\ s \o p \in Seq(A) /\ s \o q \in Seq(A)
    BY <1>1, <1>2, TailInOrder
  <1>6. /\ Promise!Elements(Names(s \o p)) \subseteq Promise!Elements(Names(s \o q))
        /\ Promise!Elements(Names(s \o q)) \ Promise!Elements(Names(s \o p)) \subseteq lost
    BY <1>3, <1>4 DEF Subfile
  <1>. QED
    BY <1>4, <1>5, <1>6, NamesThinned

\* The archive is dropped and the file takes its place.
LEMMA ToldShifted ==
    ASSUME NEW A, NEW a \in Seq(A), NEW c \in Seq(A), NEW lost, EventsIn(a) \subseteq lost
    PROVE  Promise!Thinned(Told(a, c), Told(c, <<>>), lost)
  <1> DEFINE s == EventLines(a)
             q == EventLines(c)
  <1>1. s \in Seq(A) /\ q \in Seq(A) /\ EventLines(<<>>) = <<>>
    <2>1. <<>> \in Seq(A)
      OBVIOUS
    <2>. QED
      BY <2>1, EventLinesAre
  <1>2. /\ Promise!Elements(Told(a, c)) = EventsIn(a) \cup EventsIn(c)
        /\ Promise!Elements(Told(c, <<>>)) = EventsIn(c) \cup EventsIn(<<>>)
    <2>1. <<>> \in Seq(A)
      OBVIOUS
    <2>. QED
      BY <2>1, ToldNames
  <1>3. EventsIn(<<>>) = {}
    BY DEF EventsIn
  <1>4. Told(a, c) = Names(s \o q) /\ Told(c, <<>>) = Names(q)
    <2>1. q \o <<>> = q
      BY <1>1
    <2>. QED
      BY <1>1, <2>1 DEF Told
  <1> HIDE DEF s, q
  <1>5. InOrder(q, q) /\ \A k \in 1..Len(q) : \E i \in 1..Len(q) : q[i] = q[k]
    BY DEF InOrder
  <1>6. InOrder(q, s \o q) /\ s \o q \in Seq(A)
    BY <1>1, <1>5, TailInOrder
  <1>. QED
    BY <1>1, <1>2, <1>3, <1>4, <1>6, NamesThinned

-----------------------------------------------------------------------------
(* The log keeps its promise                                               *)

Tells == Told(Lines(arch[1]), Lines(cur))

LEMMA TellsIs == WalTypes /\ MaxRotations = 1 => Readable = Tells
  <1> SUFFICES ASSUME WalTypes, MaxRotations = 1
               PROVE  Readable = Tells
    OBVIOUS
  <1> DEFINE old == FlattenSeq([i \in 1..MaxRotations |-> EventsOf(arch[i])])
  <1>1. LoadAll = old \o EventsOf(cur) /\ old = EventsOf(arch[1])
        /\ old \in Seq(LineType) /\ EventsOf(cur) \in Seq(LineType)
    BY LoadIs
  <1>2. EventsOf(arch[1]) = EventLines(Lines(arch[1])) /\ EventsOf(cur) = EventLines(Lines(cur))
    BY Zenon DEF EventsOf, EventLines
  <1> HIDE DEF old
  <1>3. Readable = Names(LoadAll)
    <2>1. LoadAll \in Seq(LineType)
      BY <1>1
    <2>2. DOMAIN LoadAll = 1..Len(LoadAll)
      BY <2>1
    <2>. QED
      BY <2>2, Zenon DEF Readable, Names, Name
  <1>. QED
    BY <1>1, <1>2, <1>3 DEF Tells, Told

LEMMA TellsIsNext == WalTypes' /\ MaxRotations = 1 => Readable' = Tells'
  <1>1. (WalTypes /\ MaxRotations = 1 => Readable = Tells)'
    BY TellsIs, PTL
  <1>. QED
    BY <1>1

\* What was appended by now, to a file or to nobody's knowledge.
Sent(ls, W) == \A k \in 1..Len(ls) : ls[k].kind = "event" => ls[k].n <= W[ls[k].w].sent
Past ==
    /\ \A i \in 1..Len(files) : Sent(files[i].lines, wr)
    /\ \A e \in acked : e[2] <= wr[e[1]].sent

\* No event is told twice, and a copy that waits to take the path tells those of the file, in
\* their order.
Keeping == Past /\ (tmp # 0 => Subfile(Lines(tmp), Lines(cur)))

\* The steps of what is told.
Move ==
    /\ MayLose \subseteq MayLose'
    /\ \/ Tells' = Tells /\ acked' = acked
       \/ \E e \in Events : /\ e \notin Promise!Elements(Tells) \cup acked
                            /\ Tells' = Append(Tells, e) /\ acked' = acked \cup {e}
       \/ \E e \in Events : /\ e \in MayLose'
                            /\ Tells' = Tells /\ acked' = acked \cup {e}
       \/ Promise!Thinned(Tells, Tells', MayLose') /\ acked' = acked

\* The writers' counts do not fall.
LEMMA SentGrows ==
    ASSUME WalTypes, WalTypes', NEW w \in Writers, Writer(w)
    PROVE  /\ \A v \in Writers : wr'[v].sent >= wr[v].sent /\ wr[v].sent \in Nat /\ wr'[v].sent \in Nat
           /\ AppendWrite(w) => wr'[w].sent = wr[w].sent + 1
           /\ ~ AppendWrite(w) => acked' = acked
  <1> DEFINE n == Len(files)
  <1>1. /\ wr \in [Writers -> WriterType(n)] /\ wr' \in [Writers -> WriterType(Len(files'))]
        /\ MaxAppends \in Nat
    BY WalAssumption DEF WalTypes
  <1>2. /\ \A v \in Writers : wr[v].sent \in Nat /\ wr'[v].sent \in Nat
        /\ \A v \in Writers : wr[v] \in WriterType(n)
    BY <1>1 DEF WriterType
  <1>3. CASE CreateNew(w) \/ CreateOpen(w) \/ AppendOpen(w)
    <2>1. ASSUME NEW label, OpenPath(w, label)
          PROVE  \A v \in Writers : wr'[v].sent = wr[v].sent
      BY <1>1, <1>2, <2>1 DEF OpenPath, WriterType
    <2>2. ASSUME cur = 0, wr' = [wr EXCEPT ![w].pc = "ready", ![w].seq = 1]
          PROVE  \A v \in Writers : wr'[v].sent = wr[v].sent
      BY <1>1, <1>2, <2>2 DEF WriterType
    <2>3. \A v \in Writers : wr'[v].sent = wr[v].sent
      BY <1>3, <2>1, <2>2 DEF CreateNew, CreateOpen, AppendOpen
    <2>4. acked' = acked /\ ~ AppendWrite(w)
      BY <1>3 DEF CreateNew, CreateOpen, AppendOpen, AppendWrite, histories
    <2>. QED
      BY <1>2, <2>3, <2>4
  <1>4. CASE WriterLock(w) \/ CreateMarker(w) \/ Close(w)
    <2>1. \A v \in Writers : wr'[v].sent = wr[v].sent
      BY <1>1, <1>2, <1>4 DEF WriterLock, CreateMarker, Close, WriterType
    <2>2. acked' = acked
      BY <1>4 DEF WriterLock, CreateMarker, Close, histories
    <2>3. ~ AppendWrite(w)
      <3>1. CASE WriterLock(w)
        BY <1>1, <1>2, <3>1 DEF WriterLock, AppendWrite, WriterType
      <3>2. CASE CreateMarker(w) \/ Close(w)
        BY <3>2 DEF CreateMarker, Close, AppendWrite
      <3>. QED
        BY <1>4, <3>1, <3>2
    <2>. QED
      BY <1>2, <2>1, <2>2, <2>3
  <1>5. CASE AppendWrite(w)
    <2>1. wr' = [wr EXCEPT ![w].pc = "ready", ![w].seq = wr[w].seq + 1, ![w].sent = wr[w].sent + 1]
      BY <1>5 DEF AppendWrite
    <2>2. wr'[w].sent = wr[w].sent + 1 /\ \A v \in Writers : v # w => wr'[v].sent = wr[v].sent
      BY <1>1, <1>2, <2>1 DEF WriterType
    <2>. QED
      BY <1>2, <1>5, <2>2
  <1>6. CASE AppendFail(w)
    <2>1. PICK pc : wr' = [wr EXCEPT ![w].pc = pc, ![w].sent = wr[w].sent + 1]
      BY <1>6 DEF AppendFail
    <2>2. wr'[w].sent = wr[w].sent + 1 /\ \A v \in Writers : v # w => wr'[v].sent = wr[v].sent
      BY <1>1, <1>2, <2>1 DEF WriterType
    <2>3. acked' = acked
      BY <1>6 DEF AppendFail
    <2>. QED
      BY <1>2, <2>2, <2>3
  <1>. QED
    BY <1>3, <1>4, <1>5, <1>6 DEF Writer

\* Files whose lines stay, apart from lines that are no events, keep what was sent.
LEMMA PastStays ==
    ASSUME Past, WalTypes, WalTypes', Len(files') >= Len(files),
           \A v \in Writers : wr'[v].sent >= wr[v].sent /\ wr[v].sent \in Nat /\ wr'[v].sent \in Nat
    PROVE  /\ \A i \in 1..Len(files) : files'[i].lines = files[i].lines => Sent(files'[i].lines, wr')
           /\ \A i \in 1..Len(files') : files'[i].lines = <<>> => Sent(files'[i].lines, wr')
           /\ \A e \in acked : e[2] <= wr'[e[1]].sent
  <1>1. /\ \A i \in 1..Len(files) : files[i].lines \in Seq(LineType)
        /\ acked \subseteq Events /\ MaxAppends \in Nat
    BY LinesType, WalAssumption DEF WalTypes
  <1>2. ASSUME NEW i \in 1..Len(files), files'[i].lines = files[i].lines,
               NEW k \in 1..Len(files'[i].lines), files'[i].lines[k].kind = "event"
        PROVE  files'[i].lines[k].n <= wr'[files'[i].lines[k].w].sent
    <2> DEFINE line == files[i].lines[k]
    <2>1. line \in LineType /\ line.kind = "event" /\ files'[i].lines[k] = line /\ k \in 1..Len(files[i].lines)
      BY <1>1, <1>2
    <2>2. line.w \in Writers /\ line.n \in Nat
      BY <1>1, <2>1 DEF LineType
    <2>3. line.n <= wr[line.w].sent
      BY <2>1 DEF Past, Sent
    <2> HIDE DEF line
    <2>. QED
      BY <2>1, <2>2, <2>3
  <1>3. ASSUME NEW e \in acked PROVE e[2] <= wr'[e[1]].sent
    <2>1. e[1] \in Writers /\ e[2] \in Nat /\ e[2] <= wr[e[1]].sent
      BY <1>1 DEF Events, Past
    <2>. QED
      BY <2>1
  <1>4. ASSUME NEW i \in 1..Len(files'), files'[i].lines = <<>> PROVE Sent(files'[i].lines, wr')
    BY <1>4 DEF Sent
  <1>5. \A i \in 1..Len(files) : files'[i].lines = files[i].lines => Sent(files'[i].lines, wr')
    BY <1>2 DEF Sent
  <1>. QED
    BY <1>3, <1>4, <1>5

\* What a writer's step does to the log.
LEMMA WriterMoves ==
    ASSUME LogAssumption, WalBase, WalBase', Explained, Numbering, Keeping, MaxRotations = 1,
           faults = 0, faults' = 0, NEW w \in Writers, Writer(w)
    PROVE  Keeping' /\ Move
  <1> DEFINE n == Len(files)
             fd == wr[w].fd
             e == <<w, wr[w].sent + 1>>
             A == Lines(arch[1])
             C == Lines(cur)
  <1>1. /\ WalTypes /\ WalTypes' /\ NamesApart /\ MaintHolds /\ WriterHolds(w) /\ PendingWhere(w)
        /\ n \in Nat /\ Len(files') \in Nat /\ cur \in 0..n /\ tmp \in 0..n /\ arch[1] \in 0..n
        /\ \A i \in 1..n : files[i].lines \in Seq(LineType) /\ Lines(i) = files[i].lines
        /\ \A i \in 0..n : Lines(i) \in Seq(LineType)
        /\ \A i \in 1..Len(files') : files'[i].lines \in Seq(LineType) /\ Lines(i)' = files'[i].lines
        /\ Lines(0) = <<>> /\ Lines(0)' = <<>>
        /\ cur' \in 0..Len(files') /\ 1 \in 1..MaxRotations
        /\ arch[1] # 0 => arch[1] # cur /\ arch[1] # tmp
        /\ cur # 0 => cur # tmp
        /\ wr[w] \in WriterType(n)
    <2>1. WalTypes /\ WalTypes' /\ NamesApart /\ MaintHolds /\ WriterHolds(w) /\ PendingWhere(w)
      BY DEF WalBase
    <2>2. 1 \in 1..MaxRotations
      OBVIOUS
    <2>3. /\ arch[1] \in 0..n /\ cur \in 0..n /\ tmp \in 0..n /\ cur' \in 0..Len(files')
          /\ wr[w] \in WriterType(n)
      BY <2>1, <2>2 DEF WalTypes
    <2>4. (arch[1] # 0 => arch[1] # cur /\ arch[1] # tmp) /\ (cur # 0 => cur # tmp)
      BY <2>1, <2>2 DEF NamesApart
    <2>. QED
      BY <2>1, <2>2, <2>3, <2>4, LinesType, LinesTypeNext
  <1>2. MayLose \subseteq MayLose'
    BY ExpiredGrows DEF Next
  <1>3. /\ \A v \in Writers : wr'[v].sent >= wr[v].sent /\ wr[v].sent \in Nat /\ wr'[v].sent \in Nat
        /\ AppendWrite(w) => wr'[w].sent = wr[w].sent + 1
        /\ ~ AppendWrite(w) => acked' = acked
    BY <1>1, SentGrows
  <1>4. /\ arch' = arch /\ tmp' = tmp /\ (cur # 0 => cur' = cur)
        /\ cur = 0 /\ cur' # 0 => cur' = n + 1 /\ files'[cur'].lines = <<>>
        /\ Len(files') >= n
        /\ \A k \in 1..n : files[k].flock = Maint => files'[k].lines = files[k].lines
    <2>1. WriterEffect(w)
      BY WriterEffects
    <2>2. Maint \in Owners \ {w, Nobody}
      BY DEF LogAssumption, Owners
    <2>. QED
      BY <2>1, <2>2 DEF WriterEffect
  <1>5. /\ \A i \in 1..n : files'[i].lines = files[i].lines => Sent(files'[i].lines, wr')
        /\ \A i \in 1..Len(files') : files'[i].lines = <<>> => Sent(files'[i].lines, wr')
        /\ \A x \in acked : x[2] <= wr'[x[1]].sent
    BY <1>1, <1>3, <1>4, PastStays DEF Keeping
  <1>6. tmp # 0 => /\ tmp \in 1..n /\ cur \in 1..n /\ cur' = cur
                   /\ files'[cur].lines = files[cur].lines
    <2>1. tmp # 0 => cur # 0 /\ files[cur].flock = Maint
      BY <1>1 DEF Numbering, MaintHolds
    <2>. QED
      BY <1>1, <1>4, <2>1
  <1>7. tmp # 0 /\ files'[tmp].lines = files[tmp].lines => Subfile(Lines(tmp)', Lines(cur)')
    <2>1. ASSUME tmp # 0, files'[tmp].lines = files[tmp].lines
          PROVE  Lines(tmp)' = Lines(tmp) /\ Lines(cur)' = Lines(cur)
      <3>1. tmp \in 1..Len(files') /\ cur \in 1..Len(files')
        BY <1>1, <1>4, <1>6, <2>1
      <3>2. Lines(cur)' = files'[cur].lines
        BY <1>1, <1>6, <2>1, <3>1 DEF Lines
      <3>3. Lines(tmp)' = files'[tmp].lines
        BY <1>1, <1>4, <3>1 DEF Lines
      <3>. QED
        BY <1>1, <1>6, <2>1, <3>2, <3>3
    <2>. QED
      BY <2>1 DEF Keeping
  \* where the same lines are, the same is told
  <1>8. ASSUME \A k \in 1..n : k = cur \/ k = arch[1] => files'[k].lines = files[k].lines
        PROVE  Tells' = Tells
    <2>1. Lines(arch[1])' = A
      BY <1>1, <1>4, <1>8 DEF Lines
    <2>2. Lines(cur)' = C
      <3>1. CASE cur = 0 /\ cur' = 0
        BY <3>1 DEF Lines
      <3>2. CASE cur = 0 /\ cur' # 0
        BY <1>4, <3>2 DEF Lines
      <3>3. CASE cur # 0
        BY <1>1, <1>4, <1>8, <3>3 DEF Lines
      <3>. QED
        BY <3>1, <3>2, <3>3
    <2>. QED
      BY <2>1, <2>2 DEF Tells
  <1>9. CASE SameLines /\ ~ AppendWrite(w) /\ \/ Len(files') = n
                                              \/ /\ cur = 0 /\ cur' = n + 1
                                                 /\ Len(files') = n + 1 /\ files'[cur'].lines = <<>>
    <2>1. Tells' = Tells
      BY <1>8, <1>9 DEF SameLines
    <2>2. \A i \in 1..Len(files') : Sent(files'[i].lines, wr')
      <3>1. \A i \in 1..Len(files') : i \in 1..n \/ (i = cur' /\ files'[i].lines = <<>>)
        BY <1>1, <1>9
      <3>. QED
        BY <1>5, <1>9, <3>1 DEF SameLines
    <2>3. Keeping'
      BY <1>1, <1>3, <1>4, <1>5, <1>6, <1>7, <1>9, <2>2 DEF Keeping, Past, SameLines
    <2>. QED
      BY <1>2, <1>3, <1>9, <2>1, <2>3 DEF Move
  <1>10. ASSUME NEW line, Pushes(w, line)
         PROVE  Keeping' /\ Move
    <2> DEFINE ls == files[fd].lines
    <2>1. /\ fd \in 1..n /\ line \in LineType /\ ls \in Seq(LineType) /\ ~ AppendFail(w)
          /\ files'[fd].lines = Push(ls, line) /\ Len(files') = n
          /\ \A k \in 1..n : k # fd => files'[k].lines = files[k].lines
      BY <1>1, <1>10 DEF Pushes, OtherLines, AppendFail
    <2>2. Push(ls, line) = Append(ls, line)
      <3>1. Whole(ls)
        BY <1>1, <2>1, LinesType DEF Numbering
      <3>. QED
        BY <2>1, <3>1, PushWhole
    <2>3. fd # tmp
      <3>1. Opened(w)
        BY <1>10 DEF Pushes, CreateMarker, AppendWrite, AppendFail, Opened
      <3>. QED
        BY <1>1, <3>1 DEF WriterHolds
    <2>4. \/ CreateMarker(w) /\ ~ AppendWrite(w) /\ line.kind = "marker"
          \/ AppendWrite(w) /\ line.kind = "event" /\ Name(line) = e /\ line.w = w /\ line.n = wr[w].sent + 1
      BY <1>10, <2>1 DEF Pushes, Name, Line
    <2> DEFINE more == Append(ls, line)
    <2>5. /\ more \in Seq(LineType) /\ Len(more) = Len(ls) + 1 /\ more[Len(ls) + 1] = line /\ Len(ls) \in Nat
          /\ \A k \in 1..Len(ls) : more[k] = ls[k]
      BY <2>1
    <2>6. files'[fd].lines = more
      BY <2>1, <2>2
    <2> HIDE DEF more, ls
    <2>7. Sent(files'[fd].lines, wr')
      <3> SUFFICES ASSUME NEW k \in 1..Len(more), more[k].kind = "event"
                   PROVE  more[k].n <= wr'[more[k].w].sent
        BY <2>6 DEF Sent
      <3>1. CASE k \in 1..Len(ls)
        <4>1. ls[k] \in LineType /\ ls[k].kind = "event" /\ more[k] = ls[k]
          BY <2>1, <2>5, <3>1
        <4>2. ls[k].w \in Writers /\ ls[k].n \in Nat
          BY <4>1, WalAssumption DEF LineType
        <4>3. ls[k].n <= wr[ls[k].w].sent
          BY <2>1, <3>1, <4>1 DEF Keeping, Past, Sent, ls
        <4>. QED
          BY <1>3, <4>1, <4>2, <4>3
      <3>2. CASE k = Len(ls) + 1
        BY <1>3, <2>4, <2>5, <3>2
      <3>. QED
        BY <2>5, <3>1, <3>2
    <2>8. \A i \in 1..Len(files') : Sent(files'[i].lines, wr')
      BY <1>5, <2>1, <2>7
    <2>9. AppendWrite(w) => acked' = acked \cup {e}
      BY DEF AppendWrite
    <2>10. \A x \in acked' : x[2] <= wr'[x[1]].sent
      BY <1>3, <1>5, <2>9
    <2>11. Keeping'
      BY <1>1, <1>4, <1>6, <1>7, <2>1, <2>3, <2>8, <2>10 DEF Keeping, Past
    \* what is told of the file and of the archive
    <2>12. fd # cur => Lines(cur)' = C
      <3>1. CASE cur' = 0
        BY <1>4, <3>1 DEF Lines
      <3>2. CASE cur' # 0 /\ cur = 0
        BY <1>4, <3>2 DEF Lines
      <3>3. CASE cur' # 0 /\ cur # 0
        BY <1>1, <1>4, <2>1, <3>3 DEF Lines
      <3>. QED
        BY <3>1, <3>2, <3>3
    <2>13. fd = arch[1] /\ fd # cur => Lines(arch[1])' = more /\ A = ls
      BY <1>1, <1>4, <2>1, <2>6 DEF Lines, ls
    <2>14. ASSUME fd = cur \/ (fd = arch[1] /\ C = <<>>)
           PROVE  Tells' = IF line.kind = "event" THEN Append(Tells, Name(line)) ELSE Tells
      <3>1. A \in Seq(LineType) /\ C \in Seq(LineType)
        BY <1>1
      <3>2. /\ Told(A, Append(C, line)) = IF line.kind = "event" THEN Append(Tells, Name(line)) ELSE Tells
            /\ C = <<>> => Told(Append(A, line), C) =
                   IF line.kind = "event" THEN Append(Tells, Name(line)) ELSE Tells
        BY <2>1, <3>1, ToldMore DEF Tells
      <3>3. CASE fd = cur
        <4>1. Lines(arch[1])' = A /\ Lines(cur)' = more /\ C = ls
          BY <1>1, <1>4, <2>1, <2>6, <3>3 DEF Lines, ls
        <4>2. Tells' = Told(A, Append(C, line))
          BY <4>1 DEF Tells, more
        <4>. QED
          BY <3>2, <4>2
      <3>4. CASE fd # cur /\ fd = arch[1] /\ C = <<>>
        <4>1. Tells' = Told(Append(A, line), C)
          BY <2>12, <2>13, <3>4 DEF Tells, more
        <4>. QED
          BY <3>2, <3>4, <4>1
      <3>. QED
        BY <2>14, <3>3, <3>4
    <2>15. fd # cur /\ fd # arch[1] => Tells' = Tells
      BY <1>8, <2>1
    <2>16. CASE CreateMarker(w) /\ ~ AppendWrite(w) /\ line.kind = "marker"
      <3>1. acked' = acked
        BY <1>3, <2>16
      <3>2. Tells' = Tells
        <4>1. CASE fd = arch[1] /\ fd # cur
          <5>1. EventLines(Append(ls, line)) = EventLines(ls)
            BY <2>1, <2>16, EventLinesMore
          <5>. QED
            BY <2>12, <2>13, <4>1, <5>1 DEF Tells, Told, more
        <4>. QED
          BY <2>14, <2>15, <2>16, <4>1
      <3>. QED
        BY <1>2, <2>11, <3>1, <3>2 DEF Move
    <2>17. CASE AppendWrite(w) /\ line.kind = "event" /\ Name(line) = e
      <3>1. Pending(w) /\ wr[w].sent < MaxAppends /\ acked' = acked \cup {e}
        BY <1>1, <2>9, <2>17 DEF AppendWrite, Pending, PendingWhere
      <3>2. e \in Events
        BY <1>3, <3>1, WalAssumption DEF Events
      <3>3. e \notin Promise!Elements(Tells) \cup acked
        <4>1. e \notin acked
          BY <1>3 DEF Keeping, Past
        <4>2. ASSUME NEW i \in 1..n, e \in EventsIn(files[i].lines)
              PROVE  FALSE
          <5>1. PICK k \in 1..Len(files[i].lines) :
                    files[i].lines[k].kind = "event" /\ <<files[i].lines[k].w, files[i].lines[k].n>> = e
            <6>1. files[i].lines \in Seq(LineType) /\ DOMAIN files[i].lines = 1..Len(files[i].lines)
              BY <1>1
            <6>. QED
              BY <4>2, <6>1 DEF EventsIn
          <5>2. files[i].lines[k].n <= wr[files[i].lines[k].w].sent
            BY <5>1 DEF Keeping, Past, Sent
          <5>. QED
            BY <1>3, <5>1, <5>2
        <4>3. EventsIn(A) \cup EventsIn(C) = Promise!Elements(Tells)
          BY <1>1, ToldNames DEF Tells
        <4>4. e \notin EventsIn(A) /\ e \notin EventsIn(C)
          <5>1. EventsIn(<<>>) = {}
            BY DEF EventsIn
          <5>2. ASSUME NEW i \in 0..n PROVE e \notin EventsIn(Lines(i))
            <6>1. CASE i = 0
              BY <1>1, <5>1, <6>1
            <6>2. CASE i \in 1..n
              BY <1>1, <4>2, <6>2
            <6>. QED
              BY <1>1, <6>1, <6>2
          <5>. QED
            BY <1>1, <5>2
        <4>. QED
          BY <4>1, <4>3, <4>4
      <3>4. CASE fd = cur \/ (fd = arch[1] /\ C = <<>>)
        BY <1>2, <2>11, <2>14, <2>17, <3>1, <3>2, <3>3, <3>4 DEF Move
      <3>5. CASE wr[w].late /\ fd # cur /\ fd # arch[1]
        <4>1. e \in MayLose'
          BY <2>17, <3>5 DEF AppendWrite, MayLose
        <4>. QED
          BY <1>2, <2>11, <2>15, <3>1, <3>2, <3>5, <4>1 DEF Move
      <3>. QED
        BY <1>1, <3>1, <3>4, <3>5 DEF PendingWhere
    <2>. QED
      BY <2>4, <2>16, <2>17
  <1>. QED
    BY <1>9, <1>10, WriterWrites

\* What maintenance does to the log.
LEMMA MaintenanceMoves ==
    ASSUME LogAssumption, WalBase, WalBase', Explained, Numbering, Keeping, MaxRotations = 1,
           faults = 0, faults' = 0, Maintenance
    PROVE  Keeping' /\ Move
  <1> DEFINE n == Len(files)
             A == Lines(arch[1])
             C == Lines(cur)
             T == Lines(tmp)
  <1>1. /\ WalTypes /\ WalTypes' /\ MaintHolds /\ mt \in MaintType(n)
        /\ n \in Nat /\ Len(files') \in Nat /\ cur \in 0..n /\ tmp \in 0..n /\ arch[1] \in 0..n
        /\ \A i \in 1..n : files[i].lines \in Seq(LineType) /\ Lines(i) = files[i].lines
        /\ A \in Seq(LineType) /\ C \in Seq(LineType) /\ T \in Seq(LineType)
        /\ Lines(0) = <<>> /\ 1 \in 1..MaxRotations
        /\ arch[1] # 0 => arch[1] # cur /\ arch[1] # tmp
        /\ cur # 0 => cur # tmp
    <2>1. WalTypes /\ WalTypes' /\ NamesApart /\ MaintHolds
      BY DEF WalBase
    <2>2. 1 \in 1..MaxRotations
      OBVIOUS
    <2>3. /\ arch[1] \in 0..n /\ cur \in 0..n /\ tmp \in 0..n /\ mt \in MaintType(n)
      BY <2>1, <2>2 DEF WalTypes
    <2>4. (arch[1] # 0 => arch[1] # cur /\ arch[1] # tmp) /\ (cur # 0 => cur # tmp)
      BY <2>1, <2>2 DEF NamesApart
    <2>5. /\ \A i \in 1..n : files[i].lines \in Seq(LineType) /\ Lines(i) = files[i].lines
          /\ \A i \in 0..n : Lines(i) \in Seq(LineType)
          /\ n \in Nat /\ Len(files') \in Nat /\ Lines(0) = <<>>
      BY <2>1, LinesType, LinesTypeNext
    <2>. QED
      BY <2>1, <2>2, <2>3, <2>4, <2>5
  <1>2. MayLose \subseteq MayLose' /\ (~ InRotationWindow => Expired \subseteq Expired')
    BY ExpiredGrows DEF Next
  <1>3. ~ Crash /\ ~ CleanupFail
    BY DEF Crash, CleanupFail
  <1>4. /\ acked' = acked /\ Len(files') >= n
        /\ \A v \in Writers : wr'[v].sent = wr[v].sent /\ wr[v].sent \in Nat
    <2>1. MaintenanceEffect
      BY MaintenanceEffects
    <2>2. \A v \in Writers : wr[v].sent \in Nat
      BY <1>1, WalAssumption DEF WalTypes, WriterType
    <2>. QED
      BY <1>3, <2>1, <2>2 DEF MaintenanceEffect, SameFields
  <1>5. /\ \A i \in 1..n : files'[i].lines = files[i].lines => Sent(files'[i].lines, wr')
        /\ \A i \in 1..Len(files') : files'[i].lines = <<>> => Sent(files'[i].lines, wr')
        /\ \A e \in acked : e[2] <= wr'[e[1]].sent
    <2>1. \A v \in Writers : wr'[v].sent >= wr[v].sent /\ wr[v].sent \in Nat /\ wr'[v].sent \in Nat
      BY <1>4
    <2>. QED
      BY <1>1, <1>4, <2>1, PastStays DEF Keeping
  <1>6. (tmp # 0 => mt.pc = "cleanupRename") /\ (cur # 0 => cur \in 1..n) /\ (mt.fd # 0 => mt.fd \in 1..n)
    <2>1. mt.fd \in 0..n
      BY <1>1 DEF MaintType
    <2>. QED
      BY <1>1, <2>1 DEF Numbering
  <1>7. CASE CleanupOpen \/ CleanupLock \/ CleanupNothing \/ CleanupUnlock \/ RotateOpen \/ RotateLock
    <2>1. tmp = 0 /\ tmp' = 0 /\ cur' = cur /\ arch' = arch
      BY <1>6, <1>7 DEF CleanupOpen, CleanupLock, CleanupNothing, CleanupUnlock, RotateOpen, RotateLock,
                        dirs
    <2>2. SameLines /\ Len(files') = n
      <3>1. CASE CleanupOpen \/ RotateOpen
        <4>1. files' = files /\ files \in Seq(File)
          BY <1>1, <3>1 DEF CleanupOpen, RotateOpen, WalTypes
        <4>. QED
          BY <1>1, <4>1 DEF SameLines
      <3>2. CASE CleanupLock \/ CleanupNothing \/ CleanupUnlock \/ RotateLock
        <4>1. mt.fd \in 1..n
          BY <1>1, <1>6, <3>2 DEF CleanupLock, CleanupNothing, CleanupUnlock, RotateLock, MaintHolds
        <4>2. \E who \in Owners : files' = [files EXCEPT ![mt.fd].flock = who]
          BY <3>2, <4>1 DEF CleanupLock, CleanupNothing, CleanupUnlock, RotateLock, Lock, Owners
        <4>. QED
          BY <1>1, <4>1, <4>2, LockIs
      <3>. QED
        BY <1>7, <3>1, <3>2
    <2>3. Lines(cur)' = C /\ Lines(arch[1])' = A
      BY <1>1, <2>1, <2>2 DEF SameLines, Lines
    <2>4. Tells' = Tells
      BY <2>3 DEF Tells
    <2>5. Keeping'
      BY <1>4, <1>5, <2>1, <2>2 DEF Keeping, Past, SameLines
    <2>. QED
      BY <1>2, <1>4, <2>4, <2>5 DEF Move
  <1>8. CASE CleanupWrite
    <2>1. tmp = 0 /\ cur' = cur /\ arch' = arch /\ T = <<>> /\ mt.pc = "cleanupRead" /\ cur \in 1..n
      BY <1>1, <1>6, <1>8 DEF CleanupWrite, MaintHolds
    <2>2. PICK base \in RecoveredSeqs(T) : WriteTemp(Copy(base))
      BY <1>1, <1>8, CopyIs DEF CleanupWrite
    <2> DEFINE ls == Copy(base)
               marker == Line("marker", Nobody, 0, base)
    <2>3. ls \in Seq(LineType)
      BY <1>1, <2>2, CopyIs
    <2>4. \A k \in 1..Len(ls) : \/ k = 1 /\ ls[k] = marker
                                \/ \E i \in 1..Len(C) : ls[k] = C[i]
      BY <1>1, <2>2, CopyHolds
    <2>5. ls[1] = marker
      <3>1. Kept \in Seq(LineType) /\ Later \in Seq(LineType) /\ ls = <<marker>> \o Kept \o Later
        BY <1>1, CopyIs DEF Copy
      <3> HIDE DEF ls, marker
      <3>. QED
        BY <3>1
    <2>6. ASSUME NEW k \in 1..Len(ls), ls[k].kind = "event"
          PROVE  k \in 2..Len(ls) /\ \E i \in 1..Len(C) : C[i] = ls[k]
      <3>1. marker.kind = "marker"
        BY DEF Line
      <3>2. k \in Nat /\ Len(ls) \in Nat
        BY <2>3
      <3> HIDE DEF marker, ls
      <3>3. k # 1
        BY <2>5, <2>6, <3>1
      <3>4. PICK i \in 1..Len(C) : ls[k] = C[i]
        BY <2>4, <3>3
      <3>. QED
        BY <3>2, <3>3, <3>4
    <2>7. \A k, l \in 2..Len(ls) : k < l =>
              \E i, j \in 1..Len(C) : i < j /\ C[i] = ls[k] /\ C[j] = ls[l]
      <3>1. Numbered(C)
        BY DEF Numbering
      <3>. QED
        BY <1>1, <2>2, <3>1, CopyInOrder
    <2> HIDE DEF ls, marker
    <2>8. Subfile(ls, C)
      <3>1. DOMAIN ls = 1..Len(ls) /\ DOMAIN C = 1..Len(C)
        BY <1>1, <2>3
      <3>2. EventsIn(ls) \subseteq EventsIn(C)
        <4> SUFFICES ASSUME NEW k \in 1..Len(ls), ls[k].kind = "event"
                     PROVE  <<ls[k].w, ls[k].n>> \in EventsIn(C)
          BY <3>1 DEF EventsIn
        <4>1. PICK i \in 1..Len(C) : C[i] = ls[k]
          BY <2>6
        <4>. QED
          BY <3>1, <4>1 DEF EventsIn
      <3>. QED
        BY <2>6, <2>7, <3>2 DEF Subfile
    <2>9. /\ Len(files') = n + 1 /\ tmp' = n + 1 /\ files'[n + 1].lines = ls
          /\ \A k \in 1..n : files'[k].lines = files[k].lines
      <3>1. /\ \A k \in 1..n : k # tmp => files'[k].lines = files[k].lines
            /\ tmp = 0 => tmp' = n + 1 /\ files'[tmp'].lines = ls /\ Len(files') = n + 1
        BY <1>1, <2>2, <2>3, TempIs DEF ls
      <3>2. \A k \in 1..n : k # tmp
        BY <1>1, <2>1
      <3>. QED
        BY <2>1, <3>1, <3>2
    <2>10. Lines(cur)' = C /\ Lines(tmp)' = ls /\ Lines(arch[1])' = A
      <3>1. n + 1 # 0
        BY <1>1
      <3>. QED
        BY <1>1, <2>1, <2>9, <3>1 DEF Lines
    <2>11. Tells' = Tells
      BY <2>10 DEF Tells
    <2>12. Sent(ls, wr')
      <3> SUFFICES ASSUME NEW k \in 1..Len(ls), ls[k].kind = "event"
                   PROVE  ls[k].n <= wr'[ls[k].w].sent
        BY DEF Sent
      <3>1. PICK i \in 1..Len(C) : C[i] = ls[k]
        BY <2>6
      <3>2. Sent(C, wr') 
        BY <1>1, <1>5, <2>1, <2>9
      <3>. QED
        BY <3>1, <3>2 DEF Sent
    <2>13. \A i \in 1..Len(files') : Sent(files'[i].lines, wr')
      <3>1. \A i \in 1..(n + 1) : i \in 1..n \/ i = n + 1
        BY <1>1
      <3>. QED
        BY <1>5, <2>9, <2>12, <3>1
    <2>14. Keeping'
      BY <1>4, <1>5, <2>8, <2>10, <2>13 DEF Keeping, Past
    <2>. QED
      BY <1>2, <1>4, <2>11, <2>14 DEF Move
  <1>9. CASE CleanupRename
    <2>1. tmp \in 1..n /\ cur' = tmp /\ tmp' = 0 /\ arch' = arch /\ mt.fd \in 1..n /\ ~ InRotationWindow
      BY <1>1, <1>6, <1>9 DEF CleanupRename, MaintHolds, InRotationWindow
    <2>2. SameLines /\ Len(files') = n
      <3>1. files' = [files EXCEPT ![mt.fd].flock = Nobody] /\ Nobody \in Owners
        BY <1>9 DEF CleanupRename, Owners
      <3>. QED
        BY <1>1, <2>1, <3>1, LockIs
    <2>3. Lines(cur)' = T /\ Lines(arch[1])' = A
      BY <1>1, <2>1, <2>2 DEF SameLines, Lines
    <2>4. Subfile(T, C) /\ EventsIn(C) \ EventsIn(T) \subseteq MayLose'
      <3>1. EventsIn(C) \subseteq Expired \cup EventsIn(T)
        BY <1>9 DEF Explained, CleanupRename
      <3>2. Expired \subseteq MayLose'
        BY <1>2, <2>1 DEF MayLose
      <3>3. Subfile(T, C)
        BY <1>1, <2>1 DEF Keeping
      <3>. QED
        BY <3>1, <3>2, <3>3
    <2>5. Promise!Thinned(Told(A, C), Told(A, T), MayLose')
      BY <1>1, <2>4, ToldThinned
    <2>6. Promise!Thinned(Tells, Tells', MayLose')
      BY <2>3, <2>5 DEF Tells
    <2>7. Keeping'
      BY <1>4, <1>5, <2>1, <2>2 DEF Keeping, Past, SameLines
    <2>. QED
      BY <1>2, <1>4, <2>6, <2>7 DEF Move
  <1>10. CASE RotateRename
    <2>1. /\ cur # 0 /\ cur' = 0 /\ files' = files /\ arch'[1] = cur
          /\ EventsIn(A) \subseteq MayLose'
      BY <1>1, <1>10, ShiftIs DEF MayLose
    <2>2. tmp' = 0
      BY <1>6, <1>10 DEF RotateRename
    <2>3. Lines(cur)' = <<>> /\ Lines(arch[1])' = C
      BY <1>1, <2>1 DEF Lines
    <2>4. Promise!Thinned(Told(A, C), Told(C, <<>>), MayLose')
      BY <1>1, <2>1, ToldShifted
    <2>5. Promise!Thinned(Tells, Tells', MayLose')
      BY <2>3, <2>4 DEF Tells
    <2>6. Keeping'
      BY <1>4, <1>5, <2>1, <2>2 DEF Keeping, Past
    <2>. QED
      BY <1>2, <1>4, <2>5, <2>6 DEF Move
  <1>11. CASE RotateCreate
    <2>1. tmp = 0 /\ tmp' = 0 /\ arch' = arch /\ mt.fd \in 1..n /\ InRotationWindow
      <3>1. tmp = 0 /\ tmp' = tmp /\ arch' = arch /\ InRotationWindow
        BY <1>6, <1>11 DEF RotateCreate, InRotationWindow
      <3>2. mt.fd # 0
        BY <1>1, <3>1 DEF MaintHolds
      <3>. QED
        BY <1>6, <3>1, <3>2
    <2>2. /\ cur' \in 1..Len(files') /\ files'[cur'].lines = <<>>
          /\ \A k \in 1..n : files'[k].lines = IF k = cur THEN <<>> ELSE files[k].lines
          /\ Len(files') = n \/ (Len(files') = n + 1 /\ cur' = n + 1)
      <3>1. /\ cur' \in 1..Len(files') /\ files'[cur'].lines = <<>>
            /\ \A k \in 1..n : files'[k].lines = IF k = cur THEN <<>> ELSE files[k].lines
        BY <1>1, <1>11, <2>1, EmptiedIs
      <3>2. Len(files') = n \/ (Len(files') = n + 1 /\ cur' = n + 1)
        BY <1>1, <1>11, <2>1, EmptiedIs
      <3>. QED
        BY <3>1, <3>2
    <2>3. Lines(cur)' = <<>> /\ Lines(arch[1])' = A
      BY <1>1, <2>1, <2>2 DEF Lines
    <2>4. Subfile(<<>>, C) /\ EventsIn(C) \subseteq MayLose' /\ EventsIn(<<>>) = {} /\ <<>> \in Seq(LineType)
      <3>1. EventsIn(C) \subseteq MayLose
        BY <2>1 DEF Explained, MayLose
      <3>2. EventsIn(<<>>) = {} /\ Len(<<>>) = 0 /\ 1..0 = {}
        BY DEF EventsIn
      <3>3. Subfile(<<>>, C)
        BY <3>2 DEF Subfile
      <3>4. <<>> \in Seq(LineType)
        OBVIOUS
      <3>. QED
        BY <1>2, <3>1, <3>2, <3>3, <3>4
    <2>5. Promise!Thinned(Told(A, C), Told(A, <<>>), MayLose')
      BY <1>1, <2>4, ToldThinned
    <2>6. Promise!Thinned(Tells, Tells', MayLose')
      BY <2>3, <2>5 DEF Tells
    <2>7. \A i \in 1..Len(files') : Sent(files'[i].lines, wr')
      <3>1. \A i \in 1..(n + 1) : i \in 1..n \/ i = n + 1
        BY <1>1
      <3>2. \A i \in 1..Len(files') : i \in 1..n \/ i = cur'
        BY <2>2, <3>1
      <3>. QED
        BY <1>5, <2>2, <3>2
    <2>8. Keeping'
      BY <1>4, <1>5, <2>1, <2>7 DEF Keeping, Past
    <2>. QED
      BY <1>2, <1>4, <2>6, <2>8 DEF Move
  <1>. QED
    BY <1>3, <1>7, <1>8, <1>9, <1>10, <1>11 DEF Maintenance

LEMMA KeepingInit == Init => Keeping
  <1> SUFFICES ASSUME Init
               PROVE  Keeping
    OBVIOUS
  <1>1. Len(files) = 0 /\ acked = {} /\ tmp = 0
    BY DEF Init
  <1>. QED
    BY <1>1 DEF Keeping, Past

LEMMA KeepingStep ==
    ASSUME LogAssumption, WalBase, Explained, Numbering, Keeping, MaxRotations = 1,
           faults = 0, faults' = 0, [Next]_vars
    PROVE  Keeping' /\ Move
  <1>1. WalBase'
    BY BaseStep
  <1>2. CASE Tick \/ UNCHANGED vars
    <2>1. files' = files /\ cur' = cur /\ arch' = arch /\ tmp' = tmp /\ wr' = wr /\ acked' = acked
      BY <1>2 DEF Tick, vars, dirs, histories
    <2>2. Lines(cur)' = Lines(cur) /\ Lines(arch[1])' = Lines(arch[1]) /\ Lines(tmp)' = Lines(tmp)
      BY <2>1 DEF Lines
    <2>3. Tells' = Tells
      BY <2>2 DEF Tells
    <2>4. Keeping'
      BY <2>1, <2>2 DEF Keeping, Past
    <2>5. MayLose \subseteq MayLose'
      BY ExpiredGrows
    <2>. QED
      BY <2>1, <2>3, <2>4, <2>5 DEF Move
  <1>. QED
    BY <1>1, <1>2, WriterMoves, MaintenanceMoves DEF Next

\* A move is a step of the promise.
LEMMA MoveIsPromised ==
    ASSUME WalTypes, WalTypes', MaxRotations = 1, Move
    PROVE  Promise!LogNext
  <1>1. Readable = Tells /\ Readable' = Tells'
    BY TellsIs, TellsIsNext
  <1>2. ASSUME Tells' = Tells
        PROVE  Promise!Thinned(Readable, Readable', MayLose')
    BY <1>1, <1>2, Zenon DEF Promise!Thinned
  <1>3. ASSUME Promise!Thinned(Readable, Readable', MayLose'), acked' = acked, MayLose \subseteq MayLose'
        PROVE  Promise!Retire
    BY <1>3 DEF Promise!Retire
  <1>4. CASE (Tells' = Tells \/ Promise!Thinned(Tells, Tells', MayLose')) /\ acked' = acked
    <2>1. MayLose \subseteq MayLose'
      BY DEF Move
    <2>. QED
      BY <1>1, <1>2, <1>3, <1>4, <2>1 DEF Promise!LogNext
  <1>5. ASSUME NEW e \in Events, e \notin Promise!Elements(Tells) \cup acked,
               Tells' = Append(Tells, e), acked' = acked \cup {e}
        PROVE  Promise!LogNext
    <2>1. Promise!Write(e)
      BY <1>1, <1>5 DEF Move, Promise!Write
    <2>. QED
      BY <2>1 DEF Promise!LogNext
  <1>6. ASSUME NEW e \in Events, e \in MayLose', Tells' = Tells, acked' = acked \cup {e}
        PROVE  Promise!LogNext
    <2>1. Promise!WriteExposed(e)
      BY <1>1, <1>6 DEF Move, Promise!WriteExposed
    <2>. QED
      BY <2>1 DEF Promise!LogNext
  <1>. QED
    BY <1>4, <1>5, <1>6 DEF Move

-----------------------------------------------------------------------------
(* Processes that append at once                                           *)

Processes == {w1, w2, w3}
ProcessLine ==
    {line \in [kind : {"marker", "event"}, w : Processes, n : Nat, seq : Nat, ts : Nat] :
        line.kind = "event" => line.n \in 1..MaxAppends}
ProcessFile == [lines : Seq(ProcessLine), flock : Processes \cup {Nobody, Maint}]
ProcessType ==
    [pc : {"none", "createOpen", "createLock", "createWrite", "ready", "appendLock",
           "appendWrite", "closed"},
     fd : 0..1, seq : Nat, sent : Nat, late : {FALSE}]

\* There is one file, from the first open on; nothing is retired, late or expired.
OneFile ==
    /\ files \in Seq(ProcessFile)
    /\ \/ cur = 0 /\ Len(files) = 0
       \/ cur = 1 /\ Len(files) = 1
    /\ arch = [i \in 1..MaxRotations |-> 0]
    /\ wr \in [Processes -> ProcessType]
    /\ \A w \in Processes :
          /\ wr[w].pc \in {"createOpen", "createLock", "createWrite", "appendLock", "appendWrite"}
               => cur = 1 /\ wr[w].fd = 1
          /\ wr[w].pc \in {"appendLock", "appendWrite"} => wr[w].sent < MaxAppends
    /\ mt.pc = "idle" /\ clock = 0 /\ faults = 0 /\ exposed = {} /\ rotatedOut = {}
    /\ \A i \in 1..Len(files) : Sent(files[i].lines, wr)
    /\ acked \subseteq Crowd!Events /\ \A e \in acked : e[2] <= wr[e[1]].sent

Content == IF cur = 0 THEN <<>> ELSE files[1].lines
Appended == Told(<<>>, Content)

LEMMA ContentIs ==
    ASSUME OneFile
    PROVE  /\ Content \in Seq(ProcessLine) /\ Len(files) \in Nat
           /\ Crowd!Lines(cur) = Content /\ Crowd!Lines(0) = <<>>
           /\ cur = 1 => files[1] \in ProcessFile /\ files[1].lines = Content
           /\ Sent(Content, wr)
  <1>1. cur = 1 => files[1] \in ProcessFile
    BY ElementOfSeq DEF OneFile
  <1>2. <<>> \in Seq(ProcessLine) /\ Len(<<>>) = 0
    OBVIOUS
  <1>3. Content \in Seq(ProcessLine)
    BY <1>1, <1>2 DEF Content, ProcessFile, OneFile
  <1>4. Len(files) \in Nat /\ Crowd!Lines(cur) = Content /\ Crowd!Lines(0) = <<>>
    BY DEF Crowd!Lines, Content, OneFile
  <1>5. cur = 1 => files[1].lines = Content
    BY DEF Content
  <1>6. Sent(Content, wr)
    <2>1. CASE cur = 0
      BY <1>2, <2>1 DEF Content, Sent
    <2>2. CASE cur = 1
      BY <2>2 DEF Content, OneFile
    <2>. QED
      BY <2>1, <2>2 DEF OneFile
  <1>. QED
    BY <1>1, <1>3, <1>4, <1>5, <1>6

\* What processes read of the one file, and that they may lose nothing.
LEMMA CrowdReads == OneFile /\ MaxRotations = 1 => Crowd!Readable = Appended /\ Crowd!MayLose = {}
  <1> SUFFICES ASSUME OneFile, MaxRotations = 1
               PROVE  Crowd!Readable = Appended /\ Crowd!MayLose = {}
    OBVIOUS
  <1>1. Content \in Seq(ProcessLine) /\ Crowd!Lines(cur) = Content /\ Crowd!Lines(0) = <<>>
    BY ContentIs
  <1>2. EventLines(Content) \in Seq(ProcessLine) /\ EventLines(<<>>) = <<>>
    <2>1. <<>> \in Seq(ProcessLine)
      OBVIOUS
    <2>. QED
      BY <1>1, <2>1, EventLinesAre
  <1>3. Crowd!EventsOf(cur) = EventLines(Content) /\ Crowd!EventsOf(0) = <<>>
    <2>1. \A s, S : Crowd!Picked(s, S) = Picked(s, S)
      BY Zenon DEF Crowd!Picked, Picked
    <2>2. \A i : Crowd!EventsOf(i) = EventLines(Crowd!Lines(i))
      BY <2>1, Zenon DEF Crowd!EventsOf, EventLines
    <2>. QED
      BY <1>1, <1>2, <2>2
  <1> DEFINE ss == [i \in 1..MaxRotations |-> Crowd!EventsOf(arch[i])]
  <1>4. Crowd!FlattenSeq(ss) = <<>>
    <2>0. <<>> \in Seq(ProcessLine) /\ 1 \in Nat \ {0}
      OBVIOUS
    <2>1. ss = [i \in 1..1 |-> <<>>]
      BY <1>3 DEF OneFile
    <2> HIDE DEF ss
    <2>2. ss \in [1..1 -> Seq(ProcessLine)] /\ ss[1] = <<>>
      BY <2>0, <2>1
    <2>3. FlattenSeq(ss) = <<>>
      BY <2>0, <2>2, FlattenKeeps
    <2>. QED
      BY <2>3 DEF FlattenSeq, Crowd!FlattenSeq
  <1>5. Crowd!LoadAll = EventLines(Content)
    <2>1. Crowd!LoadAll = Crowd!FlattenSeq(ss) \o Crowd!EventsOf(cur)
      BY DEF Crowd!LoadAll
    <2> HIDE DEF ss
    <2>. QED
      BY <1>2, <1>3, <1>4, <2>1
  <1>6. Crowd!Readable = Names(EventLines(Content))
    <2>1. DOMAIN EventLines(Content) = 1..Len(EventLines(Content))
      BY <1>2
    <2>. QED
      BY <1>5, <2>1, Zenon DEF Crowd!Readable, Names, Name
  <1>7. Appended = Names(EventLines(Content))
    <2>1. <<>> \o EventLines(Content) = EventLines(Content)
      BY <1>2
    <2>. QED
      BY <1>2, <2>1 DEF Appended, Told
  <1>8. Crowd!Expired = {}
    <2> SUFFICES ASSUME NEW i \in DOMAIN files, NEW k \in DOMAIN files[i].lines
                 PROVE  Crowd!Fresh(files[i].lines[k])
      BY DEF Crowd!Expired
    <2>1. i = 1 /\ cur = 1 /\ files[1].lines = Content
      BY ContentIs DEF OneFile
    <2>2. Content[k] \in ProcessLine
      BY <1>1, <2>1
    <2>. QED
      BY <2>1, <2>2, WalAssumption DEF ProcessLine, Crowd!Fresh, OneFile
  <1>9. Crowd!MayLose = {}
    BY <1>8 DEF Crowd!MayLose, OneFile
  <1>. QED
    BY <1>6, <1>7, <1>9

LEMMA OneFileInit == Crowd!Init => OneFile
  <1> SUFFICES ASSUME Crowd!Init
               PROVE  OneFile
    OBVIOUS
  <1>1. files = <<>> /\ files \in Seq(ProcessFile) /\ Len(files) = 0
    BY DEF Crowd!Init
  <1>2. wr \in [Processes -> ProcessType]
    BY DEF Crowd!Init, Processes, ProcessType
  <1>. QED
    BY <1>1, <1>2 DEF Crowd!Init, OneFile, Processes

\* What a step of a process does.
Owned == {"createOpen", "createLock", "createWrite", "appendLock", "appendWrite"}
Written(w, s, ls) ==
    \/ s.sent = wr[w].sent /\ ls = Content /\ acked' = acked
    \/ /\ s.sent = wr[w].sent /\ acked' = acked
       /\ \E line \in ProcessLine : line.kind = "marker" /\ ls = Append(Content, line)
    \/ /\ s.sent = wr[w].sent + 1 /\ wr[w].sent < MaxAppends
       /\ acked' = acked \cup {<<w, s.sent>>}
       /\ \E line \in ProcessLine : /\ line.kind = "event" /\ line.w = w /\ line.n = s.sent
                                    /\ ls = Append(Content, line)
ProcessStep(w, s, ls) ==
    /\ s \in ProcessType /\ wr' = [wr EXCEPT ![w] = s]
    /\ s.pc \in Owned => cur' = 1 /\ s.fd = 1
    /\ s.pc \in {"appendLock", "appendWrite"} => s.sent < MaxAppends
    /\ files' \in Seq(ProcessFile)
    /\ \/ cur' = 0 /\ cur = 0 /\ Len(files') = 0 /\ ls = <<>>
       \/ cur' = 1 /\ Len(files') = 1 /\ files'[1].lines = ls
    /\ Written(w, s, ls)
    /\ UNCHANGED <<arch, tmp, mt, clock, faults, exposed, rotatedOut>>

\* The one file after another was put in its place.
LEMMA FilePut ==
    ASSUME OneFile, cur = 1, NEW f \in ProcessFile
    PROVE  /\ [files EXCEPT ![1] = f] \in Seq(ProcessFile)
           /\ Len([files EXCEPT ![1] = f]) = 1 /\ [files EXCEPT ![1] = f][1] = f
  <1>1. files \in Seq(ProcessFile) /\ Len(files) = 1 /\ 1 \in 1..Len(files)
    BY DEF OneFile
  <1>. QED
    BY <1>1

LEMMA ProcessOpens ==
    ASSUME OneFile, NEW w \in Processes, NEW label \in {"createOpen", "createLock", "appendLock"},
           Crowd!OpenPath(w, label), label = "appendLock" => wr[w].sent < MaxAppends,
           UNCHANGED <<arch, tmp, mt, clock, faults, acked, exposed, rotatedOut>>
    PROVE  \E s, ls : ProcessStep(w, s, ls)
  <1> DEFINE s == [wr[w] EXCEPT !.pc = label, !.fd = cur', !.late = Crowd!InRotationWindow]
  <1>1. wr \in [Processes -> ProcessType] /\ wr[w] \in ProcessType
    BY DEF OneFile
  <1>2. cur' = 1 /\ cur' \in 0..1 /\ Crowd!InRotationWindow \in {FALSE}
    <2>1. cur' = 1
      BY DEF Crowd!OpenPath, OneFile
    <2>2. Crowd!InRotationWindow = FALSE
      BY DEF Crowd!InRotationWindow, OneFile
    <2>3. cur' \in 0..1
      BY <2>1
    <2>4. Crowd!InRotationWindow \in {FALSE}
      BY <2>2, Zenon
    <2>. QED
      BY <2>1, <2>3, <2>4, Zenon
  <1>3. s \in ProcessType /\ s.pc = label /\ s.fd = 1 /\ s.sent = wr[w].sent
        /\ wr' = [wr EXCEPT ![w] = s]
    <2>1. wr' = [wr EXCEPT ![w].pc = label, ![w].fd = cur', ![w].late = Crowd!InRotationWindow]
      BY <1>2 DEF Crowd!OpenPath
    <2> DEFINE q == Crowd!InRotationWindow
    <2>2. q \in {FALSE} /\ s = [wr[w] EXCEPT !.pc = label, !.fd = cur', !.late = q]
      BY <1>2
    <2> HIDE DEF q
    <2>3. s \in ProcessType /\ s.pc = label /\ s.fd = cur' /\ s.sent = wr[w].sent
      BY <1>1, <1>2, <2>2 DEF ProcessType
    <2>4. wr' = [wr EXCEPT ![w] = s]
      BY <1>1, <2>1
    <2>. QED
      BY <1>2, <2>3, <2>4
  <1> HIDE DEF s
  <1>4. files' \in Seq(ProcessFile) /\ Len(files') = 1 /\ files'[1].lines = Content
    <2>1. CASE cur = 0
      <3> DEFINE f == [lines |-> <<>>, flock |-> Nobody]
      <3>1. f \in ProcessFile /\ f.lines = <<>>
        BY DEF ProcessFile
      <3>2. files' = Append(files, f)
        BY <2>1 DEF Crowd!OpenPath, Crowd!NewFile
      <3>3. files \in Seq(ProcessFile) /\ Len(files) = 0 /\ Content = <<>>
        BY <2>1 DEF OneFile, Content
      <3> HIDE DEF f
      <3>. QED
        BY <3>1, <3>2, <3>3
    <2>2. CASE cur = 1
      BY <2>2 DEF Crowd!OpenPath, Content, OneFile
    <2>. QED
      BY <2>1, <2>2 DEF OneFile
  <1>5. Written(w, s, Content)
    BY <1>3 DEF Written
  <1>6. ProcessStep(w, s, Content)
    BY <1>2, <1>3, <1>4, <1>5 DEF ProcessStep
  <1>. QED
    BY <1>6

\* No line of processes is torn: a line that is pushed is appended.
LEMMA ProcessPush ==
    ASSUME NEW ls \in Seq(ProcessLine), NEW line \in ProcessLine
    PROVE  Crowd!Push(ls, line) = Append(ls, line) /\ Append(ls, line) \in Seq(ProcessLine)
           /\ Crowd!Last(Append(ls, line)) = line
  <1>1. ASSUME ls # <<>>
        PROVE  Crowd!Last(ls).kind # "torn"
    <2>1. Crowd!Last(ls) = ls[Len(ls)] /\ Len(ls) \in 1..Len(ls)
      BY <1>1 DEF Crowd!Last
    <2>2. ls[Len(ls)] \in ProcessLine
      BY <2>1
    <2>. QED
      BY <2>1, <2>2 DEF ProcessLine
  <1>2. Crowd!Push(ls, line) = Append(ls, line)
    BY <1>1 DEF Crowd!Push
  <1>3. Crowd!Last(Append(ls, line)) = line
    BY DEF Crowd!Last
  <1>. QED
    BY <1>2, <1>3

\* WalWriter::create numbers from what Wal recovers, whoever it is.
LEMMA ProcessRecovers ==
    ASSUME NEW ls \in Seq(ProcessLine), NEW base \in Crowd!RecoveredSeqs(ls)
    PROVE  base \in Nat
  <1>1. \A s, S : Crowd!Picked(s, S) = Picked(s, S)
    BY Zenon DEF Crowd!Picked, Picked
  <1>2. Crowd!Parsed(ls) = Parsed(ls)
    BY <1>1, Zenon DEF Crowd!Parsed, Parsed, Crowd!Parses, Parses
  <1>3. Crowd!RecoveredSeqs(ls) = RecoveredSeqs(ls)
    <2>1. Crowd!Last(Parsed(ls)) = Last(Parsed(ls))
      BY Zenon DEF Crowd!Last, Last
    <2>2. Crowd!ToSet(Parsed(ls)) = ToSet(Parsed(ls))
      BY Zenon DEF Crowd!ToSet, ToSet
    <2>3. \A S : Crowd!Max(S) = Max(S)
      BY Zenon DEF Crowd!Max, Max
    <2>. QED
      BY <1>2, <2>1, <2>2, <2>3, Zenon DEF Crowd!RecoveredSeqs, RecoveredSeqs
  <1>4. \A line \in ProcessLine : line.seq \in Nat
    BY DEF ProcessLine
  <1>. QED
    BY <1>3, <1>4, RecoveredOf

LEMMA ProcessMoves ==
    ASSUME OneFile, NEW w \in Processes, Crowd!Writer(w)
    PROVE  \E s, ls : ProcessStep(w, s, ls)
  <1>1. /\ wr \in [Processes -> ProcessType] /\ wr[w] \in ProcessType
        /\ Content \in Seq(ProcessLine) /\ Crowd!Lines(cur) = Content
        /\ cur = 1 => files[1] \in ProcessFile /\ files[1].lines = Content
        /\ cur \in {0, 1} /\ Len(files) = cur /\ (cur = 0 => Content = <<>>)
        /\ files \in Seq(ProcessFile) /\ clock = 0
    BY ContentIs DEF OneFile, Content
  <1>2. wr[w].pc \in Owned => cur = 1 /\ wr[w].fd = 1
    BY DEF OneFile, Owned
  \* the writer moves, the file does not
  <1>3. ASSUME NEW s \in ProcessType, wr' = [wr EXCEPT ![w] = s], s.sent = wr[w].sent,
               s.pc \in Owned => cur = 1 /\ s.fd = 1,
               s.pc \in {"appendLock", "appendWrite"} => s.sent < MaxAppends,
               NEW who \in Processes \cup {Nobody, Maint},
               files' = files \/ (cur = 1 /\ files' = [files EXCEPT ![1] = [lines |-> Content, flock |-> who]]),
               UNCHANGED <<cur, arch, tmp, mt, clock, faults, acked, exposed, rotatedOut>>
        PROVE  \E q, ls : ProcessStep(w, q, ls)
    <2>1. [lines |-> Content, flock |-> who] \in ProcessFile
      BY <1>1 DEF ProcessFile
    <2>2. files' \in Seq(ProcessFile) /\ Len(files') = cur /\ (cur = 1 => files'[1].lines = Content)
      <3>1. CASE files' = files
        BY <1>1, <3>1
      <3>2. CASE cur = 1 /\ files' = [files EXCEPT ![1] = [lines |-> Content, flock |-> who]]
        BY <2>1, <3>2, FilePut
      <3>. QED
        BY <1>3, <3>1, <3>2
    <2>3. Written(w, s, Content)
      BY <1>3 DEF Written
    <2>4. ProcessStep(w, s, Content)
      BY <1>1, <1>3, <2>2, <2>3 DEF ProcessStep
    <2>. QED
      BY <2>4
  \* the writer appends a line
  <1>4. ASSUME NEW s \in ProcessType, wr' = [wr EXCEPT ![w] = s], cur = 1, s.pc = "ready",
               NEW line \in ProcessLine, Written(w, s, Append(Content, line)),
               files' = [files EXCEPT ![1] = [lines |-> Append(Content, line), flock |-> Nobody]],
               UNCHANGED <<cur, arch, tmp, mt, clock, faults, exposed, rotatedOut>>
        PROVE  \E q, ls : ProcessStep(w, q, ls)
    <2> DEFINE f == [lines |-> Append(Content, line), flock |-> Nobody]
    <2>1. f \in ProcessFile /\ f.lines = Append(Content, line)
      BY <1>1 DEF ProcessFile
    <2> HIDE DEF f
    <2>2. files' \in Seq(ProcessFile) /\ Len(files') = 1 /\ files'[1] = f
      BY <1>4, <2>1, FilePut DEF f
    <2>3. ProcessStep(w, s, Append(Content, line))
      BY <1>4, <2>1, <2>2 DEF ProcessStep, Owned
    <2>. QED
      BY <2>3
  <1>5. CASE Crowd!CreateNew(w)
    BY <1>5, ProcessOpens DEF Crowd!CreateNew, Crowd!histories
  <1>6. CASE Crowd!CreateOpen(w)
    <2>1. cur # 0
      BY <1>2, <1>6 DEF Crowd!CreateOpen, Owned
    <2>. QED
      BY <1>6, <2>1, ProcessOpens DEF Crowd!CreateOpen, Crowd!histories
  <1>7. CASE Crowd!AppendOpen(w)
    BY <1>7, ProcessOpens DEF Crowd!AppendOpen, Crowd!histories
  <1>8. CASE Crowd!WriterLock(w)
    <2>1. PICK label \in {"createWrite", "appendWrite"} :
              /\ wr' = [wr EXCEPT ![w].pc = label] /\ wr[w].pc \in {"createLock", "appendLock"}
              /\ label = "appendWrite" => wr[w].pc = "appendLock"
      BY <1>8 DEF Crowd!WriterLock
    <2> DEFINE s == [wr[w] EXCEPT !.pc = label]
    <2>2. s \in ProcessType /\ s.sent = wr[w].sent /\ s.fd = wr[w].fd /\ s.pc = label
          /\ wr' = [wr EXCEPT ![w] = s]
      BY <1>1, <2>1 DEF ProcessType
    <2> HIDE DEF s
    <2>3. cur = 1 /\ wr[w].fd = 1 /\ (label = "appendWrite" => wr[w].sent < MaxAppends)
      BY <1>2, <2>1 DEF Owned, OneFile
    <2>4. files' = [files EXCEPT ![1] = [lines |-> Content, flock |-> w]]
      <3>1. files' = [files EXCEPT ![1].flock = w]
        BY <1>8, <2>3 DEF Crowd!WriterLock, Crowd!Lock
      <3>2. [files[1] EXCEPT !.flock = w] = [lines |-> Content, flock |-> w]
        BY <1>1, <2>3 DEF ProcessFile
      <3>. QED
        BY <1>1, <2>3, <3>1, <3>2
    <2>5. UNCHANGED <<cur, arch, tmp, mt, clock, faults, acked, exposed, rotatedOut>>
      BY <1>8 DEF Crowd!WriterLock, Crowd!dirs, Crowd!histories
    <2>. QED
      BY <1>3, <2>2, <2>3, <2>4, <2>5
  <1>9. CASE Crowd!CreateMarker(w)
    <2>1. cur = 1 /\ wr[w].fd = 1
      BY <1>2, <1>9 DEF Crowd!CreateMarker, Owned
    <2>2. PICK base \in Crowd!RecoveredSeqs(Content) :
              /\ files' = Crowd!WrittenAndUnlocked(1, Crowd!Push(Content, Crowd!Line("marker", w, 0, base)))
              /\ wr' = [wr EXCEPT ![w].pc = "ready", ![w].seq = base + 1]
      BY <1>1, <1>9, <2>1 DEF Crowd!CreateMarker
    <2> DEFINE line == [kind |-> "marker", w |-> w, n |-> 0, seq |-> base, ts |-> 0]
               s == [wr[w] EXCEPT !.pc = "ready", !.seq = base + 1]
    <2>3. base \in Nat
      BY <1>1, <2>2, ProcessRecovers
    <2>4. line \in ProcessLine /\ line.kind = "marker" /\ Crowd!Line("marker", w, 0, base) = line
      BY <1>1, <2>3 DEF ProcessLine, Crowd!Line
    <2>5. s \in ProcessType /\ s.sent = wr[w].sent /\ s.pc = "ready" /\ wr' = [wr EXCEPT ![w] = s]
      <3>0. base + 1 \in Nat
        BY <2>3
      <3>1. s \in ProcessType /\ s.sent = wr[w].sent /\ s.pc = "ready"
        BY <1>1, <3>0 DEF ProcessType
      <3>2. wr' = [wr EXCEPT ![w] = s]
        BY <1>1, <2>2
      <3>. QED
        BY <3>1, <3>2
    <2> HIDE DEF line, s
    <2>6. files' = [files EXCEPT ![1] = [lines |-> Append(Content, line), flock |-> Nobody]]
      BY <1>1, <2>2, <2>4, ProcessPush DEF Crowd!WrittenAndUnlocked
    <2>7. UNCHANGED <<cur, arch, tmp, mt, clock, faults, acked, exposed, rotatedOut>>
      BY <1>9 DEF Crowd!CreateMarker, Crowd!dirs, Crowd!histories
    <2>8. Written(w, s, Append(Content, line))
      BY <2>4, <2>5, <2>7 DEF Written
    <2>. QED
      BY <1>4, <2>1, <2>4, <2>5, <2>6, <2>7, <2>8
  <1>10. CASE Crowd!AppendWrite(w)
    <2> DEFINE n == wr[w].sent + 1
               line == [kind |-> "event", w |-> w, n |-> n, seq |-> wr[w].seq, ts |-> 0]
               s == [wr[w] EXCEPT !.pc = "ready", !.seq = wr[w].seq + 1, !.sent = n]
    <2>1. cur = 1 /\ wr[w].fd = 1 /\ wr[w].sent < MaxAppends
      BY <1>2, <1>10 DEF Crowd!AppendWrite, Owned, OneFile
    <2>2. wr[w].sent \in Nat /\ wr[w].seq \in Nat /\ wr[w].late = FALSE /\ MaxAppends \in Nat
      BY <1>1, WalAssumption DEF ProcessType
    <2>3. line \in ProcessLine /\ line.kind = "event" /\ line.w = w /\ line.n = n
          /\ Crowd!Line("event", w, n, wr[w].seq) = line
      BY <1>1, <2>1, <2>2 DEF ProcessLine, Crowd!Line
    <2> HIDE DEF line
    <2>4. Crowd!Push(Crowd!Lines(wr[w].fd), Crowd!Line("event", w, n, wr[w].seq)) = Append(Content, line)
          /\ Crowd!Last(Append(Content, line)) = line
      BY <1>1, <2>1, <2>3, ProcessPush
    <2>5. /\ files' = Crowd!WrittenAndUnlocked(1, Append(Content, line))
          /\ wr' = [wr EXCEPT ![w].pc = "ready", ![w].seq = wr[w].seq + 1, ![w].sent = n]
          /\ acked' = acked \cup {<<w, n>>} /\ exposed' = exposed
          /\ UNCHANGED <<cur, arch, tmp, mt, clock, faults, rotatedOut>>
      BY <1>10, <2>1, <2>2, <2>3, <2>4 DEF Crowd!AppendWrite, Crowd!dirs
    <2>6. s \in ProcessType /\ s.sent = n /\ s.pc = "ready" /\ wr' = [wr EXCEPT ![w] = s]
      BY <1>1, <2>2, <2>5 DEF ProcessType
    <2> HIDE DEF s
    <2>7. Written(w, s, Append(Content, line))
      BY <2>1, <2>3, <2>5, <2>6 DEF Written
    <2>8. files' = [files EXCEPT ![1] = [lines |-> Append(Content, line), flock |-> Nobody]]
      BY <2>5 DEF Crowd!WrittenAndUnlocked
    <2>. QED
      BY <1>4, <2>1, <2>3, <2>5, <2>6, <2>7, <2>8
  <1>11. CASE Crowd!Close(w)
    <2> DEFINE s == [wr[w] EXCEPT !.pc = "closed"]
    <2>1. s \in ProcessType /\ s.sent = wr[w].sent /\ s.pc = "closed" /\ wr' = [wr EXCEPT ![w] = s]
      BY <1>1, <1>11 DEF ProcessType, Crowd!Close
    <2> HIDE DEF s
    <2>2. files' = files /\ UNCHANGED <<cur, arch, tmp, mt, clock, faults, acked, exposed, rotatedOut>>
      BY <1>11 DEF Crowd!Close, Crowd!dirs, Crowd!histories
    <2>3. Nobody \in Processes \cup {Nobody, Maint} /\ s.pc \notin Owned
          /\ s.pc \notin {"appendLock", "appendWrite"}
      BY <2>1 DEF Owned
    <2>. QED
      BY <1>3, <2>1, <2>2, <2>3
  <1>12. ~ Crowd!AppendFail(w)
    BY DEF Crowd!AppendFail, OneFile
  <1>. QED
    BY <1>5, <1>6, <1>7, <1>8, <1>9, <1>10, <1>11, <1>12 DEF Crowd!Writer

\* Where there is one file, every step leaves what is told, or tells one event more.
CrowdMove ==
    \/ Appended' = Appended /\ acked' = acked
    \/ \E e \in Crowd!Events : /\ e \notin Crowd!Promise!Elements(Appended) \cup acked
                               /\ Appended' = Append(Appended, e) /\ acked' = acked \cup {e}

LEMMA OneFileMoves ==
    ASSUME OneFile, NEW w \in Processes, NEW s, NEW ls, ProcessStep(w, s, ls)
    PROVE  OneFile' /\ CrowdMove
  <1>1. /\ wr \in [Processes -> ProcessType] /\ \A v \in Processes : wr[v].sent \in Nat
        /\ Content \in Seq(ProcessLine) /\ Len(Content) \in Nat /\ DOMAIN Content = 1..Len(Content)
        /\ Sent(Content, wr) /\ MaxAppends \in Nat
    <2>1. wr \in [Processes -> ProcessType] /\ Content \in Seq(ProcessLine) /\ Sent(Content, wr)
      BY ContentIs DEF OneFile
    <2>2. \A v \in Processes : wr[v] \in ProcessType
      BY <2>1
    <2>3. \A v \in Processes : wr[v].sent \in Nat
      BY <2>2 DEF ProcessType
    <2>. QED
      BY <2>1, <2>3, WalAssumption
  <1>2. \A k \in 1..Len(Content) : Content[k] \in ProcessLine /\ Content[k].w \in Processes /\ Content[k].n \in Nat
    BY <1>1 DEF ProcessLine
  <1>3. /\ wr' \in [Processes -> ProcessType] /\ wr'[w] = s /\ s.sent \in Nat
        /\ \A v \in Processes : v # w => wr'[v] = wr[v]
    BY <1>1 DEF ProcessStep, ProcessType
  <1>4. s.sent >= wr[w].sent
    BY <1>1, <1>3 DEF ProcessStep, Written
  <1>5. \A v \in Processes : wr'[v].sent >= wr[v].sent /\ wr'[v].sent \in Nat
    BY <1>1, <1>3, <1>4
  <1>6. Content' = ls
    BY DEF ProcessStep, Content
  <1>7. Sent(ls, wr')
    <2>1. ASSUME NEW k \in 1..Len(Content), Content[k].kind = "event"
          PROVE  Content[k].n <= wr'[Content[k].w].sent
      <3>1. Content[k].n <= wr[Content[k].w].sent
        BY <1>1, <2>1 DEF Sent
      <3>. QED
        BY <1>1, <1>2, <1>5, <3>1
    <2>2. CASE ls = Content
      BY <2>1, <2>2 DEF Sent
    <2>3. ASSUME NEW line \in ProcessLine, ls = Append(Content, line),
                 line.kind = "marker" \/ (line.kind = "event" /\ line.w = w /\ line.n = s.sent)
          PROVE  Sent(ls, wr')
      <3> SUFFICES ASSUME NEW k \in 1..Len(ls), ls[k].kind = "event"
                   PROVE  ls[k].n <= wr'[ls[k].w].sent
        BY DEF Sent
      <3>1. CASE k \in 1..Len(Content)
        <4>1. ls[k] = Content[k]
          BY <1>1, <2>3, <3>1
        <4>. QED
          BY <2>1, <3>1, <4>1
      <3>2. CASE k \notin 1..Len(Content)
        <4>1. ls[k] = line
          BY <1>1, <2>3, <3>2
        <4>. QED
          BY <1>3, <2>3, <4>1
      <3>. QED
        BY <3>1, <3>2
    <2>4. Written(w, s, ls)
      BY DEF ProcessStep
    <2>. QED
      BY <2>2, <2>3, <2>4 DEF Written
  <1>8. acked' \subseteq Crowd!Events /\ \A e \in acked' : e[2] <= wr'[e[1]].sent
    <2>1. acked \subseteq Crowd!Events /\ \A e \in acked : e[2] <= wr[e[1]].sent
      BY DEF OneFile
    <2>2. ASSUME NEW e \in acked
          PROVE  e[2] <= wr'[e[1]].sent
      <3>1. e \in Processes \X (1..MaxAppends) /\ e[2] <= wr[e[1]].sent
        BY <2>1 DEF Crowd!Events, Processes
      <3>2. e[1] \in Processes /\ e[2] \in Nat
        BY <1>1, <3>1
      <3>. QED
        BY <1>1, <1>5, <3>1, <3>2
    <2>3. acked' = acked \/ (acked' = acked \cup {<<w, s.sent>>} /\ s.sent \in 1..MaxAppends)
      BY <1>1 DEF ProcessStep, Written
    <2>4. s.sent \in 1..MaxAppends => <<w, s.sent>> \in Crowd!Events
      BY DEF Crowd!Events, Processes
    <2>5. <<w, s.sent>>[2] <= wr'[<<w, s.sent>>[1]].sent
      BY <1>3
    <2>. QED
      BY <2>1, <2>2, <2>3, <2>4, <2>5
  <1>9. OneFile'
    <2>1. \A v \in Processes :
              /\ wr'[v].pc \in {"createOpen", "createLock", "createWrite", "appendLock", "appendWrite"}
                   => cur' = 1 /\ wr'[v].fd = 1
              /\ wr'[v].pc \in {"appendLock", "appendWrite"} => wr'[v].sent < MaxAppends
      <3>1. cur = 1 => cur' = 1
        BY DEF ProcessStep
      <3>. QED
        BY <1>3, <3>1 DEF ProcessStep, Owned, OneFile
    <2>2. \A i \in 1..Len(files') : Sent(files'[i].lines, wr')
      BY <1>7 DEF ProcessStep
    <2>. QED
      BY <1>3, <1>8, <2>1, <2>2 DEF ProcessStep, OneFile
  <1>10. CrowdMove
    <2>1. <<>> \in Seq(ProcessLine)
      OBVIOUS
    <2>2. Appended' = Told(<<>>, ls)
      BY <1>6 DEF Appended
    <2>3. CASE ls = Content /\ acked' = acked
      BY <2>2, <2>3 DEF CrowdMove, Appended
    <2>4. ASSUME NEW line \in ProcessLine, ls = Append(Content, line)
          PROVE  Appended' = IF line.kind = "event" THEN Append(Appended, Name(line)) ELSE Appended
      BY <1>1, <2>1, <2>2, <2>4, ToldMore DEF Appended
    <2>5. ASSUME NEW line \in ProcessLine, ls = Append(Content, line), line.kind = "marker", acked' = acked
          PROVE  CrowdMove
      BY <2>4, <2>5 DEF CrowdMove
    <2>6. ASSUME NEW line \in ProcessLine, ls = Append(Content, line), line.kind = "event", line.w = w,
                 line.n = s.sent, s.sent = wr[w].sent + 1, wr[w].sent < MaxAppends,
                 acked' = acked \cup {<<w, s.sent>>}
          PROVE  CrowdMove
      <3> DEFINE e == <<w, s.sent>>
      <3>1. Appended' = Append(Appended, e)
        BY <2>4, <2>6 DEF Name
      <3>2. e \in Crowd!Events
        BY <1>1, <2>6 DEF Crowd!Events, Processes
      <3>3. e \notin acked
        <4>1. e[1] = w /\ e[2] = wr[w].sent + 1
          BY <2>6
        <4>. QED
          BY <1>1, <4>1 DEF OneFile
      <3>4. e \notin EventsIn(Content)
        <4> SUFFICES ASSUME NEW k \in 1..Len(Content), Content[k].kind = "event",
                            e = <<Content[k].w, Content[k].n>>
                     PROVE  FALSE
          BY <1>1 DEF EventsIn
        <4>1. Content[k].n <= wr[Content[k].w].sent /\ Content[k].w = w /\ Content[k].n = wr[w].sent + 1
          BY <1>1, <2>6 DEF Sent
        <4>. QED
          BY <1>1, <4>1
      <3>5. Promise!Elements(Appended) = EventsIn(Content)
        <4>1. EventsIn(<<>>) = {}
          BY DEF EventsIn
        <4>2. Promise!Elements(Told(<<>>, Content)) = EventsIn(<<>>) \cup EventsIn(Content)
          BY <1>1, <2>1, ToldNames
        <4>. QED
          BY <4>1, <4>2 DEF Appended
      <3>6. Crowd!Promise!Elements(Appended) = Promise!Elements(Appended)
        BY DEF Crowd!Promise!Elements, Promise!Elements
      <3> HIDE DEF e
      <3>. QED
        BY <2>6, <3>1, <3>2, <3>3, <3>4, <3>5, <3>6 DEF CrowdMove, e
    <2>7. Written(w, s, ls)
      BY DEF ProcessStep
    <2>. QED
      BY <2>3, <2>5, <2>6, <2>7 DEF Written
  <1>. QED
    BY <1>9, <1>10

LEMMA CrowdReadsNext == OneFile' /\ MaxRotations = 1 => Crowd!Readable' = Appended' /\ Crowd!MayLose' = {}
  <1>1. (OneFile /\ MaxRotations = 1 => Crowd!Readable = Appended /\ Crowd!MayLose = {})'
    BY CrowdReads, PTL
  <1>. QED
    BY <1>1

LEMMA OneFileStep ==
    ASSUME OneFile, MaxRotations = 1,
           Crowd!Next \/ UNCHANGED <<files, cur, arch, wr, mt, clock, faults, acked, exposed, rotatedOut>>
    PROVE  OneFile' /\ [Crowd!Promise!LogNext]_<<Crowd!Readable, acked, Crowd!MayLose>>
  <1>1. OneFile' /\ CrowdMove
    <2>1. CASE UNCHANGED <<files, cur, arch, wr, mt, clock, faults, acked, exposed, rotatedOut>>
      <3>1. OneFile'
        BY <2>1 DEF OneFile
      <3>2. Content' = Content
        BY <2>1 DEF Content
      <3>. QED
        BY <2>1, <3>1, <3>2 DEF CrowdMove, Appended
    <2>2. CASE Crowd!Next
      <3>1. ~ Crowd!Tick /\ ~ Crowd!Maintenance
        BY DEF OneFile, Crowd!Tick, Crowd!Maintenance, Crowd!CleanupOpen, Crowd!CleanupLock,
               Crowd!CleanupNothing, Crowd!CleanupWrite, Crowd!CleanupRename, Crowd!CleanupFail,
               Crowd!CleanupUnlock, Crowd!RotateOpen, Crowd!RotateLock, Crowd!RotateRename,
               Crowd!RotateCreate, Crowd!Crash
      <3>2. PICK w \in Processes : Crowd!Writer(w)
        BY <2>2, <3>1 DEF Crowd!Next, Processes
      <3>. QED
        BY <3>2, ProcessMoves, OneFileMoves
    <2>. QED
      BY <2>1, <2>2
  <1>2. /\ Crowd!Readable = Appended /\ Crowd!MayLose = {}
        /\ Crowd!Readable' = Appended' /\ Crowd!MayLose' = {}
    BY <1>1, CrowdReads, CrowdReadsNext
  <1>3. ASSUME NEW e \in Crowd!Events, e \notin Crowd!Promise!Elements(Appended) \cup acked,
               Appended' = Append(Appended, e), acked' = acked \cup {e}
        PROVE  Crowd!Promise!LogNext
    <2>1. Crowd!Promise!Write(e)
      BY <1>2, <1>3 DEF Crowd!Promise!Write
    <2>. QED
      BY <2>1 DEF Crowd!Promise!LogNext
  <1>. QED
    BY <1>1, <1>2, <1>3 DEF CrowdMove

-----------------------------------------------------------------------------
(* The parts of the composition                                            *)

\* What is invariant of the parts that are the daemon's log: in "daemon" nothing fails.
DaemonLog ==
    /\ part \in {"daemon", "faults"} => WalBase /\ Explained
    /\ part = "daemon" => faults = 0 /\ Numbering
OrderedLog == part = "daemon" => Timing

LEMMA DaemonLogInit == LoggingInit => DaemonLog /\ OrderedLog
  <1> SUFFICES ASSUME LoggingInit, part \in {"daemon", "faults"}
               PROVE  WalBase /\ Explained /\ faults = 0 /\ Numbering /\ Timing
    BY DEF DaemonLog, OrderedLog
  <1>1. LogAssumption
    BY LoggingAssumption DEF LogAssumption
  <1>2. Init
    BY DEF LoggingInit
  <1>3. faults = 0
    BY <1>2 DEF Init
  <1>. QED
    BY <1>1, <1>2, <1>3, BaseInit, ExplainedInit, NumberingInit, TimingInit

LEMMA DaemonLogStep ==
    /\ DaemonLog /\ [LoggingNext]_all => DaemonLog'
    /\ DaemonLog /\ OrderedLog /\ [LoggingNext]_all => OrderedLog'
  <1>1. LogAssumption
    BY LoggingAssumption DEF LogAssumption
  <1>2. ASSUME [LoggingNext]_all
        PROVE  /\ part' = part
               /\ part \in {"daemon", "faults"} => [Next]_vars
               /\ part = "daemon" => faults' = faults
    <2>1. CASE LoggingNext
      BY <2>1 DEF LoggingNext
    <2>2. CASE UNCHANGED all
      BY <2>2 DEF all, vars
    <2>. QED
      BY <1>2, <2>1, <2>2
  <1>3. ASSUME DaemonLog, [LoggingNext]_all, part \in {"daemon", "faults"}
        PROVE  WalBase' /\ Explained'
    <2>1. WalBase /\ Explained /\ [Next]_vars
      BY <1>2, <1>3 DEF DaemonLog
    <2>. QED
      BY <1>1, <2>1, BaseStep, ExplainedStep
  <1>4. ASSUME DaemonLog, [LoggingNext]_all, part = "daemon"
        PROVE  faults' = 0 /\ Numbering'
    <2>1. WalBase /\ Numbering /\ [Next]_vars /\ faults = 0 /\ faults' = 0
      BY <1>2, <1>4 DEF DaemonLog
    <2>. QED
      BY <1>1, <2>1, NumberingStep
  <1>5. ASSUME DaemonLog, OrderedLog, [LoggingNext]_all, part = "daemon"
        PROVE  Timing'
    <2>1. WalBase /\ Numbering /\ Timing /\ [Next]_vars /\ faults = 0 /\ faults' = 0
      BY <1>2, <1>5 DEF DaemonLog, OrderedLog
    <2>. QED
      BY <1>1, <2>1, TimingStep
  <1>. QED
    BY <1>2, <1>3, <1>4, <1>5 DEF DaemonLog, OrderedLog

\* The log's inductive invariant: types, that no two names of the directory are one file,
\* who holds which lock, where an append that is under way will end up, and the reason of
\* every loss; where nothing fails, also how the lines are numbered.
THEOREM LogInvariant == LoggingSpec => []DaemonLog
  BY DaemonLogInit, DaemonLogStep, PTL DEF LoggingSpec

\* append, cleanup, rotate: whatever fails and whenever maintenance dies, an acknowledged
\* event is lost only by retention or because it was appended in an exposure.
THEOREM LossesExplained == LoggingSpec => []LossIsExplained
  <1>1. DaemonLog => LossIsExplained
    BY ExplainedLoss DEF DaemonLog, LossIsExplained
  <1>. QED
    BY <1>1, LogInvariant, PTL

\* read_last_seq, cleanup: the daemon never numbers two events of a file alike, across
\* cleanups and rotations.
THEOREM NumberedApart == LoggingSpec => []NumbersDistinct
  <1>1. DaemonLog => NumbersDistinct
    BY NumberedDistinct DEF DaemonLog, NumbersDistinct
  <1>. QED
    BY <1>1, LogInvariant, PTL

\* load_all: with one archive, what is read back is in chronological order.
THEOREM ReadInOrder ==
    ASSUME MaxRotations = 1
    PROVE  LoggingSpec => []OneArchiveInOrder
  <1>1. DaemonLog /\ OrderedLog => OneArchiveInOrder
    BY TimedLoad DEF DaemonLog, OrderedLog, OneArchiveInOrder
  <1>2. LoggingSpec => []OrderedLog
    BY DaemonLogInit, DaemonLogStep, LogInvariant, PTL DEF LoggingSpec
  <1>. QED
    BY <1>1, <1>2, LogInvariant, PTL

-----------------------------------------------------------------------------
(* The promise                                                             *)

\* What is invariant where the log is checked against its promise.
KeptLog ==
    /\ part \in {"daemon", "writers", "faults", "observe", "oracle"}
    /\ part = "daemon" => Keeping
    /\ part = "writers" => OneFile

LEMMA KeptLogInit == LoggingInit => KeptLog
  <1>1. Init => Keeping
    BY KeepingInit
  <1>2. Crowd!Init => OneFile
    BY OneFileInit
  <1>. QED
    BY <1>1, <1>2 DEF LoggingInit, KeptLog

LEMMA KeptLogStep ==
    ASSUME MaxRotations = 1, DaemonLog, KeptLog, [LoggingNext]_all, DaemonLog'
    PROVE  /\ KeptLog'
           /\ part = "daemon" => [Promise!LogNext]_<<Readable, acked, MayLose>>
           /\ part = "writers" => [Crowd!Promise!LogNext]_<<Crowd!Readable, acked, Crowd!MayLose>>
  <1>1. LogAssumption
    BY LoggingAssumption DEF LogAssumption
  <1>2. /\ part' = part
        /\ part = "daemon" => [Next]_vars
        /\ part = "writers" => Crowd!Next \/ UNCHANGED <<files, cur, arch, wr, mt, clock, faults, acked, exposed, rotatedOut>>
    <2>1. CASE LoggingNext
      BY <2>1 DEF LoggingNext
    <2>2. CASE UNCHANGED all
      BY <2>2 DEF all, vars, dirs, histories
    <2>. QED
      BY <2>1, <2>2
  <1>3. ASSUME part = "daemon"
        PROVE  Keeping' /\ Promise!LogNext
    <2>1. WalBase /\ Explained /\ Numbering /\ Keeping /\ faults = 0 /\ faults' = 0 /\ [Next]_vars /\ WalBase'
      BY <1>2, <1>3 DEF DaemonLog, KeptLog
    <2>2. Keeping' /\ Move
      BY <1>1, <2>1, KeepingStep
    <2>3. WalTypes /\ WalTypes'
      BY <2>1 DEF WalBase
    <2>. QED
      BY <2>2, <2>3, MoveIsPromised
  <1>4. ASSUME part = "writers"
        PROVE  OneFile' /\ [Crowd!Promise!LogNext]_<<Crowd!Readable, acked, Crowd!MayLose>>
    BY <1>2, <1>4, OneFileStep DEF KeptLog
  <1>. QED
    BY <1>2, <1>3, <1>4 DEF KeptLog

\* Nothing is told of an empty directory.
LEMMA NothingTold == MaxRotations = 1 /\ LoggingInit => Promise!LogInit
  <1> SUFFICES ASSUME MaxRotations = 1, LoggingInit
               PROVE  Promise!LogInit
    OBVIOUS
  <1>1. files = <<>> /\ cur = 0 /\ arch = [i \in 1..MaxRotations |-> 0] /\ acked = {} /\ exposed = {} /\ rotatedOut = {}
    BY DEF LoggingInit, Init, Crowd!Init
  <1>2. MayLose = {}
    <2>1. Expired = {}
      BY <1>1 DEF Expired
    <2>. QED
      BY <1>1, <2>1 DEF MayLose
  <1>3. <<>> \in Seq(LineType) /\ 1 \in Nat \ {0}
    OBVIOUS
  <1>4. EventsOf(0) = <<>>
    <2>1. EventLines(<<>>) = <<>> /\ Lines(0) = <<>>
      BY <1>3, EventLinesAre DEF Lines
    <2>2. EventsOf(0) = EventLines(Lines(0))
      BY Zenon DEF EventsOf, EventLines
    <2>. QED
      BY <2>1, <2>2
  <1>5. LoadAll = <<>>
    <2> DEFINE ss == [i \in 1..MaxRotations |-> EventsOf(arch[i])]
    <2>1. ss = [i \in 1..1 |-> <<>>] /\ LoadAll = FlattenSeq(ss) \o EventsOf(cur)
      BY <1>1, <1>4 DEF LoadAll
    <2> HIDE DEF ss
    <2>2. ss \in [1..1 -> Seq(LineType)] /\ ss[1] = <<>>
      BY <1>3, <2>1
    <2>3. FlattenSeq(ss) = <<>>
      BY <1>3, <2>2, FlattenKeeps
    <2>. QED
      BY <1>1, <1>4, <2>1, <2>3
  <1>6. Readable = <<>>
    BY <1>5 DEF Readable
  <1>. QED
    BY <1>1, <1>2, <1>6 DEF Promise!LogInit

\* append, load_all, cleanup, rotate: with one archive, what load_all returns is what was
\* acknowledged, once and in that order, next to the daemon's maintenance and between processes
\* that append at once; events leave only by retention, or because they were appended in an
\* exposure.
THEOREM LogIsKept ==
    ASSUME MaxRotations = 1
    PROVE  LoggingSpec => LogKept
  <1>1. LoggingInit => KeptLog /\ Promise!LogInit
    BY KeptLogInit, NothingTold
  <1>2. DaemonLog /\ KeptLog /\ [LoggingNext]_all /\ DaemonLog'
        => /\ KeptLog'
           /\ part = "daemon" => [Promise!LogNext]_<<Readable, acked, MayLose>>
           /\ part = "writers" => [Crowd!Promise!LogNext]_<<Crowd!Readable, acked, Crowd!MayLose>>
    BY KeptLogStep
  <1>. QED
    BY <1>1, <1>2, LogInvariant, PTL DEF LoggingSpec, LogKept
==============================================================================

--------------------------- MODULE MemImageProofs ---------------------------
(***************************************************************************)
(* Proofs about the memory loader, for every size of the address space and *)
(* of a word, every set of areas and files and every command line:         *)
(*   - registration, refused or not, keeps the registry coherent;          *)
(*   - what StageElf stages for an area fits into it, word by word;        *)
(*   - between loads every memory holds the image of the files loaded.     *)
(* The loops of RangedMap::Emplace and FlattenElfFile are recursive        *)
(* functions over numbers; induction over a set of numbers, and the        *)
(* existence of a function so defined, are first derived from the          *)
(* well-foundedness of < on Nat.                                           *)
(***************************************************************************)
EXTENDS MemImage, WellFoundedInduction, TLAPS

----------------------------------------------------------------------------
(***************************************************************************)
(* Natural numbers: least elements, induction over a set, and functions    *)
(* defined by recursion.                                                   *)
(***************************************************************************)
LessThan == OpToRel(<, Nat)

LEMMA Smallest ==
    ASSUME NEW T \in SUBSET Nat, T # {}
    PROVE  \E m \in T : \A k \in T : m <= k
  <1>1. IsWellFoundedOn(LessThan, Nat)
    BY NatLessThanWellFounded DEF LessThan
  <1>2. \A m, n \in Nat : m < n => <<m, n>> \in LessThan
    BY DEF LessThan, OpToRel
  <1>3. PICK m \in T : \A k \in T : ~(<<k, m>> \in LessThan)
    BY <1>1, WFMin
  <1>4. ASSUME NEW k \in T PROVE m <= k
    <2>1. k \in Nat /\ m \in Nat /\ ~(<<k, m>> \in LessThan)
      BY <1>3
    <2>2. ~(k < m)
      BY <1>2, <2>1
    <2>3. QED
      BY <2>1, <2>2
  <1>5. QED
    BY <1>4

LEMMA Largest ==
    ASSUME NEW n \in Nat, NEW T \in SUBSET (0..n), T # {}
    PROVE  \E m \in T : \A k \in T : k <= m
  <1> DEFINE gaps == {d \in Nat : n - d \in T}
  <1>1. PICK k \in T : TRUE
    OBVIOUS
  <1>2. n - k \in gaps
    OBVIOUS
  <1>3. PICK d \in gaps : \A e \in gaps : d <= e
    BY <1>2, Smallest
  <1>4. ASSUME NEW j \in T PROVE j <= n - d
    <2>1. j \in Nat /\ j <= n /\ n - j \in Nat /\ n - (n - j) = j
      OBVIOUS
    <2>2. d \in Nat /\ d <= n - j
      BY <1>3, <2>1
    <2>3. QED
      BY <2>1, <2>2
  <1>5. QED
    BY <1>3, <1>4

LEMMA Induction ==
    ASSUME NEW S, 0 \in S, \A n \in Nat : n \in S => n + 1 \in S
    PROVE  \A n \in Nat : n \in S
  <1> SUFFICES ASSUME Nat \ S # {} PROVE FALSE
    OBVIOUS
  <1>1. PICK m \in Nat \ S : \A k \in Nat \ S : m <= k
    BY Smallest
  <1>2. m - 1 \in Nat /\ m - 1 \in S
    BY <1>1
  <1>3. QED
    BY <1>1, <1>2

(* Over any set of values, a first value and a step define a sequence. *)
Follows(g, n, V, first, step) ==
    /\ g \in [0..n -> V] /\ g[0] = first
    /\ \A k \in 0..(n - 1) : g[k + 1] = step[k][g[k]]

LEMMA FollowsUpTo ==
    ASSUME NEW V, NEW first \in V, NEW step \in [Nat -> [V -> V]], NEW n \in Nat
    PROVE  \E g : Follows(g, n, V, first, step)
  <1> DEFINE S == {m \in Nat : \E g : Follows(g, m, V, first, step)}
  <1>1. 0 \in S
    <2>1. Follows([k \in 0..0 |-> first], 0, V, first, step)
      BY DEF Follows
    <2>2. QED
      BY <2>1
  <1>2. ASSUME NEW m \in Nat, m \in S PROVE m + 1 \in S
    <2>1. PICK g : Follows(g, m, V, first, step)
      BY <1>2
    <2> DEFINE h == [k \in 0..(m + 1) |-> IF k = m + 1 THEN step[m][g[m]] ELSE g[k]]
    <2>2. g[m] \in V /\ step[m][g[m]] \in V
      BY <2>1 DEF Follows
    <2>3. h \in [0..(m + 1) -> V] /\ h[0] = first
      BY <2>1, <2>2 DEF Follows
    <2>4. ASSUME NEW k \in 0..m PROVE h[k + 1] = step[k][h[k]]
      <3>1. CASE k = m
        BY <3>1
      <3>2. CASE k # m
        <4>1. k \in 0..(m - 1) /\ k + 1 \in 0..(m + 1) /\ k + 1 # m + 1 /\ k # m + 1
          BY <3>2
        <4>2. h[k + 1] = g[k + 1] /\ h[k] = g[k]
          BY <4>1
        <4>3. QED
          BY <2>1, <4>1, <4>2 DEF Follows
      <3>3. QED
        BY <3>1, <3>2
    <2> HIDE DEF h
    <2>5. Follows(h, m + 1, V, first, step)
      <3>1. (m + 1) - 1 = m
        OBVIOUS
      <3>2. QED
        BY <2>3, <2>4, <3>1 DEF Follows
    <2>6. QED
      BY <2>5
  <1>3. n \in S
    BY <1>1, <1>2, Induction
  <1>4. QED
    BY <1>3

LEMMA FollowsAgree ==
    ASSUME NEW V, NEW first \in V, NEW step \in [Nat -> [V -> V]], NEW n \in Nat, NEW m \in Nat,
           NEW g, NEW h, Follows(g, n, V, first, step), Follows(h, m, V, first, step)
    PROVE  \A k \in Nat : k <= n /\ k <= m => g[k] = h[k]
  <1> DEFINE S == {k \in Nat : k <= n /\ k <= m => g[k] = h[k]}
  <1>1. 0 \in S
    BY DEF Follows
  <1>2. ASSUME NEW k \in Nat, k \in S PROVE k + 1 \in S
    <2>1. SUFFICES ASSUME k + 1 <= n, k + 1 <= m PROVE g[k + 1] = h[k + 1]
      OBVIOUS
    <2>2. k \in 0..(n - 1) /\ k \in 0..(m - 1) /\ g[k] = h[k]
      BY <1>2, <2>1
    <2>3. QED
      BY <2>2 DEF Follows
  <1>3. \A k \in Nat : k \in S
    BY <1>1, <1>2, Induction
  <1>4. QED
    BY <1>3

Stepping(V, first, step) == first \in V /\ step \in [Nat -> [V -> V]]
Obeys(f, V, first, step) ==
    /\ f \in [Nat -> V] /\ f[0] = first
    /\ \A n \in Nat : f[n + 1] = step[n][f[n]]

LEMMA Recursion ==
    ASSUME NEW V, NEW first, NEW step, Stepping(V, first, step)
    PROVE  \E f : Obeys(f, V, first, step)
  <1> USE DEF Stepping
  <1> DEFINE upto(n) == CHOOSE g : Follows(g, n, V, first, step)
             f == [n \in Nat |-> upto(n)[n]]
  <1>1. \A n \in Nat : Follows(upto(n), n, V, first, step)
    BY FollowsUpTo
  <1> HIDE DEF upto
  <1>2. ASSUME NEW n \in Nat
        PROVE  f[n] \in V /\ f[n + 1] = step[n][f[n]]
    <2>1. /\ Follows(upto(n), n, V, first, step)
          /\ n + 1 \in Nat /\ Follows(upto(n + 1), n + 1, V, first, step)
      BY <1>1
    <2>2. upto(n)[n] = upto(n + 1)[n]
      <3>1. ASSUME NEW m \in Nat, n <= m, NEW g, NEW h,
                   Follows(g, n, V, first, step), Follows(h, m, V, first, step)
            PROVE  g[n] = h[n]
        BY <3>1, FollowsAgree
      <3>2. n + 1 \in Nat /\ n <= n + 1
        OBVIOUS
      <3>3. QED
        BY <2>1, <3>1, <3>2
    <2>3. upto(n)[n] \in V /\ upto(n + 1)[n + 1] = step[n][upto(n + 1)[n]]
      BY <2>1 DEF Follows
    <2>4. QED
      BY <2>2, <2>3
  <1>3. f[0] = first
    BY <1>1 DEF Follows
  <1>4. f \in [Nat -> V]
    BY <1>2
  <1>5. QED
    BY <1>2, <1>3, <1>4 DEF Obeys

----------------------------------------------------------------------------
(***************************************************************************)
(* Segments: the addresses one has and the byte at each of them.           *)
(***************************************************************************)
Segment == [lo : Nat, data : Seq(Nat) \ {<<>>}]
At(e) == e.lo..Hi(e)
Byte(e, x) == e.data[x - e.lo + 1]
Touch(e, f) == e.lo <= Hi(f) /\ f.lo <= Hi(e)

LEMMA SegmentFacts ==
    ASSUME NEW e \in Segment
    PROVE  /\ e.lo \in Nat /\ e.data \in Seq(Nat) /\ Len(e.data) \in Nat \ {0}
           /\ Hi(e) \in Nat /\ e.lo <= Hi(e) /\ Len(e.data) = Hi(e) - e.lo + 1
           /\ \A x \in At(e) : x \in Nat /\ Byte(e, x) \in Nat
  <1>1. e.lo \in Nat /\ e.data \in Seq(Nat) /\ Len(e.data) \in Nat \ {0}
    BY DEF Segment
  <1>2. Hi(e) \in Nat /\ e.lo <= Hi(e) /\ Len(e.data) = Hi(e) - e.lo + 1
    BY <1>1 DEF Hi
  <1>3. ASSUME NEW x \in At(e) PROVE x \in Nat /\ Byte(e, x) \in Nat
    <2>1. x \in Nat /\ x - e.lo + 1 \in 1..Len(e.data)
      BY <1>1, <1>2 DEF At
    <2>2. QED
      BY <1>1, <2>1 DEF Byte
  <1>4. QED
    BY <1>1, <1>2, <1>3

LEMMA PartOf ==
    ASSUME NEW s \in Seq(Nat), NEW a \in Nat \ {0}, NEW b \in 0..Len(s)
    PROVE  /\ SubSeq(s, a, b) \in Seq(Nat)
           /\ Len(SubSeq(s, a, b)) = IF a <= b THEN b - a + 1 ELSE 0
           /\ \A i \in 1..(b - a + 1) : SubSeq(s, a, b)[i] = s[a + i - 1]
  OBVIOUS

LEMMA Joined ==
    ASSUME NEW s \in Seq(Nat), NEW t \in Seq(Nat)
    PROVE  /\ s \o t \in Seq(Nat) /\ Len(s \o t) = Len(s) + Len(t)
           /\ \A i \in 1..Len(s) : (s \o t)[i] = s[i]
           /\ \A i \in 1..Len(t) : (s \o t)[Len(s) + i] = t[i]
  OBVIOUS

(* s and t are the bytes from ol to oh and from nl to nh, which overlap.   *)
Overlap(ol, oh, nl, nh, s, t) ==
    /\ ol \in Nat /\ oh \in Nat /\ nl \in Nat /\ nh \in Nat
    /\ s \in Seq(Nat) /\ t \in Seq(Nat) /\ Len(s) = oh - ol + 1 /\ Len(t) = nh - nl + 1
    /\ ol <= oh /\ nl <= nh /\ ol <= nh /\ nl <= oh

JoinedRight(ol, oh, nl, nh, s, t) ==
    LET d == t \o SubSeq(s, nh - ol + 2, Len(s))
    IN  /\ d \in Seq(Nat) /\ Len(d) = oh - nl + 1
        /\ \A x \in nl..nh : d[x - nl + 1] = t[x - nl + 1]
        /\ \A x \in (nh + 1)..oh : d[x - nl + 1] = s[x - ol + 1]

LEMMA JoinRight ==
    ASSUME NEW ol, NEW oh, NEW nl, NEW nh, NEW s, NEW t,
           Overlap(ol, oh, nl, nh, s, t), nl <= ol, nh < oh
    PROVE  JoinedRight(ol, oh, nl, nh, s, t)
  <1> USE DEF Overlap
  <1> DEFINE k == nh - ol + 2
             n == Len(s)
             tail == SubSeq(s, k, n)
             d == t \o tail
  <1>1. k \in Nat \ {0} /\ n \in 0..Len(s) /\ k <= n /\ n - k + 1 = oh - nh
    OBVIOUS
  <1> HIDE DEF k, n
  <1>3. tail \in Seq(Nat) /\ Len(tail) = oh - nh /\ \A i \in 1..(n - k + 1) : tail[i] = s[k + i - 1]
    BY <1>1, PartOf
  <1> HIDE DEF tail
  <1>4. /\ d \in Seq(Nat) /\ Len(d) = Len(t) + Len(tail)
        /\ \A i \in 1..Len(t) : d[i] = t[i]
        /\ \A i \in 1..Len(tail) : d[Len(t) + i] = tail[i]
    BY <1>3, Joined
  <1> HIDE DEF d
  <1>5. ASSUME NEW x \in nl..nh PROVE d[x - nl + 1] = t[x - nl + 1]
    <2>1. x - nl + 1 \in 1..Len(t)
      OBVIOUS
    <2>2. QED
      BY <1>4, <2>1
  <1>6. ASSUME NEW x \in (nh + 1)..oh PROVE d[x - nl + 1] = s[x - ol + 1]
    <2> DEFINE i == x - nh
    <2>1. i \in 1..(oh - nh) /\ x - nl + 1 = Len(t) + i /\ k + i - 1 = x - ol + 1
      BY DEF k
    <2> HIDE DEF i
    <2>2. d[Len(t) + i] = tail[i] /\ tail[i] = s[k + i - 1]
      BY <1>1, <1>3, <1>4, <2>1
    <2>3. QED
      BY <2>1, <2>2
  <1>7. Len(d) = oh - nl + 1
    BY <1>3, <1>4
  <1>8. QED
    BY <1>4, <1>5, <1>6, <1>7 DEF JoinedRight, d, tail, k, n

Upper(a, b) == IF a <= b THEN b ELSE a

JoinedLeft(ol, oh, nl, nh, s, t) ==
    LET d == SubSeq(s, 1, nl - ol) \o t \o SubSeq(s, nh - ol + 2, Len(s))
    IN  /\ d \in Seq(Nat) /\ Len(d) = Upper(oh, nh) - ol + 1
        /\ \A x \in nl..nh : d[x - ol + 1] = t[x - nl + 1]
        /\ \A x \in ol..oh : x \notin nl..nh => d[x - ol + 1] = s[x - ol + 1]

LEMMA JoinLeft ==
    ASSUME NEW ol, NEW oh, NEW nl, NEW nh, NEW s, NEW t,
           Overlap(ol, oh, nl, nh, s, t), ol < nl
    PROVE  JoinedLeft(ol, oh, nl, nh, s, t)
  <1> USE DEF Overlap
  <1> DEFINE p == nl - ol
             k == nh - ol + 2
             n == Len(s)
             head == SubSeq(s, 1, p)
             tail == SubSeq(s, k, n)
             front == head \o t
             d == front \o tail
  <1>1. k \in Nat \ {0} /\ n \in 0..Len(s) /\ n - k + 1 = oh - nh /\ (k <= n <=> nh < oh)
    OBVIOUS
  <1>2. p \in Nat \ {0} /\ p \in 0..Len(s) /\ p - 1 + 1 = p /\ 1 \in Nat \ {0} /\ 1 <= p
    OBVIOUS
  <1> HIDE DEF k, n, p
  <1>4. head \in Seq(Nat) /\ Len(head) = p /\ \A i \in 1..p : head[i] = s[i]
    <2>1. \A i \in 1..(p - 1 + 1) : head[i] = s[1 + i - 1]
      BY <1>2, PartOf
    <2>2. head \in Seq(Nat) /\ Len(head) = p - 1 + 1
      BY <1>2, PartOf
    <2> HIDE DEF head
    <2>3. \A i \in 1..p : 1 + i - 1 = i
      BY <1>2
    <2>4. QED
      BY <1>2, <2>1, <2>2, <2>3
  <1>5. /\ tail \in Seq(Nat) /\ Len(tail) = IF nh < oh THEN oh - nh ELSE 0
        /\ \A i \in 1..(n - k + 1) : tail[i] = s[k + i - 1]
    BY <1>1, PartOf
  <1> HIDE DEF head, tail
  <1>6. /\ front \in Seq(Nat) /\ Len(front) = p + Len(t)
        /\ \A i \in 1..p : front[i] = s[i]
        /\ \A i \in 1..Len(t) : front[p + i] = t[i]
    BY <1>4, Joined
  <1> HIDE DEF front
  <1>7. /\ d \in Seq(Nat) /\ Len(d) = Len(front) + Len(tail)
        /\ \A i \in 1..Len(front) : d[i] = front[i]
        /\ \A i \in 1..Len(tail) : d[Len(front) + i] = tail[i]
    BY <1>5, <1>6, Joined
  <1> HIDE DEF d
  <1>8. Len(d) = Upper(oh, nh) - ol + 1
    <2>1. p + Len(t) = nh - ol + 1
      BY DEF p
    <2>2. CASE nh < oh
      BY <1>5, <1>6, <1>7, <2>1, <2>2 DEF Upper
    <2>3. CASE oh <= nh
      BY <1>5, <1>6, <1>7, <2>1, <2>3 DEF Upper
    <2>4. QED
      BY <2>2, <2>3
  <1>9. ASSUME NEW x \in nl..nh PROVE d[x - ol + 1] = t[x - nl + 1]
    <2> DEFINE i == x - nl + 1
    <2>1. i \in 1..Len(t) /\ x - ol + 1 = p + i /\ p + i \in 1..Len(front)
      BY <1>2, <1>6 DEF p
    <2> HIDE DEF i
    <2>2. d[p + i] = t[i]
      BY <1>6, <1>7, <2>1
    <2>3. QED
      BY <2>1, <2>2 DEF i
  <1>10. ASSUME NEW x \in ol..oh, x < nl PROVE d[x - ol + 1] = s[x - ol + 1]
    <2>1. x - ol + 1 \in 1..p /\ x - ol + 1 \in 1..Len(front)
      BY <1>2, <1>6, <1>10 DEF p
    <2>2. QED
      BY <1>6, <1>7, <2>1
  <1>11. ASSUME NEW x \in ol..oh, x > nh PROVE d[x - ol + 1] = s[x - ol + 1]
    <2> DEFINE i == x - nh
    <2>1. i \in 1..(oh - nh) /\ nh < oh /\ x - ol + 1 = Len(front) + i /\ k + i - 1 = x - ol + 1
      BY <1>2, <1>6, <1>11 DEF k, p
    <2> HIDE DEF i
    <2>2. d[Len(front) + i] = tail[i] /\ tail[i] = s[k + i - 1]
      BY <1>1, <1>5, <1>7, <2>1
    <2>3. QED
      BY <2>1, <2>2
  <1>12. \A x \in ol..oh : x \notin nl..nh => d[x - ol + 1] = s[x - ol + 1]
    BY <1>10, <1>11
  <1>13. QED
    BY <1>7, <1>8, <1>9, <1>12 DEF JoinedLeft, d, front, tail, head, k, n, p

LEMMA MergeRight ==
    ASSUME NEW old \in Segment, NEW new \in Segment, Touch(old, new),
           new.lo <= old.lo, Hi(new) < Hi(old)
    PROVE  LET m == MergeSegments(old, new)
           IN  /\ m \in Segment /\ m.lo = new.lo /\ Hi(m) = Hi(old)
               /\ \A x \in At(new) : Byte(m, x) = Byte(new, x)
               /\ \A x \in At(old) \ At(new) : Byte(m, x) = Byte(old, x)
  <1> DEFINE d == new.data \o SubSeq(old.data, Hi(new) - old.lo + 2, Len(old.data))
             m == [lo |-> new.lo, data |-> d]
  <1>1. /\ old.lo \in Nat /\ old.data \in Seq(Nat) /\ Hi(old) \in Nat /\ Len(old.data) = Hi(old) - old.lo + 1
        /\ new.lo \in Nat /\ new.data \in Seq(Nat) /\ Hi(new) \in Nat /\ Len(new.data) = Hi(new) - new.lo + 1
        /\ new.lo <= Hi(new)
    BY SegmentFacts
  <1>2. MergeSegments(old, new) = m
    <2>1. new = [lo |-> new.lo, data |-> new.data]
      BY DEF Segment
    <2>2. ~(Hi(old) <= Hi(new))
      BY <1>1
    <2>3. MergeSegments(old, new) = [new EXCEPT !.data = d]
      BY <2>2 DEF MergeSegments
    <2>4. QED
      BY <2>1, <2>3
  <1>3. /\ d \in Seq(Nat) /\ Len(d) = Hi(old) - new.lo + 1
        /\ \A x \in new.lo..Hi(new) : d[x - new.lo + 1] = new.data[x - new.lo + 1]
        /\ \A x \in (Hi(new) + 1)..Hi(old) : d[x - new.lo + 1] = old.data[x - old.lo + 1]
    <2>1. Overlap(old.lo, Hi(old), new.lo, Hi(new), old.data, new.data)
      BY <1>1, SegmentFacts DEF Touch, Overlap
    <2>2. JoinedRight(old.lo, Hi(old), new.lo, Hi(new), old.data, new.data)
      BY <2>1, JoinRight
    <2>3. QED
      BY <2>2 DEF JoinedRight
  <1> HIDE DEF d
  <1>4. m.lo = new.lo /\ m.data = d
    OBVIOUS
  <1>5. d # <<>>
    BY <1>1, <1>3 DEF Upper
  <1>6. m \in Segment
    BY <1>1, <1>3, <1>5 DEF Segment
  <1> HIDE DEF m
  <1>7. Hi(m) = Hi(old)
    <2>1. Hi(m) = m.lo + Len(m.data) - 1
      BY DEF Hi
    <2>2. QED
      BY <1>1, <1>3, <1>4, <2>1 DEF Upper
  <1>8. At(old) \ At(new) \subseteq (Hi(new) + 1)..Hi(old)
    BY <1>1 DEF At
  <1>9. QED
    BY <1>2, <1>3, <1>4, <1>6, <1>7, <1>8 DEF At, Byte

LEMMA MergeLeft ==
    ASSUME NEW old \in Segment, NEW new \in Segment, Touch(old, new), old.lo < new.lo
    PROVE  LET m == MergeSegments(old, new)
           IN  /\ m \in Segment /\ m.lo = old.lo /\ Hi(m) = Upper(Hi(old), Hi(new))
               /\ \A x \in At(new) : Byte(m, x) = Byte(new, x)
               /\ \A x \in At(old) \ At(new) : Byte(m, x) = Byte(old, x)
  <1> DEFINE d == SubSeq(old.data, 1, new.lo - old.lo) \o new.data
                    \o SubSeq(old.data, Hi(new) - old.lo + 2, Len(old.data))
             m == [lo |-> old.lo, data |-> d]
  <1>1. /\ old.lo \in Nat /\ old.data \in Seq(Nat) /\ Hi(old) \in Nat /\ Len(old.data) = Hi(old) - old.lo + 1
        /\ new.lo \in Nat /\ new.data \in Seq(Nat) /\ Hi(new) \in Nat /\ Len(new.data) = Hi(new) - new.lo + 1
        /\ new.lo <= Hi(new)
    BY SegmentFacts
  <1>2. MergeSegments(old, new) = m
    <2>1. old = [lo |-> old.lo, data |-> old.data]
      BY DEF Segment
    <2>2. ~(new.lo <= old.lo)
      BY <1>1
    <2>3. MergeSegments(old, new) = [old EXCEPT !.data = d]
      BY <2>2 DEF MergeSegments
    <2>4. QED
      BY <2>1, <2>3
  <1>3. /\ d \in Seq(Nat) /\ Len(d) = Upper(Hi(old), Hi(new)) - old.lo + 1
        /\ \A x \in new.lo..Hi(new) : d[x - old.lo + 1] = new.data[x - new.lo + 1]
        /\ \A x \in old.lo..Hi(old) : x \notin new.lo..Hi(new) => d[x - old.lo + 1] = old.data[x - old.lo + 1]
    <2>1. Overlap(old.lo, Hi(old), new.lo, Hi(new), old.data, new.data)
      BY <1>1, SegmentFacts DEF Touch, Overlap
    <2>2. JoinedLeft(old.lo, Hi(old), new.lo, Hi(new), old.data, new.data)
      BY <2>1, JoinLeft
    <2>3. QED
      BY <2>2 DEF JoinedLeft
  <1> HIDE DEF d
  <1>4. m.lo = old.lo /\ m.data = d
    OBVIOUS
  <1>5. d # <<>>
    BY <1>1, <1>3 DEF Upper
  <1>6. m \in Segment
    BY <1>1, <1>3, <1>5 DEF Segment
  <1> HIDE DEF m
  <1>7. Hi(m) = Upper(Hi(old), Hi(new))
    <2>1. Hi(m) = m.lo + Len(m.data) - 1
      BY DEF Hi
    <2>2. QED
      BY <1>1, <1>3, <1>4, <2>1 DEF Upper
  <1>8. QED
    BY <1>2, <1>3, <1>4, <1>6, <1>7 DEF At, Byte

(* Merging touching segments: the addresses of both, the newer one's bytes. *)
LEMMA MergeIsUnion ==
    ASSUME NEW old \in Segment, NEW new \in Segment, Touch(old, new)
    PROVE  LET m == MergeSegments(old, new)
           IN  /\ m \in Segment
               /\ m.lo \in {old.lo, new.lo} /\ m.lo <= old.lo /\ m.lo <= new.lo
               /\ Hi(m) \in {Hi(old), Hi(new)} /\ Hi(old) <= Hi(m) /\ Hi(new) <= Hi(m)
               /\ \A x \in At(new) : Byte(m, x) = Byte(new, x)
               /\ \A x \in At(old) \ At(new) : Byte(m, x) = Byte(old, x)
  <1>1. /\ old.lo \in Nat /\ Hi(old) \in Nat /\ new.lo \in Nat /\ Hi(new) \in Nat
    BY SegmentFacts
  <1>2. CASE new.lo <= old.lo /\ Hi(old) <= Hi(new)
    <2>1. MergeSegments(old, new) = new
      BY <1>2 DEF MergeSegments
    <2>2. At(old) \subseteq At(new)
      BY <1>1, <1>2 DEF At
    <2>3. QED
      BY <1>1, <1>2, <2>1, <2>2
  <1>3. CASE new.lo <= old.lo /\ Hi(new) < Hi(old)
    BY <1>1, <1>3, MergeRight
  <1>4. CASE old.lo < new.lo
    BY <1>1, <1>4, MergeLeft DEF Upper
  <1>5. QED
    BY <1>1, <1>2, <1>3, <1>4

----------------------------------------------------------------------------
(***************************************************************************)
(* Ranged maps: what inserting a segment makes of one.                     *)
(***************************************************************************)
Disjoint(map) == \A e, f \in map : e # f => Hi(e) < f.lo \/ Hi(f) < e.lo
RangedMap(map) == map \subseteq Segment /\ Disjoint(map) /\ \A e \in map : e.lo < Space

LEMMA TouchIsOverlap ==
    ASSUME NEW e \in Segment, NEW f \in Segment
    PROVE  /\ Touch(e, f) <=> ~(Hi(e) < f.lo \/ Hi(f) < e.lo)
           /\ \A x \in At(e) : x \in At(f) => Touch(e, f)
  BY SegmentFacts DEF Touch, At

(* Merging covers the addresses of both and no other. *)
LEMMA MergeCovers ==
    ASSUME NEW old \in Segment, NEW new \in Segment, Touch(old, new)
    PROVE  At(MergeSegments(old, new)) = At(old) \cup At(new)
  <1> DEFINE m == MergeSegments(old, new)
  <1>1. /\ old.lo \in Nat /\ Hi(old) \in Nat /\ new.lo \in Nat /\ Hi(new) \in Nat
        /\ old.lo <= Hi(old) /\ new.lo <= Hi(new)
    BY SegmentFacts
  <1>2. /\ m.lo \in {old.lo, new.lo} /\ m.lo <= old.lo /\ m.lo <= new.lo
        /\ Hi(m) \in {Hi(old), Hi(new)} /\ Hi(old) <= Hi(m) /\ Hi(new) <= Hi(m)
    BY MergeIsUnion
  <1> HIDE DEF m
  <1>3. QED
    BY <1>1, <1>2 DEF At, Touch, m

(* The loop of Merged, one address at a time. *)
Entries(hits, k) == {e \in hits : e.lo = k}
MergeAt(hits, k, v) == IF Entries(hits, k) = {} THEN v
                       ELSE MergeSegments(CHOOSE e \in Entries(hits, k) : TRUE, v)
Accumulates(acc, new, hits) ==
    acc = [a \in Nat |-> IF a = 0 THEN new ELSE MergeAt(hits, a - 1, acc[a - 1])]

LEMMA MergedIsLoop ==
    ASSUME NEW new, NEW hits
    PROVE  Merged(new, hits) = (CHOOSE acc : Accumulates(acc, new, hits))[Space]
  BY DEF Merged, Accumulates, MergeAt, Entries

(* What has been merged so far: the newest bytes where it has any, those   *)
(* of one of the others elsewhere.                                         *)
Grown(v, new, hits) ==
    /\ v \in Segment
    /\ v.lo <= new.lo /\ Hi(new) <= Hi(v)
    /\ v.lo = new.lo \/ \E e \in hits : v.lo = e.lo
    /\ Hi(v) = Hi(new) \/ \E e \in hits : Hi(v) = Hi(e)
    /\ \A x \in At(new) : Byte(v, x) = Byte(new, x)
    /\ \A x \in At(v) \ At(new) : \E e \in hits : x \in At(e) /\ Byte(v, x) = Byte(e, x)

Mergeable(new, hits) ==
    /\ new \in Segment /\ hits \subseteq Segment
    /\ Disjoint(hits)
    /\ \A e \in hits : Touch(e, new) /\ e.lo < Space

LEMMA GrowsBy ==
    ASSUME NEW new, NEW hits, Mergeable(new, hits), NEW v, Grown(v, new, hits), NEW e \in hits
    PROVE  Grown(MergeSegments(e, v), new, hits)
  <1> DEFINE m == MergeSegments(e, v)
  <1>1. /\ e \in Segment /\ v \in Segment /\ new \in Segment /\ Touch(e, new)
        /\ v.lo <= new.lo /\ Hi(new) <= Hi(v)
    BY DEF Mergeable, Grown
  <1>2. /\ e.lo \in Nat /\ Hi(e) \in Nat /\ v.lo \in Nat /\ Hi(v) \in Nat /\ new.lo \in Nat /\ Hi(new) \in Nat
    BY <1>1, SegmentFacts
  <1>3. Touch(e, v)
    BY <1>1, <1>2 DEF Touch
  <1>4. /\ m \in Segment
        /\ m.lo \in {e.lo, v.lo} /\ m.lo <= v.lo
        /\ Hi(m) \in {Hi(e), Hi(v)} /\ Hi(v) <= Hi(m)
        /\ \A x \in At(v) : Byte(m, x) = Byte(v, x)
        /\ \A x \in At(e) \ At(v) : Byte(m, x) = Byte(e, x)
    BY <1>1, <1>3, MergeIsUnion
  <1>5. At(m) = At(e) \cup At(v)
    BY <1>1, <1>3, MergeCovers
  <1> HIDE DEF m
  <1>6. m.lo \in Nat /\ Hi(m) \in Nat
    BY <1>4, SegmentFacts
  <1>7. m.lo <= new.lo /\ Hi(new) <= Hi(m)
    BY <1>1, <1>2, <1>4, <1>6
  <1>8. /\ m.lo = new.lo \/ \E f \in hits : m.lo = f.lo
        /\ Hi(m) = Hi(new) \/ \E f \in hits : Hi(m) = Hi(f)
    BY <1>4 DEF Grown
  <1>9. At(new) \subseteq At(v)
    BY <1>1, <1>2 DEF At
  <1>10. \A x \in At(new) : Byte(m, x) = Byte(new, x)
    BY <1>4, <1>9 DEF Grown
  <1>11. ASSUME NEW x \in At(m) \ At(new)
         PROVE  \E f \in hits : x \in At(f) /\ Byte(m, x) = Byte(f, x)
    <2>1. CASE x \in At(v)
      BY <1>4, <1>11, <2>1 DEF Grown
    <2>2. CASE x \notin At(v)
      BY <1>4, <1>5, <1>11, <2>2
    <2>3. QED
      BY <2>1, <2>2
  <1>12. QED
    BY <1>4, <1>7, <1>8, <1>10, <1>11 DEF Grown, m

LEMMA GrowsAt ==
    ASSUME NEW new, NEW hits, Mergeable(new, hits), NEW v, Grown(v, new, hits), NEW k
    PROVE  Grown(MergeAt(hits, k, v), new, hits)
  <1>1. CASE Entries(hits, k) = {}
    BY <1>1 DEF MergeAt
  <1>2. CASE Entries(hits, k) # {}
    <2>1. (CHOOSE e \in Entries(hits, k) : TRUE) \in hits
      BY <1>2 DEF Entries
    <2>2. QED
      BY <1>2, <2>1, GrowsBy DEF MergeAt
  <1>3. QED
    BY <1>1, <1>2

LEMMA GrownNew ==
    ASSUME NEW new, NEW hits, Mergeable(new, hits)
    PROVE  Grown(new, new, hits)
  <1>1. new \in Segment /\ new.lo \in Nat /\ Hi(new) \in Nat
    BY SegmentFacts DEF Mergeable
  <1>2. QED
    BY <1>1 DEF Grown

(* The loop ends, and defines what it has accumulated. *)
LEMMA LoopDefined ==
    ASSUME NEW new, NEW hits, Mergeable(new, hits)
    PROVE  \E acc : Accumulates(acc, new, hits)
  <1> DEFINE V == {v \in Segment : Grown(v, new, hits)}
             step == [k \in Nat |-> [v \in V |-> MergeAt(hits, k, v)]]
  <1>1. new \in V
    BY GrownNew DEF Mergeable
  <1>2. ASSUME NEW k \in Nat, NEW v \in V PROVE MergeAt(hits, k, v) \in V
    <2>1. Grown(MergeAt(hits, k, v), new, hits)
      BY GrowsAt
    <2>2. QED
      BY <2>1 DEF Grown
  <1>3. step \in [Nat -> [V -> V]]
    BY <1>2
  <1>4. \A k \in Nat : \A v \in V : step[k][v] = MergeAt(hits, k, v)
    OBVIOUS
  <1> HIDE DEF step, V
  <1>5. PICK f : Obeys(f, V, new, step)
    <2>1. Stepping(V, new, step)
      BY <1>1, <1>3 DEF Stepping
    <2>2. QED
      BY <2>1, Recursion
  <1>6. ASSUME NEW a \in Nat PROVE f[a] = IF a = 0 THEN new ELSE MergeAt(hits, a - 1, f[a - 1])
    <2>1. CASE a = 0
      BY <1>5, <2>1 DEF Obeys
    <2>2. CASE a # 0
      <3>1. a - 1 \in Nat /\ a = (a - 1) + 1
        BY <2>2
      <3>2. f[a] = step[a - 1][f[a - 1]] /\ f[a - 1] \in V
        BY <1>5, <3>1 DEF Obeys
      <3>3. QED
        BY <1>4, <2>2, <3>1, <3>2
    <2>3. QED
      BY <2>1, <2>2
  <1>7. Accumulates(f, new, hits)
    BY <1>5, <1>6 DEF Accumulates, Obeys
  <1>8. QED
    BY <1>7

(* The entries below an address have been taken in when the loop is there. *)
TakenIn(v, hits, k) == \A e \in hits : e.lo < k => v.lo <= e.lo /\ Hi(e) <= Hi(v)

LEMMA TakesIn ==
    ASSUME NEW new, NEW hits, Mergeable(new, hits), NEW k \in Nat,
           NEW v, Grown(v, new, hits), TakenIn(v, hits, k)
    PROVE  TakenIn(MergeAt(hits, k, v), hits, k + 1)
  <1> DEFINE m == MergeAt(hits, k, v)
  <1>1. hits \subseteq Segment /\ \A e \in hits : e.lo \in Nat /\ Hi(e) \in Nat
    BY SegmentFacts DEF Mergeable
  <1>2. CASE Entries(hits, k) = {}
    BY <1>1, <1>2 DEF MergeAt, TakenIn, Entries
  <1>3. CASE Entries(hits, k) # {}
    <2> DEFINE e == CHOOSE f \in Entries(hits, k) : TRUE
    <2>1. e \in hits /\ e.lo = k /\ m = MergeSegments(e, v)
      BY <1>3 DEF Entries, MergeAt
    <2> HIDE DEF e
    <2>2. e \in Segment /\ v \in Segment /\ Touch(e, v)
      <3>1. v \in Segment /\ e \in Segment /\ new \in Segment
            /\ v.lo <= new.lo /\ Hi(new) <= Hi(v) /\ Touch(e, new)
        BY <2>1 DEF Grown, Mergeable
      <3>2. /\ e.lo \in Nat /\ Hi(e) \in Nat /\ v.lo \in Nat /\ Hi(v) \in Nat
            /\ new.lo \in Nat /\ Hi(new) \in Nat
        BY <3>1, SegmentFacts
      <3>3. QED
        BY <3>1, <3>2 DEF Touch
    <2>3. /\ m \in Segment /\ m.lo <= e.lo /\ m.lo <= v.lo /\ Hi(e) <= Hi(m) /\ Hi(v) <= Hi(m)
      BY <2>1, <2>2, MergeIsUnion
    <2>4. v.lo \in Nat /\ Hi(v) \in Nat /\ m.lo \in Nat /\ Hi(m) \in Nat
      BY <2>2, <2>3, SegmentFacts
    <2> HIDE DEF m
    <2>5. ASSUME NEW f \in hits, f.lo < k + 1 PROVE m.lo <= f.lo /\ Hi(f) <= Hi(m)
      <3>1. CASE f = e
        BY <2>3, <3>1
      <3>2. CASE f # e
        <4>1. Hi(e) < f.lo \/ Hi(f) < e.lo
          BY <2>1, <3>2 DEF Mergeable, Disjoint
        <4>2. e.lo <= Hi(e) /\ f.lo <= Hi(f)
          BY <1>1, <2>1, SegmentFacts
        <4>3. f.lo < k
          BY <1>1, <2>1, <2>5, <4>1, <4>2
        <4>4. v.lo <= f.lo /\ Hi(f) <= Hi(v)
          BY <4>3 DEF TakenIn
        <4>5. QED
          BY <1>1, <2>3, <2>4, <4>4
      <3>3. QED
        BY <3>1, <3>2
    <2>6. QED
      BY <2>5 DEF TakenIn, m
  <1>4. QED
    BY <1>2, <1>3

LEMMA MergedIsGrown ==
    ASSUME NEW new, NEW hits, Mergeable(new, hits)
    PROVE  /\ Grown(Merged(new, hits), new, hits)
           /\ \A e \in hits : At(e) \subseteq At(Merged(new, hits))
  <1> DEFINE acc == CHOOSE f : Accumulates(f, new, hits)
             S == {k \in Nat : Grown(acc[k], new, hits) /\ TakenIn(acc[k], hits, k)}
  <1>1. Accumulates(acc, new, hits)
    BY LoopDefined
  <1> HIDE DEF acc
  <1>2. acc[0] = new /\ \A k \in Nat : acc[k + 1] = MergeAt(hits, k, acc[k])
    <2>1. 0 \in Nat /\ \A k \in Nat : k + 1 \in Nat /\ k + 1 # 0 /\ (k + 1) - 1 = k
      OBVIOUS
    <2>2. QED
      BY <1>1, <2>1 DEF Accumulates
  <1>3. 0 \in S
    <2>1. \A e \in hits : ~(e.lo < 0)
      BY SegmentFacts DEF Mergeable
    <2>2. QED
      BY <1>2, <2>1, GrownNew DEF TakenIn
  <1>4. ASSUME NEW k \in Nat, k \in S PROVE k + 1 \in S
    BY <1>2, <1>4, GrowsAt, TakesIn
  <1>5. Space \in S
    <2>1. Space \in Nat /\ \A k \in Nat : k \in S
      BY <1>3, <1>4, Induction, MemAssumption
    <2>2. QED
      BY <2>1
  <1>6. Merged(new, hits) = acc[Space]
    BY MergedIsLoop DEF acc
  <1> DEFINE m == Merged(new, hits)
  <1>7. Grown(m, new, hits) /\ TakenIn(m, hits, Space)
    BY <1>5, <1>6
  <1> HIDE DEF m
  <1>8. ASSUME NEW e \in hits PROVE At(e) \subseteq At(m)
    <2>1. e.lo < Space /\ e \in Segment /\ m \in Segment
      BY <1>7 DEF Mergeable, Grown
    <2>2. m.lo <= e.lo /\ Hi(e) <= Hi(m)
      BY <1>7, <2>1 DEF TakenIn
    <2>3. e.lo \in Nat /\ Hi(e) \in Nat /\ m.lo \in Nat /\ Hi(m) \in Nat
      BY <2>1, SegmentFacts
    <2>4. QED
      BY <2>2, <2>3 DEF At
  <1>9. QED
    BY <1>7, <1>8 DEF m

(* The byte that a map has for an address, if any. *)
Reads(map, x, b) == \E e \in map : x \in At(e) /\ Byte(e, x) = b

LEMMA CommonAddress ==
    ASSUME NEW e \in Segment, NEW f \in Segment, Touch(e, f)
    PROVE  \E x \in At(e) : x \in At(f)
  <1>1. /\ e.lo \in Nat /\ Hi(e) \in Nat /\ f.lo \in Nat /\ Hi(f) \in Nat
        /\ e.lo <= Hi(e) /\ f.lo <= Hi(f)
    BY SegmentFacts
  <1>2. CASE e.lo <= f.lo
    <2>1. f.lo \in At(e) /\ f.lo \in At(f)
      BY <1>1, <1>2 DEF Touch, At
    <2>2. QED
      BY <2>1
  <1>3. CASE f.lo <= e.lo
    <2>1. e.lo \in At(e) /\ e.lo \in At(f)
      BY <1>1, <1>3 DEF Touch, At
    <2>2. QED
      BY <2>1
  <1>4. QED
    BY <1>1, <1>2, <1>3

LEMMA OneEntry ==
    ASSUME NEW map, RangedMap(map), NEW e \in map, NEW f \in map, NEW x, x \in At(e), x \in At(f)
    PROVE  e = f
  BY TouchIsOverlap DEF RangedMap, Disjoint

Touching(map, new) == {e \in map : Touch(e, new)}

(* Looking from the lowest address to both sides finds what touches.       *)
LEMMA FoundFromBothSides ==
    ASSUME NEW map, RangedMap(map), NEW new \in Segment
    PROVE  Emplace(map, new) = (map \ Touching(map, new)) \cup {Merged(new, Touching(map, new))}
  <1> DEFINE right == {e \in map : e.lo > new.lo /\ e.lo <= Hi(new)}
             left == {e \in map : e.lo <= new.lo
                        /\ \A f \in map : f.lo \in e.lo..new.lo => new.lo <= Hi(f)}
  <1>1. /\ new.lo \in Nat /\ Hi(new) \in Nat /\ new.lo <= Hi(new)
        /\ \A e \in map : e.lo \in Nat /\ Hi(e) \in Nat /\ e.lo <= Hi(e)
    BY SegmentFacts DEF RangedMap
  <1>2. ASSUME NEW e \in map, e \in right \/ e \in left
        PROVE  Touch(e, new)
    <2>1. e \in left => new.lo <= Hi(e)
      BY <1>1
    <2>2. QED
      BY <1>1, <1>2, <2>1 DEF Touch
  <1>3. ASSUME NEW e \in map, Touch(e, new)
        PROVE  e \in right \/ e \in left
    <2>1. CASE e.lo > new.lo
      BY <1>1, <1>3, <2>1 DEF Touch
    <2>2. CASE e.lo <= new.lo
      <3>1. ASSUME NEW f \in map, f.lo \in e.lo..new.lo PROVE new.lo <= Hi(f)
        <4>1. f.lo \in At(e) /\ f.lo \in At(f)
          BY <1>1, <1>3, <3>1 DEF Touch, At
        <4>2. e = f
          BY <4>1, OneEntry
        <4>3. QED
          BY <1>3, <4>2 DEF Touch
      <3>2. QED
        BY <2>2, <3>1
    <2>3. QED
      BY <1>1, <2>1, <2>2
  <1>4. left \cup right = Touching(map, new)
    BY <1>2, <1>3 DEF Touching
  <1>5. QED
    BY <1>4 DEF Emplace

(* Inserting a segment: its bytes win, the others stay, and what results   *)
(* is a map again whose entries begin and end where some entry did.        *)
Inserted(out, map, new) ==
    /\ RangedMap(out)
    /\ \A e \in out : /\ e.lo = new.lo \/ \E f \in map : e.lo = f.lo
                      /\ Hi(e) = Hi(new) \/ \E f \in map : Hi(e) = Hi(f)
    /\ \A x, b : Reads(out, x, b) <=> IF x \in At(new) THEN Byte(new, x) = b ELSE Reads(map, x, b)

LEMMA EmplaceInserts ==
    ASSUME NEW map, RangedMap(map), NEW new \in Segment, new.lo < Space
    PROVE  Inserted(Emplace(map, new), map, new)
  <1> DEFINE hits == Touching(map, new)
             m == Merged(new, hits)
             out == (map \ hits) \cup {m}
  <1>1. hits \subseteq map /\ map \subseteq Segment /\ \A e \in map : e \in hits <=> Touch(e, new)
    BY DEF Touching, RangedMap
  <1>2. Mergeable(new, hits)
    BY <1>1 DEF Mergeable, RangedMap, Disjoint
  <1> HIDE DEF hits
  <1>3. Grown(m, new, hits) /\ \A e \in hits : At(e) \subseteq At(m)
    BY <1>2, MergedIsGrown
  <1> HIDE DEF m
  <1>4. m \in Segment /\ new.lo \in Nat /\ m.lo \in Nat /\ m.lo <= new.lo /\ At(new) \subseteq At(m)
    <2>1. m \in Segment /\ m.lo <= new.lo /\ Hi(new) <= Hi(m)
      BY <1>3 DEF Grown
    <2>2. m.lo \in Nat /\ Hi(m) \in Nat /\ new.lo \in Nat /\ Hi(new) \in Nat
      BY <2>1, SegmentFacts
    <2>3. QED
      BY <2>1, <2>2 DEF At
  <1>5. \A x \in At(m) : x \in At(new) \/ \E e \in hits : x \in At(e) /\ Byte(m, x) = Byte(e, x)
    BY <1>3 DEF Grown
  <1>6. ASSUME NEW e \in map \ hits PROVE ~Touch(e, m)
    <2>1. SUFFICES ASSUME NEW x \in At(e), x \in At(m) PROVE FALSE
      BY <1>1, <1>4, CommonAddress
    <2>2. CASE x \in At(new)
      BY <1>1, <2>1, <2>2, TouchIsOverlap
    <2>3. CASE \E f \in hits : x \in At(f)
      BY <1>1, <2>1, <2>3, OneEntry
    <2>4. QED
      BY <1>5, <2>1, <2>2, <2>3
  <1>7. RangedMap(out)
    <2>1. out \subseteq Segment /\ \A e \in out : e.lo < Space
      BY <1>1, <1>4, MemAssumption DEF RangedMap
    <2>2. ASSUME NEW e \in out, NEW f \in out, e # f PROVE Hi(e) < f.lo \/ Hi(f) < e.lo
      <3>1. CASE e \in map /\ f \in map
        BY <2>2, <3>1 DEF RangedMap, Disjoint
      <3>2. CASE e = m
        BY <1>1, <1>4, <1>6, <2>2, <3>2, TouchIsOverlap
      <3>3. CASE f = m
        BY <1>1, <1>4, <1>6, <2>2, <3>3, TouchIsOverlap
      <3>4. QED
        BY <3>1, <3>2, <3>3
    <2>3. QED
      BY <2>1, <2>2 DEF RangedMap, Disjoint
  <1>8. ASSUME NEW e \in out
        PROVE  /\ e.lo = new.lo \/ \E f \in map : e.lo = f.lo
               /\ Hi(e) = Hi(new) \/ \E f \in map : Hi(e) = Hi(f)
    BY <1>1, <1>3 DEF Grown
  <1>9. ASSUME NEW x, NEW b
        PROVE  Reads(out, x, b) <=> IF x \in At(new) THEN Byte(new, x) = b ELSE Reads(map, x, b)
    <2>1. CASE x \in At(new)
      <3>1. x \in At(m) /\ Byte(m, x) = Byte(new, x)
        BY <1>3, <1>4, <2>1 DEF Grown
      <3>2. \A e \in map \ hits : x \notin At(e)
        BY <1>1, <2>1, TouchIsOverlap
      <3>3. QED
        BY <2>1, <3>1, <3>2 DEF Reads
    <2>2. CASE x \notin At(new)
      <3>1. ASSUME Reads(out, x, b) PROVE Reads(map, x, b)
        BY <1>1, <1>5, <2>2, <3>1 DEF Reads
      <3>2. ASSUME Reads(map, x, b) PROVE Reads(out, x, b)
        <4>1. PICK e \in map : x \in At(e) /\ Byte(e, x) = b
          BY <3>2 DEF Reads
        <4>2. CASE e \in hits
          <5>1. x \in At(m)
            BY <1>3, <4>1, <4>2
          <5>2. PICK f \in hits : x \in At(f) /\ Byte(m, x) = Byte(f, x)
            BY <1>5, <2>2, <5>1
          <5>3. f = e
            BY <1>1, <4>1, <5>2, OneEntry
          <5>4. QED
            BY <4>1, <5>1, <5>2, <5>3 DEF Reads
        <4>3. CASE e \notin hits
          BY <4>1, <4>3 DEF Reads
        <4>4. QED
          BY <4>2, <4>3
      <3>3. QED
        BY <2>2, <3>1, <3>2
    <2>3. QED
      BY <2>1, <2>2
  <1>10. Emplace(map, new) = out
    BY FoundFromBothSides DEF hits, m
  <1>11. QED
    BY <1>7, <1>8, <1>9, <1>10 DEF Inserted

----------------------------------------------------------------------------
(***************************************************************************)
(* The registry.                                                           *)
(***************************************************************************)
Base(i) == areas[i].base
Top(i) == areas[i].base + Size(areas[i]) - 1
Entry(i) == [lo |-> Base(i), hi |-> Top(i), index |-> i - 1]
Apart(lo, hi, i) == hi < Base(i) \/ Top(i) < lo

RegistryInv ==
    /\ areas \in Seq(Candidates)
    /\ ranges = {Entry(i) : i \in DOMAIN areas}
    /\ \A i \in DOMAIN areas : Top(i) < Space
    /\ \A i, j \in DOMAIN areas : i # j => Apart(Base(i), Top(i), j)
    /\ \A i \in DOMAIN areas : areas[i].name \in DOMAIN names /\ names[areas[i].name] = i - 1
    /\ \A n \in DOMAIN names : \E i \in DOMAIN areas : areas[i].name = n

LEMMA CandidateFacts ==
    ASSUME NEW a \in Candidates
    PROVE  /\ a.base \in Nat /\ a.base < Space /\ a.words \in Nat
           /\ Size(a) \in Nat /\ Size(a) >= 1 /\ Size(a) <= Space /\ Space \in Nat
  BY MemAssumption DEF Size

LEMMA AreaFacts ==
    ASSUME RegistryInv, NEW i \in DOMAIN areas
    PROVE  /\ i \in Nat \ {0} /\ areas[i] \in Candidates
           /\ Base(i) \in Nat /\ Top(i) \in Nat /\ Base(i) <= Top(i) /\ Top(i) < Space
           /\ Top(i) = Base(i) + Size(areas[i]) - 1 /\ Size(areas[i]) \in Nat
           /\ Entry(i).lo = Base(i) /\ Entry(i).hi = Top(i) /\ Entry(i).index = i - 1
  <1>1. i \in Nat \ {0} /\ areas[i] \in Candidates /\ Top(i) < Space
    BY DEF RegistryInv
  <1>2. /\ areas[i].base \in Nat /\ Size(areas[i]) \in Nat /\ Size(areas[i]) >= 1
    BY <1>1, CandidateFacts
  <1>3. QED
    BY <1>1, <1>2 DEF Base, Top, Entry

(* find returns the area an address lies in, if there is one. *)
LEMMA FindIsOwner ==
    ASSUME RegistryInv, NEW x \in Nat
    PROVE  \A r : r \in Find(x) <=> \E i \in DOMAIN areas : r = Entry(i) /\ x \in Base(i)..Top(i)
  <1>1. ASSUME NEW r, r \in Find(x)
        PROVE  \E i \in DOMAIN areas : r = Entry(i) /\ x \in Base(i)..Top(i)
    <2>1. r \in ranges /\ r.lo <= x /\ x <= r.hi
      BY <1>1 DEF Find
    <2>2. PICK i \in DOMAIN areas : r = Entry(i)
      BY <2>1 DEF RegistryInv
    <2>3. QED
      BY <2>1, <2>2, AreaFacts
  <1>2. ASSUME NEW i \in DOMAIN areas, x \in Base(i)..Top(i)
        PROVE  Entry(i) \in Find(x)
    <2>1. /\ Base(i) \in Nat /\ Top(i) \in Nat /\ Entry(i).lo = Base(i) /\ Entry(i).hi = Top(i)
      BY AreaFacts
    <2>2. Entry(i) \in ranges /\ Entry(i).lo <= x /\ x <= Entry(i).hi
      BY <1>2, <2>1 DEF RegistryInv
    <2>3. ASSUME NEW q \in ranges, q.lo <= x PROVE q.lo <= Entry(i).lo
      <3>1. PICK j \in DOMAIN areas : q = Entry(j)
        BY DEF RegistryInv
      <3>2. /\ Base(j) \in Nat /\ Top(j) \in Nat /\ Base(j) <= Top(j) /\ q.lo = Base(j)
        BY <3>1, AreaFacts
      <3>3. i = j \/ Apart(Base(i), Top(i), j)
        BY DEF RegistryInv
      <3>4. QED
        BY <1>2, <2>1, <2>3, <3>2, <3>3 DEF Apart
    <2>4. QED
      BY <2>2, <2>3 DEF Find
  <1>3. QED
    BY <1>1, <1>2

(* EmplaceDisjoint lets a range through only if it overlaps none. *)
LEMMA NoClash ==
    ASSUME RegistryInv, NEW lo \in Nat, NEW hi \in Nat, lo <= hi, Clash(lo, hi) = {},
           NEW i \in DOMAIN areas
    PROVE  Apart(lo, hi, i)
  <1> SUFFICES ASSUME ~Apart(lo, hi, i) PROVE FALSE
    OBVIOUS
  <1> DEFINE above == {r \in ranges : r.lo > lo}
             right == {r \in ranges : r.lo > lo /\ \A q \in ranges : q.lo > lo => r.lo <= q.lo}
             hit == {r \in right : r.lo <= hi}
  <1>1. /\ Base(i) \in Nat /\ Top(i) \in Nat /\ Entry(i).lo = Base(i) /\ Entry(i) \in ranges
    BY AreaFacts DEF RegistryInv
  <1>2. Base(i) <= hi /\ lo <= Top(i)
    BY <1>1 DEF Apart
  <1>3. hit = {} /\ Find(lo) = {}
    BY DEF Clash
  <1>4. CASE Base(i) <= lo
    BY <1>1, <1>2, <1>3, <1>4, FindIsOwner
  <1>5. CASE lo < Base(i)
    <2> DEFINE T == {r.lo : r \in above}
    <2>1. T \subseteq Nat
      <3>1. \A q \in ranges : \E j \in DOMAIN areas : q = Entry(j)
        BY DEF RegistryInv
      <3>2. \A q \in ranges : q.lo \in Nat
        BY <3>1, AreaFacts
      <3>3. QED
        BY <3>2
    <2>2. Base(i) \in T
      BY <1>1, <1>5
    <2>3. PICK m \in T : \A k \in T : m <= k
      BY <2>1, <2>2, Smallest
    <2>4. PICK r \in above : r.lo = m
      OBVIOUS
    <2>5. m <= Base(i) /\ m \in Nat
      BY <2>1, <2>2, <2>3
    <2>6. r \in right /\ r.lo <= hi
      BY <1>1, <1>2, <2>3, <2>4, <2>5
    <2>7. QED
      BY <1>3, <2>6
  <1>6. QED
    BY <1>1, <1>4, <1>5

LEMMA Division ==
    ASSUME NEW d \in Nat, d > 0, NEW k \in Nat
    PROVE  k = d * (k \div d) + (k % d) /\ k % d \in 0 .. d - 1 /\ k \div d \in Nat
  OBVIOUS

(* A top address that is not below the base has not wrapped. *)
LEMMA NotWrapped ==
    ASSUME NEW d \in Nat, NEW b \in Nat, NEW n \in Nat, b < d, n >= 1, n <= d, (b + n - 1) % d >= b
    PROVE  (b + n - 1) % d = b + n - 1 /\ b + n - 1 < d
  <1> DEFINE k == b + n - 1
             q == k \div d
             r == k % d
  <1>1. k \in Nat /\ d > 0 /\ k < 2 * d
    OBVIOUS
  <1>2. k = d * q + r /\ r \in 0..(d - 1) /\ q \in Nat
    BY <1>1, Division
  <1>3. r >= b
    OBVIOUS
  <1>4. k < b + d
    OBVIOUS
  <1> HIDE DEF k, q, r
  <1>5. q = 0
    <2>1. CASE q >= 1
      <3>1. d * q >= d
        BY <1>2, <2>1
      <3>2. QED
        BY <1>1, <1>2, <1>3, <1>4, <3>1
    <2>2. QED
      BY <1>2, <2>1
  <1>6. k = r
    BY <1>2, <1>5
  <1>7. QED
    BY <1>2, <1>6 DEF k, r

LEMMA RegisterKeepsRegistry ==
    ASSUME RegistryInv, NEW a \in Candidates, Register(a)
    PROVE  RegistryInv'
  <1>1. CASE UNCHANGED <<areas, names, ranges>>
    BY <1>1 DEF RegistryInv, Base, Top, Entry, Apart
  <1> PICK top \in Nat : top = (a.base + Size(a) - 1) % Space
    BY CandidateFacts
  <1>2. CASE /\ top >= a.base /\ a.name \notin DOMAIN names /\ Clash(a.base, top) = {}
             /\ names' = [n \in DOMAIN names \cup {a.name} |-> IF n = a.name THEN Len(areas) ELSE names[n]]
             /\ ranges' = ranges \cup {[lo |-> a.base, hi |-> top, index |-> Len(areas)]}
             /\ areas' = Append(areas, a)
    <2>1. /\ a.base \in Nat /\ Size(a) \in Nat /\ Size(a) >= 1
          /\ top = a.base + Size(a) - 1 /\ top < Space /\ a.base <= top
      <3>1. /\ a.base \in Nat /\ a.base < Space /\ Size(a) \in Nat /\ Size(a) >= 1
            /\ Size(a) <= Space /\ Space \in Nat
        BY CandidateFacts
      <3>2. top = a.base + Size(a) - 1 /\ top < Space
        BY <1>2, <3>1, NotWrapped
      <3>3. QED
        BY <1>2, <3>1, <3>2
    <2>2. /\ areas \in Seq(Candidates) /\ Len(areas) \in Nat /\ DOMAIN areas = 1..Len(areas)
      BY DEF RegistryInv
    <2> PICK new \in Nat : new = Len(areas) + 1
      BY <2>2
    <2>3. /\ areas' \in Seq(Candidates) /\ DOMAIN areas' = DOMAIN areas \cup {new}
          /\ new \notin DOMAIN areas /\ areas'[new] = a /\ new - 1 = Len(areas)
          /\ \A i \in DOMAIN areas : areas'[i] = areas[i]
      BY <1>2, <2>2
    <2>4. /\ \A i \in DOMAIN areas : Base(i)' = Base(i) /\ Top(i)' = Top(i) /\ Entry(i)' = Entry(i)
      BY <2>3 DEF Base, Top, Entry
    <2>5. /\ Base(new)' = a.base /\ Top(new)' = top
          /\ Entry(new)' = [lo |-> a.base, hi |-> top, index |-> Len(areas)]
      BY <2>1, <2>3 DEF Base, Top, Entry
    <2>6. ranges' = {Entry(i)' : i \in DOMAIN areas'}
      BY <1>2, <2>3, <2>4, <2>5 DEF RegistryInv
    <2>7. \A i \in DOMAIN areas' : Top(i)' < Space
      BY <2>1, <2>3, <2>4, <2>5 DEF RegistryInv
    <2>8. ASSUME NEW i \in DOMAIN areas', NEW j \in DOMAIN areas', i # j
          PROVE  Apart(Base(i), Top(i), j)'
      <3>1. ASSUME NEW k \in DOMAIN areas PROVE Apart(a.base, top, k)
        BY <1>2, <2>1, NoClash
      <3>2. CASE i \in DOMAIN areas /\ j \in DOMAIN areas
        BY <2>4, <2>8, <3>2 DEF RegistryInv, Apart
      <3>3. CASE i = new
        BY <2>3, <2>4, <2>5, <2>8, <3>1, <3>3 DEF Apart
      <3>4. CASE j = new
        BY <2>3, <2>4, <2>5, <2>8, <3>1, <3>4 DEF Apart
      <3>5. QED
        BY <2>3, <3>2, <3>3, <3>4
    <2>9. DOMAIN names' = DOMAIN names \cup {a.name} /\ names'[a.name] = Len(areas)
          /\ \A n \in DOMAIN names : names'[n] = names[n]
      BY <1>2
    <2>10. \A i \in DOMAIN areas' : areas'[i].name \in DOMAIN names' /\ names'[areas'[i].name] = i - 1
      BY <2>3, <2>9 DEF RegistryInv
    <2>11. \A n \in DOMAIN names' : \E i \in DOMAIN areas' : areas'[i].name = n
      BY <2>3, <2>9 DEF RegistryInv
    <2>12. QED
      BY <2>3, <2>6, <2>7, <2>8, <2>10, <2>11 DEF RegistryInv
  <1>3. QED
    <2>1. UNCHANGED <<areas, names, ranges>>
            \/ /\ top >= a.base /\ a.name \notin DOMAIN names /\ Clash(a.base, top) = {}
               /\ names' = [n \in DOMAIN names \cup {a.name} |-> IF n = a.name THEN Len(areas) ELSE names[n]]
               /\ ranges' = ranges \cup {[lo |-> a.base, hi |-> top, index |-> Len(areas)]}
               /\ areas' = Append(areas, a)
      <3>1. a.base \in Nat
        BY CandidateFacts
      <3>2. QED
        BY <3>1 DEF Register
    <2>2. QED
      BY <1>1, <1>2, <2>1

(* The part of the state that only registration changes. *)
LEMMA RegistryStep ==
    ASSUME RegistryInv, [Next]_vars
    PROVE  RegistryInv'
  <1>1. CASE UNCHANGED <<areas, names, ranges>>
    BY <1>1 DEF RegistryInv, Base, Top, Entry, Apart
  <1>2. CASE \E a \in Candidates : Register(a)
    BY <1>2, RegisterKeepsRegistry
  <1>3. CommandLine => UNCHANGED <<areas, names, ranges>>
    BY DEF CommandLine, InitOption, ElfOption, MemOption, LeaveOption, Collect, Return, registry
  <1>4. Loading => UNCHANGED <<areas, names, ranges>>
    BY DEF Loading, Begin, Finish, NamedElf, NamedVmem, NamedRefused, ElfLoad, StageSegment,
           AllStaged, WriteSegment, AllWritten, Return, registry
  <1>5. QED
    BY <1>1, <1>2, <1>3, <1>4 DEF Next, vars

LEMMA RegistryIsCoherent == RegistryInv => RegistryCoherent
  <1> SUFFICES ASSUME RegistryInv PROVE RegistryCoherent
    OBVIOUS
  <1>1. ASSUME NEW n \in DOMAIN names
        PROVE  names[n] < Len(areas) /\ areas[names[n] + 1].name = n
    <2>1. PICK i \in DOMAIN areas : areas[i].name = n
      BY DEF RegistryInv
    <2>2. names[n] = i - 1 /\ i \in Nat /\ i <= Len(areas) /\ Len(areas) \in Nat
      BY <2>1 DEF RegistryInv
    <2>3. QED
      BY <2>1, <2>2
  <1>2. ASSUME NEW x \in 0..(Space - 1), NEW i \in DOMAIN areas
        PROVE  (\E r \in Find(x) : r.index = i - 1)
                 <=> x \in areas[i].base..(areas[i].base + Size(areas[i]) - 1)
    <2>1. x \in Nat
      BY MemAssumption
    <2>2. \A j \in DOMAIN areas : j \in Nat /\ Entry(j).index = j - 1
      BY AreaFacts
    <2>3. ASSUME NEW r \in Find(x), r.index = i - 1 PROVE x \in Base(i)..Top(i)
      <3>1. PICK j \in DOMAIN areas : r = Entry(j) /\ x \in Base(j)..Top(j)
        BY <2>1, FindIsOwner
      <3>2. j = i
        BY <2>2, <2>3, <3>1
      <3>3. QED
        BY <3>1, <3>2
    <2>4. ASSUME x \in Base(i)..Top(i) PROVE \E r \in Find(x) : r.index = i - 1
      BY <2>1, <2>2, <2>4, FindIsOwner
    <2>5. QED
      BY <2>3, <2>4 DEF Base, Top
  <1>3. QED
    BY <1>1, <1>2 DEF RegistryCoherent, RegistryInv

(* Whatever is registered, refused or not, every area is found by its name *)
(* and by each of its addresses, and by no other (RegisterMemoryArea and   *)
(* RangedMap::EmplaceDisjoint), for every set of candidates and size of    *)
(* the address space.                                                      *)
THEOREM RegistryStaysCoherent == Spec => []RegistryCoherent
  <1>1. Init => RegistryInv
    BY DEF Init, RegistryInv
  <1>2. QED
    BY <1>1, RegistryStep, RegistryIsCoherent, PTL DEF Spec

----------------------------------------------------------------------------
(***************************************************************************)
(* Words: multiples of the width.                                          *)
(***************************************************************************)
LEMMA TimesMonotone ==
    ASSUME NEW c \in Nat, NEW x \in Nat, NEW y \in Nat, x <= y
    PROVE  c * x <= c * y /\ c * x \in Nat
  <1>1. PICK d \in Nat : y = x + d
    OBVIOUS
  <1>2. c * y = c * x + c * d /\ c * d \in Nat /\ c * x \in Nat
    BY <1>1
  <1>3. QED
    BY <1>2

LEMMA NextMultiple ==
    ASSUME NEW w \in Nat, w > 0, NEW x \in Nat, NEW y \in Nat, w * x < w * y + w
    PROVE  x <= y /\ w * x <= w * y
  <1>1. CASE x >= y + 1
    <2>1. w * (y + 1) <= w * x
      BY <1>1, TimesMonotone
    <2>2. w * (y + 1) = w * y + w
      OBVIOUS
    <2>3. w * y \in Nat /\ w * x \in Nat
      OBVIOUS
    <2>4. QED
      BY <2>1, <2>2, <2>3
  <1>2. CASE x <= y
    BY <1>2, TimesMonotone
  <1>3. QED
    BY <1>1, <1>2

(* Multiples, and the one at or below a number. *)
Multiple(z) == \E q \in Nat : z = Width * q
Floor(o) == o - (o % Width)

LEMMA WidthFacts == Width \in Nat /\ Width > 0 /\ Space \in Nat /\ Space > 0
  BY MemAssumption

LEMMA MultipleFacts ==
    ASSUME NEW z \in Nat
    PROVE  /\ Multiple(z) <=> z % Width = 0
           /\ Multiple(z) => z = (z \div Width) * Width /\ z \div Width \in Nat
  <1> DEFINE q == z \div Width
             r == z % Width
  <1>1. z = Width * q + r /\ r \in 0..(Width - 1) /\ q \in Nat
    BY WidthFacts, Division
  <1> HIDE DEF q, r
  <1>2. Width * q \in Nat /\ Width * q = q * Width
    BY <1>1, WidthFacts
  <1>3. ASSUME r = 0 PROVE Multiple(z)
    BY <1>1, <1>2, <1>3 DEF Multiple
  <1>4. ASSUME Multiple(z) PROVE r = 0
    <2>1. PICK p \in Nat : z = Width * p
      BY <1>4 DEF Multiple
    <2>2. Width * p < Width * q + Width
      BY <1>1, <1>2, <2>1, WidthFacts
    <2>3. Width * p <= Width * q
      BY <1>1, <2>2, NextMultiple, WidthFacts
    <2>4. QED
      BY <1>1, <1>2, <2>1, <2>3
  <1>5. QED
    BY <1>1, <1>2, <1>3, <1>4 DEF q, r

LEMMA FloorFacts ==
    ASSUME NEW o \in Nat
    PROVE  Floor(o) \in Nat /\ Multiple(Floor(o)) /\ Floor(o) <= o /\ o < Floor(o) + Width
  <1>1. /\ o = Width * (o \div Width) + (o % Width)
        /\ o % Width \in 0..(Width - 1) /\ o \div Width \in Nat
    BY WidthFacts, Division
  <1>2. Width * (o \div Width) \in Nat
    BY <1>1, WidthFacts
  <1>3. QED
    BY <1>1, <1>2, WidthFacts DEF Floor, Multiple

(* Between two multiples there are whole words. *)
LEMMA MultiplesApart ==
    ASSUME NEW y \in Nat, NEW z \in Nat, Multiple(y), Multiple(z)
    PROVE  y < z + Width => y <= z
  <1>1. PICK p \in Nat : y = Width * p
    BY DEF Multiple
  <1>2. PICK q \in Nat : z = Width * q
    BY DEF Multiple
  <1>3. QED
    BY <1>1, <1>2, NextMultiple, WidthFacts

LEMMA SumOfMultiples ==
    ASSUME NEW y \in Nat, NEW z \in Nat, Multiple(y), Multiple(z)
    PROVE  Multiple(y + z)
  <1>1. PICK p \in Nat : y = Width * p
    BY DEF Multiple
  <1>2. PICK q \in Nat : z = Width * q
    BY DEF Multiple
  <1>3. Width * (p + q) = y + z /\ p + q \in Nat
    BY <1>1, <1>2, WidthFacts
  <1>4. QED
    BY <1>3 DEF Multiple

(* The words that some bytes take, rounded up. *)
LEMMA WordsRoundUp ==
    ASSUME NEW data \in Seq(Nat)
    PROVE  /\ Words(data) \in Nat /\ Words(data) * Width \in Nat
           /\ Multiple(Words(data) * Width)
           /\ Len(data) <= Words(data) * Width /\ Words(data) * Width < Len(data) + Width
  <1> DEFINE k == Len(data) + Width - 1
             q == k \div Width
             r == k % Width
  <1>1. k \in Nat /\ Len(data) \in Nat
    BY WidthFacts
  <1>2. k = Width * q + r /\ r \in 0..(Width - 1) /\ q \in Nat
    BY <1>1, WidthFacts, Division
  <1>3. Words(data) = q
    BY DEF Words
  <1> HIDE DEF q, r
  <1>4. q * Width = Width * q /\ Width * q \in Nat
    BY <1>2, WidthFacts
  <1>5. QED
    BY <1>1, <1>2, <1>3, <1>4, WidthFacts DEF Multiple

(* An area holds a whole number of words. *)
LEMMA SizeIsMultiple ==
    ASSUME NEW a \in Candidates
    PROVE  Multiple(Size(a)) /\ Size(a) = Width * a.words
  BY WidthFacts, CandidateFacts DEF Size, Multiple

----------------------------------------------------------------------------
(***************************************************************************)
(* What is staged fits.                                                    *)
(***************************************************************************)
Aligned(e) == Multiple(e.lo)
WordTop(e) == e.lo + Words(e.data) * Width

Fitting(map, a) ==
    /\ RangedMap(map)
    /\ \A e \in map : Aligned(e) /\ Hi(e) < Size(a)

(* The words of a segment end at the next multiple past it. *)
LEMMA WordTopIsNext ==
    ASSUME NEW e \in Segment, Aligned(e)
    PROVE  /\ WordTop(e) \in Nat /\ Multiple(WordTop(e))
           /\ Hi(e) < WordTop(e) /\ WordTop(e) <= Hi(e) + Width
           /\ \A z \in Nat : Multiple(z) /\ Hi(e) < z => WordTop(e) <= z
  <1>1. /\ e.lo \in Nat /\ e.data \in Seq(Nat) /\ Len(e.data) = Hi(e) - e.lo + 1 /\ Hi(e) \in Nat
    BY SegmentFacts
  <1>2. /\ Words(e.data) * Width \in Nat /\ Multiple(Words(e.data) * Width)
        /\ Len(e.data) <= Words(e.data) * Width /\ Words(e.data) * Width < Len(e.data) + Width
    BY <1>1, WordsRoundUp
  <1>3. WordTop(e) \in Nat /\ Hi(e) < WordTop(e) /\ WordTop(e) <= Hi(e) + Width
    BY <1>1, <1>2, WidthFacts DEF WordTop
  <1>4. Multiple(WordTop(e))
    BY <1>1, <1>2, SumOfMultiples DEF WordTop, Aligned
  <1>5. ASSUME NEW z \in Nat, Multiple(z), Hi(e) < z PROVE WordTop(e) <= z
    <2>1. WordTop(e) < z + Width
      BY <1>1, <1>3, <1>5, WidthFacts
    <2>2. QED
      BY <1>3, <1>4, <1>5, <2>1, MultiplesApart
  <1>6. QED
    BY <1>3, <1>4, <1>5

LEMMA FittingFits ==
    ASSUME NEW a \in Candidates, NEW map, Fitting(map, a), NEW e \in map
    PROVE  e.lo % Width = 0 /\ e.lo \div Width + Words(e.data) <= a.words
  <1>1. e \in Segment /\ Aligned(e) /\ Hi(e) < Size(a) /\ e.lo \in Nat /\ e.data \in Seq(Nat)
    BY SegmentFacts DEF Fitting, RangedMap
  <1>2. Size(a) \in Nat /\ Multiple(Size(a)) /\ Size(a) = Width * a.words /\ a.words \in Nat
    BY CandidateFacts, SizeIsMultiple
  <1>3. WordTop(e) <= Size(a)
    BY <1>1, <1>2, WordTopIsNext
  <1> DEFINE q == e.lo \div Width
             n == Words(e.data)
  <1>4. e.lo % Width = 0 /\ e.lo = q * Width /\ q \in Nat
    BY <1>1, MultipleFacts DEF Aligned
  <1>5. n \in Nat
    BY <1>1, WordsRoundUp
  <1>6. WordTop(e) = q * Width + n * Width
    BY <1>4 DEF WordTop
  <1> HIDE DEF q, n
  <1>7. Width * (q + n) = q * Width + n * Width
    BY <1>4, <1>5, WidthFacts
  <1>8. Width * (q + n) < Width * a.words + Width
    <2>1. Width * (q + n) <= Width * a.words
      BY <1>2, <1>3, <1>6, <1>7
    <2>2. Width * a.words \in Nat /\ Width * (q + n) \in Nat
      BY <1>2, <1>4, <1>5, WidthFacts
    <2>3. QED
      BY <2>1, <2>2, WidthFacts
  <1>9. q + n <= a.words
    BY <1>2, <1>4, <1>5, <1>8, NextMultiple, WidthFacts
  <1>10. QED
    BY <1>4, <1>9 DEF q, n

----------------------------------------------------------------------------
(***************************************************************************)
(* The command line and the staging area.                                  *)
(***************************************************************************)
Load == [name : Names \cup {""}, file : Files, type : Types \cup {f.ext : f \in Files}]

StagingInv ==
    /\ RegistryInv
    /\ loads \in Seq(Load) /\ segs \in Seq(Header)
    /\ staged \in Seq(SUBSET Segment) /\ DOMAIN staged = DOMAIN areas
    /\ \A i \in DOMAIN areas : Fitting(staged[i], areas[i])

LEMMA NothingFits == \A a : Fitting({}, a)
  BY DEF Fitting, RangedMap, Disjoint

(* The file that is loaded next. *)
LEMMA CurrentFacts ==
    ASSUME loads \in Seq(Load), loads # <<>>
    PROVE  Current \in Load /\ Current.file \in Files /\ Tail(loads) \in Seq(Load)
  <1>1. Head(loads) \in Load /\ Tail(loads) \in Seq(Load)
    OBVIOUS
  <1>2. QED
    BY <1>1 DEF Current, Load

LEMMA FileFacts ==
    ASSUME NEW f \in Files
    PROVE  /\ f.class = "elf" => f.segs \in Seq(Header)
           /\ f.class = "vmem" => f.bytes \in Seq(Nat) /\ Len(f.bytes) % Width = 0
  BY MemAssumption

LEMMA HeaderFacts ==
    ASSUME NEW s \in Header
    PROVE  /\ s.addr \in Nat /\ s.addr < Space /\ s.data \in Seq(Nat) /\ Len(s.data) \in Nat
           /\ s.load \in BOOLEAN /\ s.cut \in BOOLEAN
           /\ s.data # <<>> => Len(s.data) >= 1
  BY MemAssumption DEF Header

(* The area of a segment holds it from its first byte to its last.         *)
LEMMA RegionHolds ==
    ASSUME RegistryInv, NEW s \in Header, s.data # <<>>, NEW r \in Region(s)
    PROVE  \E i \in DOMAIN areas :
             /\ r = Entry(i) /\ r.index + 1 = i /\ r.lo = Base(i)
             /\ s.addr \in Base(i)..Top(i) /\ s.addr - Base(i) \in Nat
             /\ s.addr - Base(i) + Len(s.data) - 1 < Size(areas[i])
  <1>1. /\ r \in Find(s.addr) /\ s.addr + Len(s.data) - 1 - r.lo < Size(areas[r.index + 1])
    BY DEF Region
  <1>2. s.addr \in Nat /\ Len(s.data) \in Nat
    BY HeaderFacts
  <1>3. PICK i \in DOMAIN areas : r = Entry(i) /\ s.addr \in Base(i)..Top(i)
    BY <1>1, <1>2, FindIsOwner
  <1>4. /\ i \in Nat /\ Base(i) \in Nat /\ r.lo = Base(i) /\ r.index = i - 1 /\ Top(i) \in Nat
    BY <1>3, AreaFacts
  <1>5. r.index + 1 = i
    BY <1>4
  <1>6. s.addr - Base(i) \in Nat /\ s.addr - Base(i) + Len(s.data) - 1 = s.addr + Len(s.data) - 1 - r.lo
    BY <1>2, <1>3, <1>4
  <1>7. QED
    BY <1>1, <1>3, <1>4, <1>5, <1>6

(* Staging a segment changes what is staged for one area. *)
LEMMA StagesOne ==
    ASSUME RegistryInv, NEW s \in Header, s.data # <<>>,
           \E r \in Region(s) : (s.addr - r.lo) % Width = 0,
           \E r \in Region(s) :
              staged' = [staged EXCEPT ![r.index + 1] = AddSegment(@, s.addr - r.lo, s.data)]
    PROVE  \E i \in DOMAIN areas :
             /\ s.addr \in Base(i)..Top(i) /\ s.addr - Base(i) \in Nat
             /\ (s.addr - Base(i)) % Width = 0
             /\ s.addr - Base(i) + Len(s.data) - 1 < Size(areas[i])
             /\ staged' = [staged EXCEPT ![i] = AddSegment(@, s.addr - Base(i), s.data)]
  <1>1. PICK q \in Region(s) : (s.addr - q.lo) % Width = 0
    OBVIOUS
  <1>2. PICK r \in Region(s) :
          staged' = [staged EXCEPT ![r.index + 1] = AddSegment(@, s.addr - r.lo, s.data)]
    OBVIOUS
  <1>3. PICK i \in DOMAIN areas :
           /\ r = Entry(i) /\ r.index + 1 = i /\ r.lo = Base(i)
           /\ s.addr \in Base(i)..Top(i) /\ s.addr - Base(i) \in Nat
           /\ s.addr - Base(i) + Len(s.data) - 1 < Size(areas[i])
    BY RegionHolds
  <1>4. PICK j \in DOMAIN areas :
           /\ q = Entry(j) /\ q.lo = Base(j) /\ s.addr \in Base(j)..Top(j)
    BY RegionHolds
  <1>5. i = j
    <2>1. /\ Base(i) \in Nat /\ Base(j) \in Nat /\ Top(i) \in Nat /\ Top(j) \in Nat
      BY AreaFacts
    <2>2. i # j => Apart(Base(i), Top(i), j)
      BY DEF RegistryInv
    <2>3. QED
      BY <1>3, <1>4, <2>1, <2>2 DEF Apart
  <1>6. (s.addr - Base(i)) % Width = 0
    BY <1>1, <1>4, <1>5
  <1>7. staged' = [staged EXCEPT ![i] = AddSegment(@, s.addr - Base(i), s.data)]
    BY <1>2, <1>3
  <1>8. QED
    BY <1>3, <1>6, <1>7

LEMMA AddedFits ==
    ASSUME NEW a \in Candidates, NEW map, Fitting(map, a), NEW d \in Seq(Nat), d # <<>>,
           NEW o \in Nat, o % Width = 0, o + Len(d) - 1 < Size(a)
    PROVE  Fitting(AddSegment(map, o, d), a) /\ Inserted(AddSegment(map, o, d), map, [lo |-> o, data |-> d])
  <1> DEFINE new == [lo |-> o, data |-> d]
  <1>1. new \in Segment /\ new.lo = o /\ Hi(new) = o + Len(d) - 1 /\ Aligned(new)
    BY MultipleFacts DEF Segment, Hi, Aligned
  <1>2. new.lo < Space
    BY <1>1, SegmentFacts, CandidateFacts
  <1>3. AddSegment(map, o, d) = Emplace(map, new) /\ RangedMap(map)
    BY DEF AddSegment, Fitting
  <1> HIDE DEF new
  <1>4. Inserted(Emplace(map, new), map, new)
    BY <1>1, <1>2, <1>3, EmplaceInserts
  <1>5. \A e \in Emplace(map, new) : Aligned(e) /\ Hi(e) < Size(a)
    BY <1>1, <1>4 DEF Inserted, Aligned, Fitting
  <1>6. QED
    BY <1>3, <1>4, <1>5 DEF Fitting, Inserted, new

LEMMA StageSegmentFits ==
    ASSUME StagingInv, StageSegment
    PROVE  StagingInv'
  <1> DEFINE s == Head(segs)
  <1>1. s \in Header /\ Tail(segs) \in Seq(Header) /\ segs' = Tail(segs)
    BY DEF StagingInv, StageSegment
  <1>2. UNCHANGED <<areas, names, ranges, loads>>
    BY DEF StageSegment, registry
  <1>3. RegistryInv'
    BY <1>2 DEF StagingInv, RegistryInv, Base, Top, Entry, Apart
  <1>4. CASE UNCHANGED staged
    BY <1>1, <1>2, <1>3, <1>4 DEF StagingInv, Fitting, Aligned
  <1>5. CASE /\ s.data # <<>>
             /\ \E r \in Region(s) : (s.addr - r.lo) % Width = 0
             /\ \E r \in Region(s) :
                  staged' = [staged EXCEPT ![r.index + 1] = AddSegment(@, s.addr - r.lo, s.data)]
    <2>3. PICK i \in DOMAIN areas :
             /\ s.addr \in Base(i)..Top(i) /\ s.addr - Base(i) \in Nat
             /\ (s.addr - Base(i)) % Width = 0
             /\ s.addr - Base(i) + Len(s.data) - 1 < Size(areas[i])
             /\ staged' = [staged EXCEPT ![i] = AddSegment(@, s.addr - Base(i), s.data)]
      BY <1>1, <1>5, StagesOne DEF StagingInv
    <2> HIDE DEF s
    <2> DEFINE o == s.addr - Base(i)
               new == AddSegment(staged[i], o, s.data)
    <2>6. o \in Nat /\ o % Width = 0 /\ o + Len(s.data) - 1 < Size(areas[i])
      BY <2>3
    <2>7. areas[i] \in Candidates /\ s.data \in Seq(Nat) /\ Fitting(staged[i], areas[i])
      BY <1>1, HeaderFacts, AreaFacts DEF StagingInv
    <2> HIDE DEF o
    <2>8. Fitting(new, areas[i])
      BY <1>5, <2>6, <2>7, AddedFits
    <2>9. staged' = [staged EXCEPT ![i] = new]
      BY <2>3 DEF o
    <2> HIDE DEF new
    <2>10. new \in SUBSET Segment
      BY <2>8 DEF Fitting, RangedMap
    <2>11. /\ staged' \in Seq(SUBSET Segment) /\ DOMAIN staged' = DOMAIN areas
           /\ \A k \in DOMAIN areas : staged'[k] = IF k = i THEN new ELSE staged[k]
      BY <2>9, <2>10 DEF StagingInv
    <2>12. \A k \in DOMAIN areas : Fitting(staged'[k], areas[k])
      BY <2>8, <2>11 DEF StagingInv
    <2>13. QED
      BY <1>1, <1>2, <1>3, <2>11, <2>12 DEF StagingInv, Fitting, Aligned
  <1>6. QED
    BY <1>4, <1>5 DEF StageSegment

LEMMA RegisterKeepsStaging ==
    ASSUME StagingInv, NEW a \in Candidates, Register(a)
    PROVE  StagingInv'
  <1>1. RegistryInv'
    BY RegisterKeepsRegistry DEF StagingInv
  <1>2. UNCHANGED <<loads, segs>>
    BY DEF Register
  <1>3. CASE UNCHANGED <<areas, staged>>
    BY <1>1, <1>2, <1>3 DEF StagingInv, Fitting, Aligned
  <1>4. CASE areas' = Append(areas, a) /\ staged' = Append(staged, {})
    <2>1. /\ areas \in Seq(Candidates) /\ staged \in Seq(SUBSET Segment) /\ Len(staged) = Len(areas)
      BY DEF StagingInv, RegistryInv
    <2> PICK new \in Nat : new = Len(areas) + 1
      BY <2>1
    <2>2. /\ DOMAIN areas' = DOMAIN areas \cup {new} /\ new \notin DOMAIN areas
          /\ \A i \in DOMAIN areas : areas'[i] = areas[i]
      BY <1>4, <2>1
    <2>3. /\ staged' \in Seq(SUBSET Segment) /\ DOMAIN staged' = DOMAIN staged \cup {new}
          /\ staged'[new] = {} /\ \A i \in DOMAIN staged : staged'[i] = staged[i]
      BY <1>4, <2>1
    <2>4. DOMAIN staged = DOMAIN areas
      BY DEF StagingInv
    <2>5. \A i \in DOMAIN areas' : Fitting(staged'[i], areas'[i])
      BY <2>2, <2>3, <2>4, NothingFits DEF StagingInv
    <2>6. QED
      BY <1>1, <1>2, <2>2, <2>3, <2>4, <2>5 DEF StagingInv, Fitting, Aligned
  <1>5. QED
    BY <1>3, <1>4 DEF Register

LEMMA CollectKeepsLoads ==
    ASSUME loads \in Seq(Load), CommandLine
    PROVE  loads' \in Seq(Load)
  <1>1. ASSUME NEW n \in Names, NEW f \in Files, InitOption(n, f) PROVE loads' \in Seq(Load)
    <2>1. [name |-> n, file |-> f, type |-> Detected(f)] \in Load
      BY DEF Load, Detected, Types
    <2>2. QED
      BY <1>1, <2>1 DEF InitOption, Collect
  <1>2. ASSUME NEW f \in Files, ElfOption(f) PROVE loads' \in Seq(Load)
    <2>1. [name |-> "", file |-> f, type |-> "elf"] \in Load
      BY DEF Load, Types
    <2>2. PICK l \in Load : loads' = Append(loads, l)
      BY <1>2, <2>1 DEF ElfOption, Collect
    <2>3. QED
      BY <2>2
  <1>3. ASSUME NEW n \in Names, NEW f \in Files, NEW t, MemOption(n, f, t)
        PROVE  loads' \in Seq(Load)
    <2> DEFINE type == IF t = "" THEN Detected(f) ELSE t
    <2>1. type \in Types => [name |-> n, file |-> f, type |-> type] \in Load
      BY DEF Load
    <2>2. \/ type \in Types /\ loads' = Append(loads, [name |-> n, file |-> f, type |-> type])
          \/ UNCHANGED loads
      BY <1>3 DEF MemOption, Collect, Return
    <2>3. \A l \in Load : Append(loads, l) \in Seq(Load)
      OBVIOUS
    <2>4. CASE UNCHANGED loads
      BY <2>4
    <2>5. CASE type \in Types /\ loads' = Append(loads, [name |-> n, file |-> f, type |-> type])
      <3> HIDE DEF type
      <3>1. QED
        BY <2>1, <2>3, <2>5
    <2>6. QED
      BY <2>2, <2>4, <2>5
  <1>4. ASSUME NEW how, LeaveOption(how) PROVE loads' \in Seq(Load)
    BY <1>4 DEF LeaveOption, Return
  <1>5. QED
    BY <1>1, <1>2, <1>3, <1>4 DEF CommandLine

LEMMA StagingStep ==
    ASSUME StagingInv, [Next]_vars
    PROVE  StagingInv'
  <1>1. RegistryInv'
    BY RegistryStep DEF StagingInv
  <1>2. CASE \E a \in Candidates : Register(a)
    BY <1>2, RegisterKeepsStaging
  <1>3. CASE StageSegment
    BY <1>3, StageSegmentFits
  <1>4. CASE UNCHANGED <<areas, staged>> /\ loads' \in Seq(Load) /\ segs' \in Seq(Header)
    BY <1>1, <1>4 DEF StagingInv, Fitting, Aligned
  <1>5. CASE CommandLine
    <2>1. UNCHANGED <<areas, staged, segs>>
      BY <1>5 DEF CommandLine, InitOption, ElfOption, MemOption, LeaveOption, Collect, Return,
                  registry, loading
    <2>2. QED
      BY <1>4, <1>5, <2>1, CollectKeepsLoads DEF StagingInv
  <1>6. CASE ElfLoad
    <2>1. /\ UNCHANGED <<areas, loads>> /\ staged' = [i \in DOMAIN areas |-> {}]
          /\ segs' = Current.file.segs \/ segs' = segs
          /\ Current.file.class = "elf" \/ segs' = segs
      BY <1>6 DEF ElfLoad, registry
    <2>2. segs' \in Seq(Header)
      <3>1. Current.file \in Files
        BY <1>6, CurrentFacts DEF ElfLoad, Performing, StagingInv
      <3>2. QED
        BY <2>1, <3>1, FileFacts DEF StagingInv
    <2>3. /\ staged' \in Seq(SUBSET Segment) /\ DOMAIN staged' = DOMAIN areas
          /\ \A i \in DOMAIN areas : staged'[i] = {}
      <3>1. DOMAIN areas = 1..Len(areas) /\ Len(areas) \in Nat
        BY DEF StagingInv, RegistryInv
      <3>2. QED
        BY <2>1, <3>1
    <2>4. QED
      BY <1>1, <2>1, <2>2, <2>3, NothingFits DEF StagingInv, Fitting, Aligned
  <1>7. CASE \/ Begin \/ Finish \/ NamedElf \/ NamedVmem \/ NamedRefused
             \/ AllStaged \/ WriteSegment \/ AllWritten
    <2>1. UNCHANGED <<areas, staged, segs>> /\ (loads' = loads \/ (loads # <<>> /\ loads' = Tail(loads)))
      <3>1. AllWritten => UNCHANGED <<areas, staged, segs>> /\ loads' = Tail(loads)
        BY DEF AllWritten, registry
      <3>2. Tail(<<>>) = <<>> 
        OBVIOUS
      <3>3. QED
        BY <1>7, <3>1, <3>2 DEF Begin, Finish, NamedElf, NamedVmem, NamedRefused, AllStaged, WriteSegment,
                  Return, registry, loading, Performing
    <2>2. loads' \in Seq(Load) /\ segs' \in Seq(Header)
      BY <2>1, CurrentFacts DEF StagingInv
    <2>3. QED
      BY <1>4, <2>1, <2>2
  <1>8. CASE UNCHANGED vars
    BY <1>4, <1>8 DEF vars, StagingInv
  <1>9. QED
    BY <1>2, <1>3, <1>5, <1>6, <1>7, <1>8 DEF Next, Loading

LEMMA StagingInit == Init => StagingInv
  BY DEF Init, StagingInv, RegistryInv

LEMMA StagingFits == StagingInv => StagedFits
  <1> SUFFICES ASSUME StagingInv, NEW i \in DOMAIN areas, NEW s \in staged[i]
               PROVE  /\ s.lo % Width = 0
                      /\ s.lo \div Width + Words(s.data) <= areas[i].words
                      /\ \A t \in staged[i] \ {s} : Hi(s) < t.lo \/ Hi(t) < s.lo
    BY DEF StagedFits
  <1>1. Fitting(staged[i], areas[i]) /\ areas[i] \in Candidates
    BY AreaFacts DEF StagingInv
  <1>2. QED
    BY <1>1, FittingFits DEF Fitting, RangedMap, Disjoint

(* What StageElf stages for an area, segment after segment and merged      *)
(* where segments overlap, fits into it word by word and never shares a    *)
(* word, for every set of files, areas and word size: the assertion of     *)
(* MemArea::Write cannot fail for a load by address.                       *)
THEOREM StagedAlwaysFits == Spec => []StagedFits
  <1>1. QED
    BY StagingInit, StagingStep, StagingFits, PTL DEF Spec
----------------------------------------------------------------------------
(***************************************************************************)
(* The bytes of a file: what its first k program headers say of an address.*)
(***************************************************************************)
Says(fs, k, x, b) ==
    \E j \in 1..k : /\ Covers(fs[j], x) /\ b = fs[j].data[x - fs[j].addr + 1]
                    /\ \A l \in 1..k : Covers(fs[l], x) => l <= j

NextSays(fs, k, x, b) ==
    Says(fs, k + 1, x, b) <=> IF Covers(fs[k + 1], x) THEN b = fs[k + 1].data[x - fs[k + 1].addr + 1]
                              ELSE Says(fs, k, x, b)

LEMMA SaysNext ==
    ASSUME NEW fs, NEW k \in Nat, NEW x, NEW b
    PROVE  NextSays(fs, k, x, b)
  <1>1. 1..(k + 1) = (1..k) \cup {k + 1} /\ \A l \in 1..k : l <= k + 1 /\ ~(k + 1 <= l)
    OBVIOUS
  <1>2. CASE Covers(fs[k + 1], x)
    <2>1. k + 1 \in 1..(k + 1) /\ \A l \in 1..(k + 1) : l <= k + 1
      OBVIOUS
    <2>2. ASSUME NEW j \in 1..(k + 1), \A l \in 1..(k + 1) : Covers(fs[l], x) => l <= j PROVE j = k + 1
      BY <1>2, <2>2
    <2>3. QED
      BY <1>2, <2>1, <2>2 DEF Says, NextSays
  <1>3. CASE ~Covers(fs[k + 1], x)
    BY <1>1, <1>3 DEF Says, NextSays
  <1>4. QED
    BY <1>2, <1>3 DEF NextSays

LEMMA SaysNothing == \A fs, x, b : ~Says(fs, 0, x, b)
  BY DEF Says

LEMMA ByteAtIsSaid ==
    ASSUME NEW f, f.segs \in Seq(Header), NEW x
    PROVE  /\ \A b : b \in ByteAt(f, x) <=> Says(f.segs, Len(f.segs), x, b)
           /\ \A b \in ByteAt(f, x) : ByteAt(f, x) = {b} /\ (CHOOSE c \in ByteAt(f, x) : TRUE) = b
  <1> DEFINE n == Len(f.segs)
             hits == {i \in DOMAIN f.segs : Covers(f.segs[i], x)}
             top == Max(hits)
  <1>1. n \in Nat /\ DOMAIN f.segs = 1..n
    OBVIOUS
  <1>2. ByteAt(f, x) = IF hits = {} THEN {} ELSE {f.segs[top].data[x - f.segs[top].addr + 1]}
    BY DEF ByteAt
  <1>3. CASE hits = {}
    <2>1. \A b : ~Says(f.segs, n, x, b)
      BY <1>1, <1>3 DEF Says
    <2>2. QED
      BY <1>2, <1>3, <2>1
  <1>4. CASE hits # {}
    <2>1. hits \subseteq 0..n
      BY <1>1
    <2>2. PICK m \in hits : \A k \in hits : k <= m
      <3> HIDE DEF hits, n
      <3>1. QED
        BY <1>1, <1>4, <2>1, Largest
    <2>3. top \in hits /\ \A k \in hits : k <= top
      <3>1. \E t \in hits : \A k \in hits : t >= k
        BY <2>1, <2>2
      <3> HIDE DEF hits
      <3>2. top = CHOOSE t \in hits : \A k \in hits : t >= k
        BY DEF Max
      <3>3. top \in hits /\ \A k \in hits : top >= k
        BY <3>1, <3>2
      <3>4. QED
        BY <2>1, <3>3
    <2>4. ASSUME NEW b PROVE Says(f.segs, n, x, b) <=> b = f.segs[top].data[x - f.segs[top].addr + 1]
      <3>1. top \in 1..n /\ Covers(f.segs[top], x) /\ \A l \in 1..n : Covers(f.segs[l], x) => l <= top
        BY <1>1, <2>3
      <3>2. ASSUME NEW j \in 1..n, Covers(f.segs[j], x), \A l \in 1..n : Covers(f.segs[l], x) => l <= j
            PROVE  j = top
        <4> HIDE DEF top, hits, n
        <4>1. QED
          BY <1>1, <3>1, <3>2
      <3> HIDE DEF top, hits, n
      <3>3. QED
        BY <3>1, <3>2 DEF Says
    <2>5. QED
      BY <1>2, <1>4, <2>4
  <1>5. QED
    BY <1>3, <1>4

LEMMA CoversFacts ==
    ASSUME NEW s \in Header, NEW x \in Nat
    PROVE  Covers(s, x) <=> s.load /\ s.addr <= x /\ x <= s.addr + Len(s.data) - 1
  BY HeaderFacts DEF Covers

(* A map holds, at an offset, what the first k headers say.                *)
Holds(map, fs, k, base) == \A x \in Nat : \A b : Reads(map, x, b) <=> Says(fs, k, base + x, b)

LEMMA Shifted ==
    ASSUME NEW a \in Nat, NEW base \in Nat, NEW x \in Nat, NEW n \in Nat, a - base \in Nat
    PROVE  /\ x \in (a - base)..(a - base + n - 1) <=> a <= base + x /\ base + x <= a + n - 1
           /\ x - (a - base) + 1 = (base + x) - a + 1
  OBVIOUS

(* The next header is inserted into the map, or has no bytes there.        *)
LEMMA HoldsNext ==
    ASSUME NEW fs, NEW k \in Nat, fs[k + 1] \in Header, NEW base \in Nat, NEW map, NEW out,
           NEW x \in Nat, NEW b, Reads(map, x, b) <=> Says(fs, k, base + x, b),
           \/ out = map /\ ~Covers(fs[k + 1], base + x)
           \/ /\ fs[k + 1].load /\ fs[k + 1].addr - base \in Nat
              /\ Inserted(out, map, [lo |-> fs[k + 1].addr - base, data |-> fs[k + 1].data])
    PROVE  Reads(out, x, b) <=> Says(fs, k + 1, base + x, b)
  <1> DEFINE s == fs[k + 1]
             new == [lo |-> s.addr - base, data |-> s.data]
  <1>1. Says(fs, k + 1, base + x, b) <=> IF Covers(s, base + x) THEN b = s.data[(base + x) - s.addr + 1]
                                         ELSE Says(fs, k, base + x, b)
    <2>1. NextSays(fs, k, base + x, b)
      BY SaysNext
    <2>2. QED
      BY <2>1 DEF NextSays
  <1>2. CASE out = map /\ ~Covers(s, base + x)
    BY <1>1, <1>2
  <1>3. CASE s.load /\ s.addr - base \in Nat /\ Inserted(out, map, new)
    <2>1. s.addr \in Nat /\ Len(s.data) \in Nat
      BY HeaderFacts
    <2>2. x \in At(new) <=> Covers(s, base + x)
      <3>1. Covers(s, base + x) <=> s.addr <= base + x /\ base + x <= s.addr + Len(s.data) - 1
        BY <1>3, CoversFacts
      <3>2. At(new) = (s.addr - base)..(s.addr - base + Len(s.data) - 1)
        BY DEF At, Hi
      <3>3. x \in (s.addr - base)..(s.addr - base + Len(s.data) - 1)
              <=> s.addr <= base + x /\ base + x <= s.addr + Len(s.data) - 1
        BY <1>3, <2>1, Shifted
      <3> HIDE DEF s, new
      <3>4. QED
        BY <3>1, <3>2, <3>3
    <2>3. Byte(new, x) = s.data[(base + x) - s.addr + 1]
      <3>1. Byte(new, x) = s.data[x - (s.addr - base) + 1]
        BY DEF Byte
      <3> HIDE DEF s, new
      <3>2. x - (s.addr - base) + 1 = (base + x) - s.addr + 1
        BY <1>3, <2>1
      <3>3. QED
        BY <3>1, <3>2
    <2>4. Reads(out, x, b) <=> IF x \in At(new) THEN Byte(new, x) = b ELSE Reads(map, x, b)
      BY <1>3 DEF Inserted
    <2> HIDE DEF s, new
    <2>5. QED
      BY <1>1, <2>2, <2>3, <2>4
  <1>4. QED
    BY <1>2, <1>3
----------------------------------------------------------------------------
(***************************************************************************)
(* A flattened file: FlattenElfFile inserts segment after segment into a   *)
(* ranged map, from the lowest address of the file.                        *)
(***************************************************************************)
Loadable(f) == {s \in LoadSegs(f) : s.data # <<>>}

LEMMA SegsFacts ==
    ASSUME NEW f \in Files, f.class = "elf"
    PROVE  /\ f.segs \in Seq(Header) /\ Len(f.segs) \in Nat
           /\ \A k \in 1..Len(f.segs) : f.segs[k] \in Header
           /\ \A k \in 1..Len(f.segs) : f.segs[k].load => f.segs[k] \in LoadSegs(f)
           /\ \A s \in LoadSegs(f) : s \in Header /\ s.load /\ \E k \in 1..Len(f.segs) : s = f.segs[k]
  BY FileFacts DEF LoadSegs

LEMMA LowFacts ==
    ASSUME NEW f \in Files, f.class = "elf", Loadable(f) # {}
    PROVE  /\ Low(f) \in Nat
           /\ \A s \in Loadable(f) : Low(f) <= s.addr
           /\ \E s \in Loadable(f) : s.addr = Low(f)
  <1> DEFINE T == {s.addr : s \in Loadable(f)}
  <1>1. T \in SUBSET Nat /\ T # {}
    BY SegsFacts, HeaderFacts DEF Loadable
  <1>2. Low(f) = Min(T)
    BY DEF Low, Loadable
  <1>3. PICK m \in T : \A k \in T : m <= k
    <2> HIDE DEF T
    <2>1. QED
      BY <1>1, Smallest
  <1>4. Low(f) \in T /\ \A k \in T : Low(f) <= k
    <2> HIDE DEF T
    <2>1. Low(f) = CHOOSE t \in T : \A k \in T : t <= k
      BY <1>2 DEF Min
    <2>2. QED
      BY <1>3, <2>1
  <1>5. QED
    BY <1>1, <1>4

Inserts(map, f, k) ==
    IF f.segs[k].load THEN AddSegment(map, f.segs[k].addr - Low(f), f.segs[k].data) ELSE map
Flattening(map, f) ==
    map = [k \in 0..Len(f.segs) |-> IF k = 0 THEN {} ELSE Inserts(map[k - 1], f, k)]

LEMMA FlattenIsLoop ==
    ASSUME NEW f
    PROVE  FlattenElf(f) = Flat((CHOOSE map : Flattening(map, f))[Len(f.segs)])
  BY DEF FlattenElf, Inserts, Flattening

LEMMA InsertsOne ==
    ASSUME NEW f \in Files, f.class = "elf", NEW k \in Nat, k < Len(f.segs), NEW map, RangedMap(map)
    PROVE  /\ RangedMap(Inserts(map, f, k + 1))
           /\ Loadable(f) = {} => Inserts(map, f, k + 1) = map
           /\ Loadable(f) # {} /\ Holds(map, f.segs, k, Low(f))
                => Holds(Inserts(map, f, k + 1), f.segs, k + 1, Low(f))
  <1> DEFINE fs == f.segs
             s == fs[k + 1]
             out == Inserts(map, f, k + 1)
  <1>1. /\ s \in Header
        /\ s.load => s \in LoadSegs(f)
    BY SegsFacts
  <1>2. CASE ~s.load \/ s.data = <<>>
    <2>1. out = map
      BY <1>2 DEF Inserts, AddSegment
    <2>2. ASSUME NEW x \in Nat PROVE ~Covers(s, x)
      <3>1. s.data = <<>> => Len(s.data) = 0
        OBVIOUS
      <3>2. QED
        BY <1>1, <1>2, <3>1, HeaderFacts, CoversFacts
    <2>3. ASSUME Loadable(f) # {}, Holds(map, fs, k, Low(f)) PROVE Holds(out, fs, k + 1, Low(f))
      <3>1. Low(f) \in Nat /\ \A x \in Nat : Low(f) + x \in Nat
        BY <2>3, LowFacts
      <3>2. ASSUME NEW x \in Nat, NEW b PROVE Reads(out, x, b) <=> Says(fs, k + 1, Low(f) + x, b)
        BY <1>1, <2>1, <2>2, <2>3, <3>1, HoldsNext DEF Holds
      <3>3. QED
        BY <3>2 DEF Holds
    <2>4. QED
      BY <2>1, <2>3
  <1>3. CASE s.load /\ s.data # <<>>
    <2>1. s \in Loadable(f)
      BY <1>1, <1>3 DEF Loadable
    <2>2. Low(f) \in Nat /\ Low(f) <= s.addr /\ s.addr \in Nat /\ s.addr < Space /\ s.data \in Seq(Nat)
          /\ Space \in Nat
      BY <1>1, <2>1, LowFacts, HeaderFacts, WidthFacts
    <2> DEFINE new == [lo |-> s.addr - Low(f), data |-> s.data]
    <2>3. new \in Segment /\ new.lo < Space /\ s.addr - Low(f) \in Nat
      BY <1>3, <2>2 DEF Segment
    <2>4. out = Emplace(map, new)
      BY <1>3 DEF Inserts, AddSegment
    <2> HIDE DEF new
    <2>5. Inserted(out, map, new)
      BY <2>3, <2>4, EmplaceInserts
    <2>6. ASSUME Holds(map, fs, k, Low(f)) PROVE Holds(out, fs, k + 1, Low(f))
      <3>1. Inserted(out, map, [lo |-> s.addr - Low(f), data |-> s.data])
        BY <2>5 DEF new
      <3>2. ASSUME NEW x \in Nat, NEW b PROVE Reads(out, x, b) <=> Says(fs, k + 1, Low(f) + x, b)
        BY <1>1, <1>3, <2>2, <2>3, <2>6, <3>1, HoldsNext DEF Holds
      <3>3. QED
        BY <3>2 DEF Holds
    <2>7. QED
      BY <2>1, <2>5, <2>6 DEF Inserted
  <1>4. QED
    BY <1>2, <1>3

LEMMA FlatteningDefined ==
    ASSUME NEW f \in Files, f.class = "elf"
    PROVE  \E map : Flattening(map, f)
  <1> DEFINE n == Len(f.segs)
             V == {m \in SUBSET Segment : RangedMap(m)}
             step == [k \in Nat |-> [m \in V |-> IF k < n THEN Inserts(m, f, k + 1) ELSE m]]
  <1>1. n \in Nat /\ {} \in V
    BY SegsFacts, NothingFits DEF Fitting
  <1>2. ASSUME NEW k \in Nat, NEW m \in V PROVE (IF k < n THEN Inserts(m, f, k + 1) ELSE m) \in V
    <2>1. CASE k < n
      <3>1. RangedMap(Inserts(m, f, k + 1))
        BY <2>1, InsertsOne
      <3>2. QED
        BY <2>1, <3>1 DEF RangedMap
    <2>2. QED
      BY <2>1
  <1>3. step \in [Nat -> [V -> V]]
    BY <1>2
  <1>4. \A k \in Nat : \A m \in V : step[k][m] = IF k < n THEN Inserts(m, f, k + 1) ELSE m
    OBVIOUS
  <1> HIDE DEF step, V
  <1>5. PICK g : Follows(g, n, V, {}, step)
    BY <1>1, <1>3, FollowsUpTo
  <1>6. ASSUME NEW k \in 0..n PROVE g[k] = IF k = 0 THEN {} ELSE Inserts(g[k - 1], f, k)
    <2>1. CASE k = 0
      BY <1>5, <2>1 DEF Follows
    <2>2. CASE k # 0
      <3>1. k - 1 \in Nat /\ k - 1 \in 0..(n - 1) /\ k - 1 \in 0..n /\ k = (k - 1) + 1 /\ k - 1 < n
        BY <1>1, <2>2
      <3>2. g[k] = step[k - 1][g[k - 1]] /\ g[k - 1] \in V
        BY <1>5, <3>1 DEF Follows
      <3>3. QED
        BY <1>4, <2>2, <3>1, <3>2
    <2>3. QED
      BY <2>1, <2>2
  <1>7. Flattening(g, f)
    BY <1>5, <1>6 DEF Flattening, Follows
  <1>8. QED
    BY <1>7

(* The map that FlattenElfFile has built at the end. *)
Whole(map, f) ==
    /\ RangedMap(map)
    /\ Loadable(f) = {} => map = {}
    /\ Loadable(f) # {} => Holds(map, f.segs, Len(f.segs), Low(f))

LEMMA FlattenedWhole ==
    ASSUME NEW f \in Files, f.class = "elf"
    PROVE  \E map : Whole(map, f) /\ FlattenElf(f) = Flat(map)
  <1> DEFINE g == CHOOSE map : Flattening(map, f)
             n == Len(f.segs)
             S == {k \in Nat : k <= n => /\ RangedMap(g[k])
                                         /\ Loadable(f) = {} => g[k] = {}
                                         /\ Loadable(f) # {} => Holds(g[k], f.segs, k, Low(f))}
  <1>1. Flattening(g, f)
    BY FlatteningDefined
  <1> HIDE DEF g
  <1>2. n \in Nat
    BY SegsFacts
  <1>3. g[0] = {} /\ \A k \in Nat : k < n => g[k + 1] = Inserts(g[k], f, k + 1)
    <2>1. 0 \in 0..n /\ \A k \in Nat : k < n => k + 1 \in 0..n /\ k + 1 # 0 /\ (k + 1) - 1 = k
      BY <1>2
    <2>2. QED
      BY <1>1, <2>1 DEF Flattening
  <1>4. 0 \in S
    <2>1. RangedMap({}) /\ \A fs, base : Holds({}, fs, 0, base)
      BY NothingFits, SaysNothing DEF Fitting, Holds, Reads
    <2>2. QED
      BY <1>3, <2>1
  <1>5. ASSUME NEW k \in Nat, k \in S PROVE k + 1 \in S
    <2>1. SUFFICES ASSUME k + 1 <= n
                   PROVE  /\ RangedMap(g[k + 1])
                          /\ Loadable(f) = {} => g[k + 1] = {}
                          /\ Loadable(f) # {} => Holds(g[k + 1], f.segs, k + 1, Low(f))
      OBVIOUS
    <2>2. k < n /\ k <= n
      BY <1>2, <2>1
    <2>3. g[k + 1] = Inserts(g[k], f, k + 1)
      BY <1>3, <2>2
    <2>4. QED
      BY <1>5, <2>2, <2>3, InsertsOne
  <1>6. n \in S
    <2> HIDE DEF S
    <2>1. QED
      BY <1>2, <1>4, <1>5, Induction
  <1>7. Whole(g[n], f)
    BY <1>2, <1>6 DEF Whole
  <1>8. FlattenElf(f) = Flat(g[n])
    BY FlattenIsLoop DEF g
  <1>9. QED
    BY <1>7, <1>8

(* GetFlat: what the map reads, up to its top, and zeros in the gaps. *)
Laid(map, d, top) ==
    /\ top \in Nat /\ d \in Seq(Nat) /\ Len(d) = top + 1
    /\ \E e \in map : Hi(e) = top
    /\ \A e \in map : Hi(e) <= top
    /\ \A o \in 0..top : \A b : Reads(map, o, b) => d[o + 1] = b
    /\ \A o \in 0..top : (\A b : ~Reads(map, o, b)) => d[o + 1] = 0

LEMMA FlatLays ==
    ASSUME NEW map, RangedMap(map), NEW n \in Nat, \A e \in map : Hi(e) <= n,
           \E e \in map : e.lo = 0
    PROVE  \E top : Laid(map, Flat(map), top)
  <1>1. \A e \in map : e \in Segment /\ e.lo \in Nat /\ Hi(e) \in Nat /\ e.lo <= Hi(e)
    BY SegmentFacts DEF RangedMap
  <1> DEFINE L == {e.lo : e \in map}
             H == {Hi(e) : e \in map}
             low == Min(L)
             top == Max(H)
  <1>2. low = 0
    <2>1. 0 \in L /\ L \subseteq Nat
      BY <1>1
    <2> HIDE DEF L
    <2>2. low = CHOOSE t \in L : \A k \in L : t <= k
      BY DEF Min
    <2>3. \A k \in L : 0 <= k
      BY <2>1
    <2> HIDE DEF low
    <2>4. low \in L /\ \A k \in L : low <= k
      BY <2>1, <2>2, <2>3
    <2>5. QED
      BY <2>1, <2>4
  <1>3. top \in H /\ top \in Nat /\ \A k \in H : k <= top
    <2>1. H \in SUBSET (0..n) /\ H # {}
      BY <1>1
    <2> HIDE DEF H
    <2>2. PICK m \in H : \A k \in H : k <= m
      BY <2>1, Largest
    <2>3. top = CHOOSE t \in H : \A k \in H : t >= k
      BY DEF Max
    <2>4. \A k \in H : m >= k
      BY <2>1, <2>2
    <2> HIDE DEF top
    <2>5. top \in H /\ \A k \in H : top >= k
      BY <2>3, <2>4
    <2>6. QED
      BY <2>1, <2>5
  <1> DEFINE at(i) == {e \in map : low + i - 1 \in e.lo..Hi(e)}
             val(i) == IF at(i) = {} THEN 0
                       ELSE (CHOOSE e \in at(i) : TRUE).data[low + i - (CHOOSE e \in at(i) : TRUE).lo]
  <1>4. Flat(map) = [i \in 1..(top - low + 1) |-> val(i)]
    BY DEF Flat
  <1> HIDE DEF low, top
  <1>5. ASSUME NEW i \in 1..(top + 1)
        PROVE  /\ val(i) \in Nat
               /\ \A b : Reads(map, i - 1, b) => val(i) = b
               /\ (\A b : ~Reads(map, i - 1, b)) => val(i) = 0
    <2>1. i \in Nat /\ i - 1 \in Nat /\ low + i - 1 = i - 1
      BY <1>2, <1>3
    <2>2. at(i) = {e \in map : i - 1 \in At(e)}
      BY <2>1 DEF At
    <2>3. CASE at(i) = {}
      BY <2>2, <2>3 DEF Reads
    <2>4. CASE at(i) # {}
      <3> DEFINE e == CHOOSE c \in at(i) : TRUE
      <3>1. e \in map /\ i - 1 \in At(e)
        BY <2>2, <2>4
      <3>2. val(i) = e.data[low + i - e.lo]
        BY <2>4
      <3> HIDE DEF e, at
      <3>3. low + i - e.lo = i - 1 - e.lo + 1 /\ low + i - e.lo = (i - 1) - e.lo + 1
        BY <1>1, <1>2, <2>1, <3>1
      <3>4. val(i) = Byte(e, i - 1)
        BY <3>2, <3>3 DEF Byte
      <3> HIDE DEF val
      <3>5. Byte(e, i - 1) \in Nat
        BY <1>1, <3>1, SegmentFacts
      <3>6. Reads(map, i - 1, Byte(e, i - 1))
        BY <3>1 DEF Reads
      <3>7. ASSUME NEW b, Reads(map, i - 1, b) PROVE b = Byte(e, i - 1)
        BY <3>1, <3>7, OneEntry DEF Reads
      <3>8. QED
        BY <3>4, <3>5, <3>6, <3>7
    <2>5. QED
      BY <2>3, <2>4
  <1> HIDE DEF val
  <1>6. Flat(map) = [i \in 1..(top + 1) |-> val(i)]
    BY <1>2, <1>3, <1>4
  <1>7. Flat(map) \in Seq(Nat) /\ Len(Flat(map)) = top + 1
    BY <1>3, <1>5, <1>6
  <1>8. ASSUME NEW o \in 0..top
        PROVE  /\ \A b : Reads(map, o, b) => Flat(map)[o + 1] = b
               /\ (\A b : ~Reads(map, o, b)) => Flat(map)[o + 1] = 0
    <2>1. o + 1 \in 1..(top + 1) /\ (o + 1) - 1 = o
      BY <1>3
    <2>2. Flat(map)[o + 1] = val(o + 1)
      BY <1>6, <2>1
    <2>3. QED
      BY <1>5, <2>1, <2>2
  <1>9. (\E e \in map : Hi(e) = top) /\ \A e \in map : Hi(e) <= top
    BY <1>3
  <1>10. QED
    BY <1>3, <1>7, <1>8, <1>9 DEF Laid
----------------------------------------------------------------------------
(***************************************************************************)
(* What an area should hold after a load.                                  *)
(***************************************************************************)
Near(f, base, o) == \E y \in Nat : Floor(o) <= y /\ y < Floor(o) + Width /\ ByteAt(f, base + y) # {}
Above(f, base, o, z) == \E p \in 0..(z - 1) : p > o /\ ByteAt(f, base + p) # {}

LEMMA NearIsTouch ==
    ASSUME NEW f, NEW base \in Nat, NEW o \in Nat
    PROVE  TouchesWord(f, base + (o - (o % Width))) <=> Near(f, base, o)
  <1> PICK w \in Nat : w = Floor(o)
    BY FloorFacts
  <1>1. ASSUME NEW x \in (base + w)..(base + w + (Width - 1)), ByteAt(f, x) # {}
        PROVE  Near(f, base, o)
    <2>1. x - base \in Nat /\ w <= x - base /\ x - base < w + Width /\ base + (x - base) = x
      BY WidthFacts
    <2>2. QED
      BY <1>1, <2>1 DEF Near
  <1>2. ASSUME NEW y \in Nat, w <= y, y < w + Width, ByteAt(f, base + y) # {}
        PROVE  \E x \in (base + w)..(base + w + (Width - 1)) : ByteAt(f, x) # {}
    <2>1. base + y \in (base + w)..(base + w + (Width - 1))
      BY <1>2, WidthFacts
    <2>2. QED
      BY <1>2, <2>1
  <1>3. TouchesWord(f, base + w) <=> \E x \in (base + w)..(base + w + (Width - 1)) : ByteAt(f, x) # {}
    BY DEF TouchesWord
  <1>4. QED
    BY <1>1, <1>2, <1>3 DEF Near, Floor

Imaged(v, old, f, base, dense, z, o) ==
    /\ \A b \in ByteAt(f, base + o) : v = b
    /\ ByteAt(f, base + o) = {} =>
         v = IF Near(f, base, o) \/ (dense /\ Above(f, base, o, z)) THEN 0 ELSE old

LEMMA ImageAt ==
    ASSUME NEW f, f.segs \in Seq(Header), NEW z \in Nat, NEW bytes, DOMAIN bytes = 0..(z - 1),
           NEW base \in Nat, NEW dense \in BOOLEAN, NEW o \in 0..(z - 1)
    PROVE  Imaged(Image(bytes, f, base, dense)[o], bytes[o], f, base, dense, z, o)
  <1>1. o \in Nat
    OBVIOUS
  <1>2. TouchesWord(f, base + (o - (o % Width))) <=> Near(f, base, o)
    BY <1>1, NearIsTouch
  <1>3. Image(bytes, f, base, dense)[o] =
          IF ByteAt(f, base + o) # {} THEN CHOOSE b \in ByteAt(f, base + o) : TRUE
          ELSE IF \/ TouchesWord(f, base + (o - (o % Width)))
                  \/ dense /\ \E p \in DOMAIN bytes : p > o /\ ByteAt(f, base + p) # {}
               THEN 0 ELSE bytes[o]
    BY DEF Image
  <1>4. ASSUME NEW b \in ByteAt(f, base + o) PROVE Image(bytes, f, base, dense)[o] = b
    <2>1. (CHOOSE c \in ByteAt(f, base + o) : TRUE) = b
      BY ByteAtIsSaid
    <2>2. QED
      BY <1>3, <2>1
  <1>5. (\E p \in DOMAIN bytes : p > o /\ ByteAt(f, base + p) # {}) <=> Above(f, base, o, z)
    BY DEF Above
  <1>6. ASSUME ByteAt(f, base + o) = {}
        PROVE  Image(bytes, f, base, dense)[o] =
                 IF Near(f, base, o) \/ (dense /\ Above(f, base, o, z)) THEN 0 ELSE bytes[o]
    BY <1>2, <1>3, <1>5, <1>6
  <1>7. QED
    BY <1>4, <1>6 DEF Imaged

(* What MemArea::Write leaves at an offset. *)
Overwritten(v, old, lo, n, data, o) ==
    v = IF o < lo \/ lo + n <= o THEN old
        ELSE IF o < lo + Len(data) THEN data[o - lo + 1] ELSE 0

LEMMA WrittenAt ==
    ASSUME NEW z \in Nat, NEW bytes, DOMAIN bytes = 0..(z - 1), NEW word \in Nat,
           NEW data \in Seq(Nat), NEW o \in 0..(z - 1)
    PROVE  Overwritten(Written(bytes, word, data)[o], bytes[o], word * Width, Words(data) * Width, data, o)
  <1> PICK lo \in Nat : lo = word * Width
    BY WidthFacts
  <1> DEFINE n == Words(data)
  <1>1. n \in Nat /\ n * Width \in Nat
    BY WordsRoundUp
  <1>2. Written(bytes, word, data)[o] =
          IF o \notin (word * Width)..((word + n) * Width - 1) THEN bytes[o]
          ELSE IF o < word * Width + Len(data) THEN data[o - word * Width + 1] ELSE 0
    BY DEF Written
  <1> HIDE DEF n
  <1>3. (word + n) * Width = lo + n * Width
    BY <1>1, WidthFacts
  <1>4. o \in lo..(lo + n * Width - 1) <=> ~(o < lo \/ lo + n * Width <= o)
    <2> PICK m \in Nat : m = n * Width
      BY <1>1
    <2>1. QED
      OBVIOUS
  <1>5. (word * Width)..((word + n) * Width - 1) = lo..(lo + n * Width - 1)
    <2> DEFINE p == (word + n) * Width
               q == lo + n * Width
    <2>1. p = q /\ p - 1 = q - 1 /\ q - 1 = lo + n * Width - 1
      <3>1. q \in Int /\ n * Width \in Nat /\ lo + n * Width - 1 = q - 1
        BY <1>1
      <3>2. QED
        BY <1>3, <3>1
    <2> HIDE DEF p
    <2>2. (word * Width)..(p - 1) = lo..(lo + n * Width - 1)
      BY <2>1, Zenon
    <2>3. QED
      BY <2>2 DEF p
  <1>6. Written(bytes, word, data)[o] =
          IF o \notin lo..(lo + n * Width - 1) THEN bytes[o]
          ELSE IF o < lo + Len(data) THEN data[o - lo + 1] ELSE 0
    BY <1>2, <1>5
  <1>7. QED
    BY <1>4, <1>6 DEF n, Overwritten

Agrees(map, f, base, z) == \A x \in Nat : \A b : x < z => (Reads(map, x, b) <=> b \in ByteAt(f, base + x))

LEMMA SaysSome ==
    ASSUME NEW fs, NEW n \in Nat, NEW x, NEW j \in 1..n, Covers(fs[j], x)
    PROVE  \E b : Says(fs, n, x, b)
  <1> DEFINE T == {k \in 1..n : Covers(fs[k], x)}
  <1>1. T \in SUBSET (0..n) /\ T # {}
    OBVIOUS
  <1>2. PICK m \in T : \A k \in T : k <= m
    <2> HIDE DEF T
    <2>1. QED
      BY <1>1, Largest
  <1>3. QED
    BY <1>2 DEF Says

(* What a flattened file, not empty and not refused, looks like. *)
LEMMA FlattenedLaid ==
    ASSUME NEW f \in Files, Flattens(f), FlattenElf(f) # <<>>
    PROVE  /\ Low(f) \in Nat
           /\ \E map, top : /\ RangedMap(map) /\ Laid(map, FlattenElf(f), top)
                            /\ \A x \in Nat : \A b : Reads(map, x, b) <=> b \in ByteAt(f, Low(f) + x)
  <1> DEFINE L == Low(f)
             fs == f.segs
             n == Len(fs)
  <1>1. f.class = "elf" /\ \A s \in LoadSegs(f) : ~Overflows(s)
    BY DEF Flattens
  <1>2. PICK map : Whole(map, f) /\ FlattenElf(f) = Flat(map)
    BY <1>1, FlattenedWhole
  <1>3. map # {}
    BY <1>2 DEF Flat
  <1>4. Loadable(f) # {} /\ RangedMap(map) /\ Holds(map, fs, n, L)
    BY <1>2, <1>3 DEF Whole
  <1>5. L \in Nat /\ \E s \in Loadable(f) : s.addr = L
    BY <1>1, <1>4, LowFacts
  <1> HIDE DEF L
  <1>6. fs \in Seq(Header) /\ n \in Nat /\ \A k \in 1..n : fs[k] \in Header
    BY <1>1, SegsFacts
  <1>7. \E e \in map : e.lo = 0
    <2>1. PICK s \in Loadable(f) : s.addr = L
      BY <1>5
    <2>2. PICK j \in 1..n : s = fs[j]
      BY <1>1, <2>1, SegsFacts DEF Loadable
    <2>3. s \in Header /\ s.load /\ s.data # <<>>
      BY <1>1, <2>1, SegsFacts DEF Loadable
    <2>4. Covers(fs[j], L)
      <3>1. Len(s.data) >= 1 /\ Len(s.data) \in Nat
        BY <2>3, HeaderFacts
      <3>2. QED
        BY <1>5, <2>1, <2>2, <2>3, <3>1, CoversFacts
    <2>5. PICK b : Says(fs, n, L + 0, b)
      <3>1. L + 0 = L
        BY <1>5
      <3>2. QED
        BY <1>6, <2>4, <3>1, SaysSome
    <2>6. Reads(map, 0, b)
      BY <1>4, <2>5 DEF Holds
    <2>7. PICK e \in map : 0 \in At(e)
      BY <2>6 DEF Reads
    <2>8. e.lo \in Nat
      BY <1>4, SegmentFacts DEF RangedMap
    <2>9. e.lo = 0
      BY <2>7, <2>8 DEF At
    <2>10. QED
      BY <2>9
  <1>8. ASSUME NEW e \in map PROVE Hi(e) <= Space
    <2>1. e.lo \in Nat /\ Hi(e) \in Nat /\ Hi(e) \in At(e)
      BY <1>4, SegmentFacts DEF RangedMap, At
    <2>2. Reads(map, Hi(e), Byte(e, Hi(e)))
      BY <2>1 DEF Reads
    <2>3. Says(fs, n, L + Hi(e), Byte(e, Hi(e)))
      BY <1>4, <2>1, <2>2 DEF Holds
    <2>4. PICK j \in 1..n : Covers(fs[j], L + Hi(e))
      BY <2>3 DEF Says
    <2>5. fs[j].load /\ fs[j] \in LoadSegs(f) /\ fs[j] \in Header
      BY <1>1, <1>6, <2>4, SegsFacts DEF Covers
    <2>6. L + Hi(e) <= fs[j].addr + Len(fs[j].data) - 1
      BY <1>5, <2>1, <2>4, <2>5, CoversFacts
    <2>7. ~(fs[j].addr + Len(fs[j].data) > Space)
      BY <1>1, <2>5 DEF Overflows
    <2>8. fs[j].addr \in Nat /\ Len(fs[j].data) \in Nat /\ Space \in Nat
      BY <2>5, HeaderFacts, WidthFacts
    <2> HIDE DEF fs
    <2>9. QED
      BY <1>5, <2>1, <2>6, <2>7, <2>8
  <1>9. PICK top : Laid(map, Flat(map), top)
    BY <1>4, <1>7, <1>8, FlatLays, WidthFacts
  <1>10. ASSUME NEW x \in Nat, NEW b PROVE Reads(map, x, b) <=> b \in ByteAt(f, L + x)
    BY <1>4, <1>6, ByteAtIsSaid DEF Holds
  <1>11. QED
    BY <1>2, <1>4, <1>5, <1>9, <1>10 DEF L

LEMMA WordsOfNothing == Words(<<>>) = 0
  <1> DEFINE n == Words(<<>>)
  <1>1. n \in Nat /\ n * Width < Width
    <2>1. <<>> \in Seq(Nat) /\ Len(<<>>) = 0
      OBVIOUS
    <2>2. n \in Nat /\ n * Width < 0 + Width
      BY <2>1, WordsRoundUp
    <2>3. QED
      BY <2>2, WidthFacts
  <1> HIDE DEF n
  <1>2. Width * n < Width * 0 + Width
    BY <1>1, WidthFacts
  <1>3. n <= 0
    BY <1>1, <1>2, NextMultiple, WidthFacts
  <1>4. QED
    BY <1>1, <1>3 DEF n

LEMMA WroteNothing ==
    ASSUME NEW z \in Nat, NEW bytes \in [0..(z - 1) -> Nat]
    PROVE  Written(bytes, 0, <<>>) = bytes
  <1>1. ASSUME NEW o \in 0..(z - 1) PROVE Written(bytes, 0, <<>>)[o] = bytes[o]
    <2>1. 0 \in Nat /\ 0 * Width = 0 /\ <<>> \in Seq(Nat) /\ DOMAIN bytes = 0..(z - 1)
      BY WidthFacts
    <2>2. Overwritten(Written(bytes, 0, <<>>)[o], bytes[o], 0 * Width, Words(<<>>) * Width, <<>>, o)
      BY <2>1, WrittenAt
    <2>3. 0 * Width + Words(<<>>) * Width <= o
      BY <2>1, WordsOfNothing
    <2>4. QED
      BY <2>2, <2>3 DEF Overwritten
  <1>2. DOMAIN Written(bytes, 0, <<>>) = 0..(z - 1)
        /\ Written(bytes, 0, <<>>) = [o \in 0..(z - 1) |-> Written(bytes, 0, <<>>)[o]]
    BY DEF Written
  <1>3. QED
    BY <1>1, <1>2
LEMMA DenseImage ==
    ASSUME NEW f \in Files, Flattens(f), FlattenElf(f) # <<>>,
           NEW z \in Nat, NEW bytes \in [0..(z - 1) -> Nat], Words(FlattenElf(f)) * Width <= z
    PROVE  Written(bytes, 0, FlattenElf(f)) = Image(bytes, f, Low(f), TRUE)
  <1> DEFINE L == Low(f)
             data == FlattenElf(f)
             out == Written(bytes, 0, data)
             want == Image(bytes, f, L, TRUE)
  <1>1. L \in Nat
    BY FlattenedLaid
  <1>2. PICK map, top : /\ RangedMap(map) /\ Laid(map, data, top)
                        /\ \A x \in Nat : \A b : Reads(map, x, b) <=> b \in ByteAt(f, L + x)
    BY FlattenedLaid
  <1>3. f.segs \in Seq(Header)
    BY SegsFacts DEF Flattens
  <1>4. top \in Nat /\ data \in Seq(Nat) /\ Len(data) = top + 1
    BY <1>2 DEF Laid
  <1>5. PICK m \in Nat : /\ m = Words(data) * Width /\ Multiple(m) /\ m <= z
                         /\ top + 1 <= m /\ m < top + 1 + Width
    BY <1>4, WordsRoundUp
  <1>6. DOMAIN bytes = 0..(z - 1) /\ DOMAIN out = 0..(z - 1) /\ DOMAIN want = 0..(z - 1)
    BY DEF Written, Image
  <1>7. \A e \in map : e.lo \in Nat /\ Hi(e) \in Nat /\ e.lo <= Hi(e) /\ Hi(e) <= top
    BY <1>2, SegmentFacts DEF RangedMap, Laid
  <1>8. ASSUME NEW x \in Nat, ByteAt(f, L + x) # {} PROVE x <= top
    <2>1. PICK b : Reads(map, x, b)
      BY <1>2, <1>8
    <2>2. PICK e \in map : x \in At(e)
      BY <2>1 DEF Reads
    <2>3. QED
      BY <1>4, <1>7, <2>2 DEF At
  <1>9. ByteAt(f, L + top) # {}
    <2>1. PICK e \in map : Hi(e) = top
      BY <1>2 DEF Laid
    <2>2. top \in At(e)
      BY <1>4, <1>7, <2>1 DEF At
    <2>3. Reads(map, top, Byte(e, top))
      BY <2>2 DEF Reads
    <2>4. QED
      BY <1>2, <1>4, <2>3
  <1>10. ASSUME NEW o \in 0..(z - 1)
         PROVE  out[o] = want[o]
    <2>0. o \in Nat /\ o < z
      OBVIOUS
    <2>1. o \in Nat /\ Floor(o) \in Nat /\ Multiple(Floor(o)) /\ Floor(o) <= o /\ o < Floor(o) + Width
      BY <2>0, FloorFacts
    <2>2. out[o] = IF m <= o THEN bytes[o] ELSE IF o < top + 1 THEN data[o + 1] ELSE 0
      <3>1. Overwritten(out[o], bytes[o], 0 * Width, Words(data) * Width, data, o)
        BY <1>4, <1>6, WrittenAt
      <3>2. 0 * Width = 0 /\ Words(data) * Width = m
        BY <1>5, WidthFacts
      <3> HIDE DEF out, data
      <3>3. Overwritten(out[o], bytes[o], 0, m, data, o)
        BY <3>1, <3>2
      <3>4. o - 0 + 1 = o + 1 /\ ~(o < 0) /\ 0 + m = m /\ 0 + Len(data) = top + 1
        BY <1>4, <1>5, <2>0
      <3>5. QED
        BY <3>3, <3>4 DEF Overwritten
    <2>3. /\ \A b \in ByteAt(f, L + o) : want[o] = b
          /\ ByteAt(f, L + o) = {} =>
               want[o] = IF Near(f, L, o) \/ (TRUE /\ Above(f, L, o, z)) THEN 0 ELSE bytes[o]
      <3>1. Imaged(want[o], bytes[o], f, L, TRUE, z, o)
        <4> HIDE DEF L
        <4>1. QED
          BY <1>1, <1>3, <1>6, ImageAt
      <3> HIDE DEF want, L
      <3>2. QED
        BY <3>1 DEF Imaged
    <2> HIDE DEF out, want, data, L
    <2>4. CASE ByteAt(f, L + o) # {}
      <3>1. PICK b : b \in ByteAt(f, L + o)
        BY <2>4
      <3>2. o <= top /\ Reads(map, o, b)
        BY <1>2, <1>8, <2>1, <3>1
      <3>3. data[o + 1] = b
        BY <1>2, <1>4, <2>1, <3>2 DEF Laid
      <3>4. QED
        BY <1>4, <1>5, <2>1, <2>2, <2>3, <3>1, <3>2, <3>3
    <2>5. CASE ByteAt(f, L + o) = {} /\ o <= top
      <3>1. data[o + 1] = 0
        <4>1. o \in 0..top /\ \A b : ~Reads(map, o, b)
          BY <1>2, <1>4, <2>1, <2>5
        <4>2. QED
          BY <1>2, <4>1 DEF Laid
      <3>2. o # top /\ top > o /\ top \in 0..(z - 1)
        BY <1>4, <1>5, <1>9, <2>1, <2>5
      <3>3. Above(f, L, o, z)
        BY <1>9, <3>2 DEF Above
      <3>4. QED
        BY <1>4, <1>5, <2>1, <2>2, <2>3, <2>5, <3>1, <3>3
    <2>6. CASE ByteAt(f, L + o) = {} /\ top < o /\ o < m
      <3>1. Floor(o) <= top
        <4>1. Floor(o) < m /\ ~(m < Floor(o) + Width)
          BY <1>5, <2>1, <2>6, MultiplesApart
        <4>2. QED
          BY <1>4, <1>5, <2>1, <4>1, WidthFacts
      <3>2. Near(f, L, o)
        <4>1. top < Floor(o) + Width
          BY <1>4, <2>1, <2>6, WidthFacts
        <4>2. QED
          BY <1>4, <1>9, <3>1, <4>1 DEF Near
      <3>3. QED
        BY <1>4, <1>5, <2>1, <2>2, <2>3, <2>6, <3>2
    <2>7. CASE ByteAt(f, L + o) = {} /\ m <= o
      <3>1. m <= Floor(o)
        <4>1. m < Floor(o) + Width
          BY <1>5, <2>1, <2>7, WidthFacts
        <4>2. QED
          BY <1>5, <2>1, <4>1, MultiplesApart
      <3>2. ~Near(f, L, o)
        BY <1>4, <1>5, <1>8, <2>1, <3>1 DEF Near
      <3>3. ~Above(f, L, o, z)
        BY <1>4, <1>5, <1>8, <2>1, <2>7 DEF Above
      <3>4. QED
        BY <1>5, <2>2, <2>3, <2>7, <3>2, <3>3
    <2>8. QED
      BY <1>4, <1>5, <2>1, <2>4, <2>5, <2>6, <2>7
  <1>11. out = [o \in 0..(z - 1) |-> out[o]] /\ want = [o \in 0..(z - 1) |-> want[o]]
    BY DEF Written, Image
  <1>12. QED
    BY <1>10, <1>11

(* The offsets of the words that a staged segment is written to. *)
InWords(s, o) == s.lo <= o /\ o < WordTop(s)
Filled(s, o) == IF o <= Hi(s) THEN Byte(s, o) ELSE 0

LEMMA InWordsFacts ==
    ASSUME NEW s \in Segment, Aligned(s), NEW o \in Nat
    PROVE  InWords(s, o) <=> s.lo <= Floor(o) /\ Floor(o) <= Hi(s)
  <1>1. /\ s.lo \in Nat /\ Hi(s) \in Nat /\ Multiple(s.lo)
        /\ WordTop(s) \in Nat /\ Multiple(WordTop(s)) /\ Hi(s) < WordTop(s)
    BY SegmentFacts, WordTopIsNext DEF Aligned
  <1> PICK w \in Nat : w = Floor(o) /\ Multiple(w) /\ w <= o /\ o < w + Width
    BY FloorFacts
  <1>2. ASSUME InWords(s, o) PROVE s.lo <= w /\ w <= Hi(s)
    <2>1. s.lo < w + Width
      BY <1>1, <1>2, WidthFacts DEF InWords
    <2>2. s.lo <= w
      BY <1>1, <2>1, MultiplesApart
    <2>3. Hi(s) < w => WordTop(s) <= w
      BY WordTopIsNext
    <2>4. QED
      BY <1>1, <1>2, <2>2, <2>3 DEF InWords
  <1>3. ASSUME s.lo <= w, w <= Hi(s) PROVE InWords(s, o)
    <2>1. ~(WordTop(s) < w + Width)
      BY <1>1, <1>3, MultiplesApart
    <2>2. QED
      BY <1>1, <1>3, <2>1, WidthFacts DEF InWords
  <1>4. QED
    BY <1>2, <1>3

LEMMA WordsApart ==
    ASSUME NEW s \in Segment, NEW t \in Segment, Aligned(s), Aligned(t), NEW o \in Nat,
           Hi(s) < t.lo \/ Hi(t) < s.lo
    PROVE  ~(InWords(s, o) /\ InWords(t, o))
  <1>1. /\ s.lo \in Nat /\ Hi(s) \in Nat /\ t.lo \in Nat /\ Hi(t) \in Nat
        /\ WordTop(s) \in Nat /\ WordTop(t) \in Nat
    BY SegmentFacts, WordTopIsNext
  <1>2. CASE Hi(s) < t.lo
    <2>1. WordTop(s) <= t.lo
      BY <1>1, <1>2, WordTopIsNext DEF Aligned
    <2>2. QED
      BY <1>1, <2>1 DEF InWords
  <1>3. CASE Hi(t) < s.lo
    <2>1. WordTop(t) <= s.lo
      BY <1>1, <1>3, WordTopIsNext DEF Aligned
    <2>2. QED
      BY <1>1, <2>1 DEF InWords
  <1>4. QED
    BY <1>2, <1>3

(* Every segment of the map is in place, and nothing else has changed.     *)
Overlaid(out, bytes, map, z) ==
    \A o \in 0..(z - 1) :
        /\ \A s \in map : InWords(s, o) => out[o] = Filled(s, o)
        /\ (\A s \in map : ~InWords(s, o)) => out[o] = bytes[o]

(* Writing every segment of a map leaves the image of what the map holds.  *)
LEMMA SparseImage ==
    ASSUME NEW f, f.segs \in Seq(Header), NEW z \in Nat, Multiple(z), NEW base \in Nat,
           NEW map, RangedMap(map), \A s \in map : Aligned(s) /\ Hi(s) < z,
           Agrees(map, f, base, z),
           NEW bytes \in [0..(z - 1) -> Nat], NEW out \in [0..(z - 1) -> Nat],
           Overlaid(out, bytes, map, z)
    PROVE  out = Image(bytes, f, base, FALSE)
  <1> DEFINE want == Image(bytes, f, base, FALSE)
  <1>1. DOMAIN bytes = 0..(z - 1)
    OBVIOUS
  <1>2. \A s \in map : s \in Segment /\ Aligned(s) /\ s.lo \in Nat /\ Hi(s) \in Nat /\ Hi(s) < z
    BY SegmentFacts DEF RangedMap
  <1>3. ASSUME NEW o \in 0..(z - 1) PROVE out[o] = want[o]
    <2>1. o \in Nat /\ o < z
      OBVIOUS
    <2> PICK w \in Nat : w = Floor(o) /\ Multiple(w) /\ w <= o /\ o < w + Width
      BY <2>1, FloorFacts
    <2>2. /\ \A b \in ByteAt(f, base + o) : want[o] = b
          /\ ByteAt(f, base + o) = {} =>
               want[o] = IF Near(f, base, o) \/ (FALSE /\ Above(f, base, o, z)) THEN 0 ELSE bytes[o]
      <3>1. Imaged(want[o], bytes[o], f, base, FALSE, z, o)
        BY <1>1, ImageAt
      <3> HIDE DEF want
      <3>2. QED
        BY <3>1 DEF Imaged
    <2> HIDE DEF want
    <2>3. \A s \in map : InWords(s, o) <=> s.lo <= w /\ w <= Hi(s)
      BY <1>2, <2>1, InWordsFacts
    <2>4. CASE ByteAt(f, base + o) # {}
      <3>1. PICK b : b \in ByteAt(f, base + o)
        BY <2>4
      <3>2. PICK s \in map : o \in At(s) /\ Byte(s, o) = b
        BY <2>1, <3>1 DEF Agrees, Reads
      <3>3. s.lo <= o /\ o <= Hi(s)
        BY <1>2, <3>2 DEF At
      <3>4. InWords(s, o)
        BY <1>2, <2>1, <3>3, WordTopIsNext DEF InWords
      <3>5. out[o] = b
        BY <3>2, <3>3, <3>4 DEF Filled, Overlaid
      <3>6. QED
        BY <2>2, <3>1, <3>5
    <2>5. CASE ByteAt(f, base + o) = {} /\ \E s \in map : InWords(s, o)
      <3>1. PICK s \in map : InWords(s, o)
        BY <2>5
      <3>2. s.lo <= w /\ w <= Hi(s) /\ s.lo <= o
        BY <1>2, <2>1, <2>3, <3>1
      <3>3. ~(o <= Hi(s))
        <4>1. SUFFICES ASSUME o <= Hi(s) PROVE FALSE
          OBVIOUS
        <4>2. o \in At(s)
          BY <1>2, <2>1, <3>2, <4>1 DEF At
        <4>3. Reads(map, o, Byte(s, o))
          BY <4>2 DEF Reads
        <4>4. QED
          BY <2>1, <2>5, <4>3 DEF Agrees
      <3>4. out[o] = 0
        BY <3>1, <3>3 DEF Filled, Overlaid
      <3>5. Near(f, base, o)
        <4>1. Reads(map, w, Byte(s, w))
          BY <1>2, <3>2 DEF Reads, At
        <4>2. w < z /\ w < w + Width /\ w <= w
          BY <2>1, WidthFacts
        <4>3. ByteAt(f, base + w) # {}
          BY <4>1, <4>2 DEF Agrees
        <4>4. QED
          BY <4>2, <4>3 DEF Near
      <3>6. QED
        BY <2>2, <2>5, <3>4, <3>5
    <2>6. CASE ByteAt(f, base + o) = {} /\ ~\E s \in map : InWords(s, o)
      <3>1. ~Near(f, base, o)
        <4>1. SUFFICES ASSUME NEW y \in Nat, w <= y, y < w + Width, ByteAt(f, base + y) # {}
                       PROVE  FALSE
          BY DEF Near
        <4>2. y < z
          <5>1. w < z /\ ~(z < w + Width)
            BY <2>1, MultiplesApart
          <5>2. QED
            BY <4>1, <5>1, WidthFacts
        <4>3. PICK s \in map : y \in At(s)
          BY <4>1, <4>2 DEF Agrees, Reads
        <4>4. s.lo <= y /\ y <= Hi(s) /\ s.lo \in Nat /\ Hi(s) \in Nat
          BY <1>2, <4>3 DEF At
        <4>5. s.lo < w + Width /\ Multiple(s.lo)
          BY <1>2, <4>1, <4>4, WidthFacts DEF Aligned
        <4>6. s.lo <= w
          BY <4>4, <4>5, MultiplesApart
        <4>7. w <= Hi(s)
          BY <4>1, <4>4
        <4>8. QED
          BY <2>3, <2>6, <4>6, <4>7
      <3>2. out[o] = bytes[o]
        BY <2>6 DEF Overlaid
      <3>3. QED
        BY <2>2, <2>6, <3>1, <3>2
    <2>7. QED
      BY <2>4, <2>5, <2>6
  <1>4. want = [o \in 0..(z - 1) |-> want[o]] /\ out = [o \in 0..(z - 1) |-> out[o]]
    BY DEF Image
  <1>5. QED
    BY <1>3, <1>4

(* A vmem file, a whole number of words. *)
LEMMA VmemImage ==
    ASSUME NEW d \in Seq(Nat), Len(d) % Width = 0, NEW z \in Nat, NEW bytes \in [0..(z - 1) -> Nat]
    PROVE  Written(bytes, 0, d) = [o \in DOMAIN bytes |-> IF o < Len(d) THEN d[o + 1] ELSE bytes[o]]
  <1> PICK n \in Nat : n = Len(d)
    OBVIOUS
  <1>1. PICK m \in Nat : m = Words(d) * Width /\ Multiple(m) /\ n <= m /\ m < n + Width
    BY WordsRoundUp
  <1>2. m = n
    BY <1>1, MultipleFacts, MultiplesApart
  <1>3. ASSUME NEW o \in 0..(z - 1)
        PROVE  Written(bytes, 0, d)[o] = IF o < n THEN d[o + 1] ELSE bytes[o]
    <2>1. Overwritten(Written(bytes, 0, d)[o], bytes[o], 0 * Width, Words(d) * Width, d, o)
      <3>1. 0 \in Nat /\ DOMAIN bytes = 0..(z - 1)
        OBVIOUS
      <3>2. QED
        BY <3>1, WrittenAt
    <2>2. 0 * Width = 0 /\ Words(d) * Width = n
      BY <1>1, <1>2, WidthFacts
    <2>3. Overwritten(Written(bytes, 0, d)[o], bytes[o], 0, n, d, o)
      BY <2>1, <2>2
    <2>4. o - 0 + 1 = o + 1 /\ ~(o < 0) /\ 0 + n = n /\ 0 + Len(d) = n
      OBVIOUS
    <2>5. QED
      BY <2>3, <2>4 DEF Overwritten
  <1>4. Written(bytes, 0, d) = [o \in 0..(z - 1) |-> Written(bytes, 0, d)[o]]
    BY DEF Written
  <1>5. QED
    BY <1>3, <1>4
----------------------------------------------------------------------------
(***************************************************************************)
(* The memories and what they should hold.                                 *)
(***************************************************************************)
Bytes == UNION {[0..n -> Nat] : n \in Nat}
Last(i) == Size(areas[i]) - 1
Contents(s) == /\ s \in Seq(Bytes) /\ DOMAIN s = DOMAIN areas
               /\ \A i \in DOMAIN areas : s[i] \in [0..Last(i) -> Nat]

(* What is staged is what the first k headers of the file say. *)
UpTo(k) == \A i \in DOMAIN areas : \A x \in Nat : \A b :
              x < Size(areas[i]) => (Reads(staged[i], x, b) <=> Says(Current.file.segs, k, Base(i) + x, b))

StagedSome ==
    \E k \in 0..Len(Current.file.segs) :
        /\ Len(segs) = Len(Current.file.segs) - k
        /\ \A j \in 1..Len(segs) : segs[j] = Current.file.segs[k + j]
        /\ UpTo(k)

(* Segments that have been written fill their words; the rest is as it was.*)
Left(i, s) == [area |-> i, seg |-> s] \in writes
WrittenSome ==
    /\ \A w \in writes : \E i \in DOMAIN areas : \E s \in staged[i] : w = [area |-> i, seg |-> s]
    /\ \A i \in DOMAIN areas : \A o \in 0..Last(i) :
         /\ \A s \in staged[i] : InWords(s, o) /\ ~Left(i, s) => mem[i][o] = Filled(s, o)
         /\ (\A s \in staged[i] : InWords(s, o) => Left(i, s)) => mem[i][o] = image[i][o]

Settled == {"register", "parse", "load", "stage", "loaded"}

HoldInv ==
    /\ StagingInv
    /\ Contents(mem) /\ Contents(image)
    /\ phase \in Settled => mem = image
    /\ phase \in {"stage", "write"} => loads # <<>> /\ Current.file.class = "elf"
    /\ phase = "stage" => StagedSome
    /\ phase = "write" => UpTo(Len(Current.file.segs)) /\ WrittenSome

LEMMA LastFacts ==
    ASSUME RegistryInv, NEW i \in DOMAIN areas
    PROVE  /\ Last(i) \in Nat /\ Size(areas[i]) \in Nat /\ Size(areas[i]) = Last(i) + 1
           /\ Multiple(Size(areas[i])) /\ areas[i] \in Candidates
  BY AreaFacts, CandidateFacts, SizeIsMultiple DEF Last

LEMMA Replaced ==
    ASSUME RegistryInv, NEW s, Contents(s), NEW i \in DOMAIN areas, NEW v \in [0..Last(i) -> Nat]
    PROVE  /\ Contents([s EXCEPT ![i] = v])
           /\ [s EXCEPT ![i] = v][i] = v
           /\ \A j \in DOMAIN areas : j # i => [s EXCEPT ![i] = v][j] = s[j]
  <1>1. v \in Bytes
    BY LastFacts DEF Bytes
  <1>2. s \in Seq(Bytes) /\ DOMAIN s = DOMAIN areas
    BY DEF Contents
  <1>3. [s EXCEPT ![i] = v] \in Seq(Bytes) /\ DOMAIN [s EXCEPT ![i] = v] = DOMAIN areas
    BY <1>1, <1>2
  <1>4. QED
    BY <1>2, <1>3 DEF Contents

LEMMA WrittenType ==
    ASSUME NEW z \in Nat, NEW bytes \in [0..z -> Nat], NEW word \in Nat, NEW data \in Seq(Nat)
    PROVE  Written(bytes, word, data) \in [0..z -> Nat]
  <1> PICK lo \in Nat : lo = word * Width
    BY WidthFacts
  <1> PICK n \in Nat : n = Words(data) * Width
    BY WordsRoundUp
  <1>1. ASSUME NEW o \in 0..z PROVE Written(bytes, word, data)[o] \in Nat
    <2>1. z + 1 \in Nat /\ 0..((z + 1) - 1) = 0..z /\ DOMAIN bytes = 0..z
      OBVIOUS
    <2>2. Overwritten(Written(bytes, word, data)[o], bytes[o], word * Width, Words(data) * Width, data, o)
      BY <2>1, WrittenAt
    <2>3. Overwritten(Written(bytes, word, data)[o], bytes[o], lo, n, data, o)
      BY <2>2
    <2>4. bytes[o] \in Nat /\ o \in Nat
      OBVIOUS
    <2>5. ~(o < lo) /\ o < lo + Len(data) => data[o - lo + 1] \in Nat
      <3>1. ~(o < lo) /\ o < lo + Len(data) => o - lo + 1 \in 1..Len(data)
        OBVIOUS
      <3>2. \A p \in 1..Len(data) : data[p] \in Nat
        OBVIOUS
      <3>3. QED
        BY <3>1, <3>2
    <2>6. QED
      BY <2>3, <2>4, <2>5 DEF Overwritten
  <1>2. Written(bytes, word, data) = [o \in 0..z |-> Written(bytes, word, data)[o]]
    BY DEF Written
  <1>3. QED
    BY <1>1, <1>2

(* Steps that only move on. *)
LEMMA Quiet ==
    ASSUME HoldInv, StagingInv', UNCHANGED <<areas, mem, image>>,
           phase' \notin {"stage", "write"}, phase' \in Settled => phase \in Settled
    PROVE  HoldInv'
  BY DEF HoldInv, Contents, Last

LEMMA RegisterHolds ==
    ASSUME HoldInv, NEW a \in Candidates, Register(a)
    PROVE  HoldInv'
  <1>1. StagingInv'
    BY RegisterKeepsStaging DEF HoldInv
  <1>2. CASE UNCHANGED <<areas, mem, image>>
    <2>1. phase' \notin {"stage", "write"} /\ phase \in Settled
      BY DEF Register, Settled
    <2>2. QED
      BY <1>1, <1>2, <2>1, Quiet
  <1>3. CASE /\ areas' = Append(areas, a) /\ mem' = Append(mem, Fresh(a))
             /\ image' = Append(image, Fresh(a)) /\ phase' = phase
    <2>1. phase = "register" /\ mem = image /\ Contents(mem)
      BY DEF Register, HoldInv, Settled
    <2>2. Fresh(a) \in [0..(Size(a) - 1) -> Nat] /\ Fresh(a) \in Bytes
      <3>1. Size(a) - 1 \in Nat
        BY CandidateFacts
      <3>2. Fresh(a) \in [0..(Size(a) - 1) -> Nat]
        BY DEF Fresh, Unwritten
      <3>3. QED
        BY <3>1, <3>2 DEF Bytes
    <2>3. areas \in Seq(Candidates) /\ mem \in Seq(Bytes) /\ DOMAIN mem = DOMAIN areas
      BY <2>1 DEF Contents, HoldInv, StagingInv, RegistryInv
    <2> PICK new \in Nat : new = Len(areas) + 1
      BY <2>3
    <2> HIDE DEF Bytes
    <2>4. /\ DOMAIN areas' = DOMAIN areas \cup {new} /\ new \notin DOMAIN areas /\ areas'[new] = a
          /\ \A i \in DOMAIN areas : areas'[i] = areas[i]
      BY <1>3, <2>3
    <2>5. Len(mem) = Len(areas)
      BY <2>3
    <2>6. /\ mem' \in Seq(Bytes) /\ DOMAIN mem' = DOMAIN mem \cup {new} /\ mem'[new] = Fresh(a)
          /\ \A i \in DOMAIN mem : mem'[i] = mem[i]
      BY <1>3, <2>2, <2>3, <2>5
    <2>7. \A i \in DOMAIN areas' : mem'[i] \in [0..(Size(areas'[i]) - 1) -> Nat]
      BY <2>1, <2>2, <2>3, <2>4, <2>6 DEF Contents, Last
    <2>8. Contents(mem)'
      BY <2>3, <2>4, <2>6, <2>7 DEF Contents, Last
    <2>9. mem' = image'
      BY <1>3, <2>1
    <2>10. Contents(image)'
      BY <2>8, <2>9 DEF Contents, Last
    <2>11. QED
      BY <1>1, <1>3, <2>1, <2>8, <2>9, <2>10 DEF HoldInv
  <1>4. QED
    BY <1>2, <1>3 DEF Register

LEMMA CommandLineHolds ==
    ASSUME HoldInv, StagingInv', CommandLine \/ Begin \/ Finish \/ NamedRefused
    PROVE  HoldInv'
  <1>1. CASE CommandLine
    <2>1. UNCHANGED <<areas, mem, image>> /\ phase \in Settled /\ phase' \notin {"stage", "write"}
      BY <1>1 DEF CommandLine, InitOption, ElfOption, MemOption, LeaveOption, Collect, Return,
                  registry, loading, Settled
    <2>2. QED
      BY <2>1, Quiet
  <1>2. CASE Begin \/ Finish \/ NamedRefused
    <2>1. UNCHANGED <<areas, mem, image>> /\ phase \in Settled /\ phase' \notin {"stage", "write"}
      BY <1>2 DEF Begin, Finish, NamedRefused, Performing, Return, registry, loading, Settled
    <2>2. QED
      BY <2>1, Quiet
  <1>3. QED
    BY <1>1, <1>2

LEMMA TargetFacts ==
    ASSUME RegistryInv, Current.name \in DOMAIN names
    PROVE  Target \in DOMAIN areas
  <1>1. PICK i \in DOMAIN areas : areas[i].name = Current.name
    BY DEF RegistryInv
  <1>2. names[Current.name] = i - 1 /\ i \in Nat
    BY <1>1 DEF RegistryInv
  <1>3. QED
    BY <1>2 DEF Target

(* A named load leaves a memory and its image equal. *)
LEMMA NamedHolds ==
    ASSUME HoldInv, StagingInv', UNCHANGED <<areas, phase>>, phase = "load",
           NEW i \in DOMAIN areas, NEW new \in [0..Last(i) -> Nat],
           mem' = [mem EXCEPT ![i] = new], image' = [image EXCEPT ![i] = new]
    PROVE  HoldInv'
  <1>1. Contents(mem) /\ mem = image /\ RegistryInv
    BY DEF HoldInv, Settled, StagingInv
  <1>2. Contents([mem EXCEPT ![i] = new]) /\ mem' = image'
    BY <1>1, Replaced
  <1>3. Contents(mem)' /\ Contents(image)'
    BY <1>2 DEF Contents, Last
  <1>4. QED
    BY <1>2, <1>3 DEF HoldInv

LEMMA NamedElfHolds ==
    ASSUME HoldInv, StagingInv', NamedElf
    PROVE  HoldInv'
  <1> DEFINE f == Current.file
             data == FlattenElf(f)
  <1>1. /\ phase = "load" /\ loads # <<>> /\ Current.name \in DOMAIN names /\ Flattens(f)
        /\ RegistryInv /\ loads \in Seq(Load)
    BY DEF NamedElf, Performing, HoldInv, StagingInv
  <1>2. f \in Files
    BY <1>1, CurrentFacts
  <1> PICK i \in DOMAIN areas : i = Target
    BY <1>1, TargetFacts
  <1>3. mem = image /\ Contents(mem) /\ mem[i] \in [0..Last(i) -> Nat]
    BY <1>1 DEF HoldInv, Settled, Contents
  <1>4. CASE UNCHANGED <<areas, mem, image>> /\ phase' \in {"aborted", "refused"}
    BY <1>4, Quiet DEF Settled
  <1>5. CASE /\ ~(Words(data) > areas[i].words)
             /\ mem' = [mem EXCEPT ![i] = Written(@, 0, data)]
             /\ image' = [image EXCEPT ![i] = IF data = <<>> THEN @ ELSE Image(@, f, Low(f), TRUE)]
             /\ UNCHANGED <<areas, phase>>
    <2> DEFINE new == Written(mem[i], 0, data)
    <2>1. /\ mem' = [mem EXCEPT ![i] = new]
          /\ image' = [image EXCEPT ![i] = IF data = <<>> THEN image[i] ELSE Image(image[i], f, Low(f), TRUE)]
      BY <1>5
    <2>2. /\ Last(i) \in Nat /\ Last(i) = Size(areas[i]) - 1 /\ Size(areas[i]) \in Nat
          /\ areas[i].words \in Nat /\ Size(areas[i]) = areas[i].words * Width
      BY <1>1, LastFacts, CandidateFacts DEF Last, Size
    <2>3. CASE data = <<>>
      <3>1. new = mem[i]
        BY <1>3, <2>2, <2>3, WroteNothing
      <3>2. new \in [0..Last(i) -> Nat]
        BY <1>3, <3>1
      <3> HIDE DEF new, data, f
      <3>3. image' = [image EXCEPT ![i] = new]
        BY <1>3, <2>1, <2>3, <3>1
      <3>4. QED
        BY <1>1, <1>5, <2>1, <3>2, <3>3, NamedHolds
    <2>4. CASE data # <<>>
      <3>1. PICK map, top : Laid(map, data, top)
        BY <1>1, <1>2, <2>4, FlattenedLaid
      <3>2. data \in Seq(Nat)
        BY <3>1 DEF Laid
      <3>3. new \in [0..Last(i) -> Nat]
        BY <1>3, <2>2, <3>2, WrittenType
      <3>4. Words(data) * Width <= Size(areas[i])
        <4>1. Words(data) \in Nat /\ Words(data) <= areas[i].words
          BY <1>5, <2>2, <3>2, WordsRoundUp
        <4>2. Width * Words(data) <= Width * areas[i].words
          BY <2>2, <4>1, TimesMonotone, WidthFacts
        <4>3. QED
          BY <2>2, <4>1, <4>2, WidthFacts
      <3>5. new = Image(mem[i], f, Low(f), TRUE)
        BY <1>1, <1>2, <1>3, <2>2, <2>4, <3>4, DenseImage
      <3> HIDE DEF new, data, f
      <3>6. image' = [image EXCEPT ![i] = new]
        BY <1>3, <2>1, <2>4, <3>5
      <3>7. QED
        BY <1>1, <1>5, <2>1, <3>3, <3>6, NamedHolds
    <2>5. QED
      BY <2>3, <2>4
  <1>6. QED
    BY <1>4, <1>5 DEF NamedElf, Return, registry, loading, Settled

LEMMA NamedVmemHolds ==
    ASSUME HoldInv, StagingInv', NamedVmem
    PROVE  HoldInv'
  <1> DEFINE f == Current.file
             d == f.bytes
  <1>1. /\ phase = "load" /\ loads # <<>> /\ Current.name \in DOMAIN names /\ f.class = "vmem"
        /\ RegistryInv /\ loads \in Seq(Load)
    BY DEF NamedVmem, Performing, HoldInv, StagingInv
  <1>2. d \in Seq(Nat)
    BY <1>1, CurrentFacts, FileFacts
  <1>9. Len(d) % Width = 0
    BY <1>1, CurrentFacts, FileFacts
  <1> PICK i \in DOMAIN areas : i = Target
    BY <1>1, TargetFacts
  <1>3. mem = image /\ mem[i] \in [0..Last(i) -> Nat]
    BY <1>1 DEF HoldInv, Settled, Contents
  <1> DEFINE new == Written(mem[i], 0, d)
  <1>4. /\ mem' = [mem EXCEPT ![i] = new] /\ UNCHANGED <<areas, phase>>
        /\ image' = [image EXCEPT ![i] = [o \in DOMAIN image[i] |-> IF o < Len(d) THEN d[o + 1] ELSE image[i][o]]]
    BY DEF NamedVmem, registry
  <1>5. Last(i) \in Nat /\ Size(areas[i]) \in Nat /\ Last(i) = Size(areas[i]) - 1
    BY <1>1, LastFacts DEF Last
  <1>6. new \in [0..Last(i) -> Nat]
    <2> HIDE DEF d, f
    <2>1. QED
      BY <1>2, <1>3, <1>5, WrittenType
  <1>7. new = [o \in DOMAIN mem[i] |-> IF o < Len(d) THEN d[o + 1] ELSE mem[i][o]]
    BY <1>2, <1>9, <1>3, <1>5, VmemImage
  <1> HIDE DEF new, d, f
  <1>8. image' = [image EXCEPT ![i] = new]
    BY <1>3, <1>4, <1>7
  <1>10. QED
    BY <1>1, <1>4, <1>6, <1>8, NamedHolds
LEMMA ElfLoadHolds ==
    ASSUME HoldInv, StagingInv', ElfLoad
    PROVE  HoldInv'
  <1>1. /\ phase = "load" /\ loads # <<>> /\ UNCHANGED <<areas, mem, image, loads>>
        /\ mem = image
    BY DEF ElfLoad, Performing, registry, HoldInv, Settled
  <1>2. Current' = Current
    BY <1>1 DEF Current
  <1>3. CASE phase' = "refused"
    BY <1>1, <1>3, Quiet DEF Settled
  <1>4. CASE /\ Current.file.class = "elf" /\ segs' = Current.file.segs /\ phase' = "stage"
             /\ staged' = [i \in DOMAIN areas |-> {}]
    <2> DEFINE fs == Current.file.segs
    <2>1. fs \in Seq(Header) /\ Len(fs) \in Nat
      <3>1. Current.file \in Files
        BY <1>1, CurrentFacts DEF HoldInv, StagingInv
      <3>2. QED
        BY <1>4, <3>1, SegsFacts
    <2>2. Base(1)' = Base(1) /\ \A i : Base(i)' = Base(i)
      BY <1>1 DEF Base
    <2>3. UpTo(0)'
      <3>1. \A i \in DOMAIN areas : staged'[i] = {}
        BY <1>4
      <3>2. \A x, b : ~Reads({}, x, b)
        BY DEF Reads
      <3>3. QED
        BY <1>1, <3>1, <3>2, SaysNothing DEF UpTo
    <2>4. StagedSome'
      <3>1. /\ 0 \in 0..Len(fs) /\ Len(segs') = Len(fs) - 0 /\ \A j \in 1..Len(segs') : segs'[j] = fs[0 + j]
        BY <1>4, <2>1
      <3>2. QED
        BY <1>2, <2>3, <3>1 DEF StagedSome
    <2>5. Contents(mem)' /\ Contents(image)'
      BY <1>1 DEF HoldInv, Contents, Last
    <2>6. QED
      BY <1>1, <1>2, <1>4, <2>4, <2>5 DEF HoldInv
  <1>5. QED
    BY <1>3, <1>4 DEF ElfLoad

(* Where staging is: the next header is the one after those staged.        *)
LEMMA NextHeader ==
    ASSUME NEW fs, Len(fs) \in Nat, NEW k \in 0..Len(fs), NEW rest, rest \in Seq(Header), rest # <<>>,
           Len(rest) = Len(fs) - k, \A j \in 1..Len(rest) : rest[j] = fs[k + j]
    PROVE  /\ Head(rest) = fs[k + 1] /\ Head(rest) \in Header /\ k + 1 \in 0..Len(fs) /\ k \in Nat
           /\ Len(Tail(rest)) = Len(fs) - (k + 1)
           /\ \A j \in 1..Len(Tail(rest)) : Tail(rest)[j] = fs[(k + 1) + j]
  <1>1. Len(rest) \in Nat \ {0} /\ Len(Tail(rest)) = Len(rest) - 1
    OBVIOUS
  <1>2. Head(rest) = rest[1] /\ Head(rest) \in Header
    OBVIOUS
  <1>3. ASSUME NEW j \in 1..Len(Tail(rest)) PROVE Tail(rest)[j] = fs[(k + 1) + j]
    <2>1. j + 1 \in 1..Len(rest) /\ Tail(rest)[j] = rest[j + 1] /\ k + (j + 1) = (k + 1) + j
      BY <1>1
    <2>2. QED
      BY <2>1
  <1>4. QED
    BY <1>1, <1>2, <1>3

LEMMA Beside ==
    ASSUME NEW p \in Nat, NEW n \in Nat, NEW q \in Nat, NEW m \in Nat,
           NEW a \in Nat, NEW l \in Nat, NEW x \in Nat,
           a - p \in Nat, a - p + l - 1 < n, x < m, p + n - 1 < q \/ q + m - 1 < p
    PROVE  ~(a <= q + x /\ q + x <= a + l - 1)
  OBVIOUS

LEMMA StageSegmentHolds ==
    ASSUME HoldInv, StagingInv', StageSegment
    PROVE  HoldInv'
  <1> DEFINE s == Head(segs)
             fs == Current.file.segs
  <1>1. /\ phase = "stage" /\ segs # <<>> /\ UNCHANGED <<areas, mem, image, loads>> /\ segs' = Tail(segs)
        /\ mem = image /\ loads # <<>> /\ Current.file.class = "elf" /\ StagingInv /\ RegistryInv
    BY DEF StageSegment, registry, HoldInv, Settled, StagingInv
  <1>2. Current' = Current /\ \A i : Base(i)' = Base(i)
    BY <1>1 DEF Current, Base
  <1>3. fs \in Seq(Header) /\ Len(fs) \in Nat /\ segs \in Seq(Header)
    BY <1>1, CurrentFacts, SegsFacts DEF StagingInv
  <1>4. PICK k \in 0..Len(fs) : /\ Len(segs) = Len(fs) - k
                                /\ \A j \in 1..Len(segs) : segs[j] = fs[k + j]
                                /\ UpTo(k)
    BY <1>1 DEF HoldInv, StagedSome
  <1>5. /\ s = fs[k + 1] /\ s \in Header /\ k + 1 \in 0..Len(fs) /\ k \in Nat
        /\ Len(segs') = Len(fs) - (k + 1)
        /\ \A j \in 1..Len(segs') : segs'[j] = fs[(k + 1) + j]
    <2> HIDE DEF fs
    <2>1. QED
      BY <1>1, <1>3, <1>4, NextHeader
  <1>6. ASSUME UNCHANGED phase, UpTo(k + 1)' PROVE HoldInv'
    <2>1. StagedSome'
      BY <1>2, <1>5, <1>6 DEF StagedSome
    <2>2. Contents(mem)' /\ Contents(image)'
      BY <1>1 DEF HoldInv, Contents, Last
    <2>3. QED
      BY <1>1, <1>2, <1>6, <2>1, <2>2 DEF HoldInv
  <1>7. CASE phase' = "refused"
    BY <1>1, <1>7, Quiet DEF Settled
  <1>8. CASE (~s.load \/ s.data = <<>>) /\ UNCHANGED <<staged, phase>>
    <2>1. ASSUME NEW x \in Nat PROVE ~Covers(s, x)
      <3>1. s.data = <<>> => Len(s.data) = 0
        OBVIOUS
      <3>2. QED
        BY <1>5, <1>8, <3>1, HeaderFacts, CoversFacts
    <2>2. ASSUME NEW i \in DOMAIN areas, NEW x \in Nat, NEW b, x < Size(areas[i])
          PROVE  Reads(staged[i], x, b) <=> Says(fs, k + 1, Base(i) + x, b)
      <3>1. Base(i) \in Nat /\ Base(i) + x \in Nat
        BY <1>1, AreaFacts
      <3>2. Reads(staged[i], x, b) <=> Says(fs, k, Base(i) + x, b)
        BY <1>4, <2>2 DEF UpTo
      <3>3. ~Covers(fs[k + 1], Base(i) + x) /\ fs[k + 1] \in Header
        BY <1>5, <2>1, <3>1
      <3> HIDE DEF s, fs
      <3>4. QED
        BY <1>5, <3>1, <3>2, <3>3, HoldsNext
    <2>3. UpTo(k + 1)'
      BY <1>1, <1>2, <1>8, <2>2 DEF UpTo
    <2>4. QED
      BY <1>6, <1>8, <2>3
  <1>9. CASE /\ s.load /\ s.data # <<>> /\ UNCHANGED phase
             /\ \E r \in Region(s) : (s.addr - r.lo) % Width = 0
             /\ \E r \in Region(s) :
                  staged' = [staged EXCEPT ![r.index + 1] = AddSegment(@, s.addr - r.lo, s.data)]
    <2>1. PICK i \in DOMAIN areas :
             /\ s.addr \in Base(i)..Top(i) /\ s.addr - Base(i) \in Nat
             /\ (s.addr - Base(i)) % Width = 0
             /\ s.addr - Base(i) + Len(s.data) - 1 < Size(areas[i])
             /\ staged' = [staged EXCEPT ![i] = AddSegment(@, s.addr - Base(i), s.data)]
      BY <1>1, <1>5, <1>9, StagesOne
    <2> DEFINE o == s.addr - Base(i)
               new == [lo |-> o, data |-> s.data]
               out == AddSegment(staged[i], o, s.data)
    <2>2. Inserted(out, staged[i], new)
      <3>1. areas[i] \in Candidates /\ Fitting(staged[i], areas[i]) /\ s.data \in Seq(Nat)
        BY <1>1, <1>5, AreaFacts, HeaderFacts DEF StagingInv
      <3> HIDE DEF s
      <3>2. QED
        BY <1>9, <2>1, <3>1, AddedFits
    <2>3. /\ staged'[i] = out
          /\ \A j \in DOMAIN areas : j # i => staged'[j] = staged[j]
      <3>1. DOMAIN staged = DOMAIN areas
        BY <1>1 DEF StagingInv
      <3>2. QED
        BY <2>1, <3>1
    <2> HIDE DEF out
    <2>4. ASSUME NEW j \in DOMAIN areas, NEW x \in Nat, NEW b, x < Size(areas[j])
          PROVE  Reads(staged'[j], x, b) <=> Says(fs, k + 1, Base(j) + x, b)
      <3>0. /\ Base(j) \in Nat /\ Top(j) \in Nat
            /\ Top(j) = Base(j) + Size(areas[j]) - 1 /\ Size(areas[j]) \in Nat
        BY <1>1, AreaFacts
      <3>1. Base(j) \in Nat /\ Base(j) + x \in Nat
        BY <3>0
      <3>2. /\ Base(i) \in Nat /\ Top(i) = Base(i) + Size(areas[i]) - 1 /\ Size(areas[i]) \in Nat
        BY <1>1, AreaFacts
      <3>3. Reads(staged[j], x, b) <=> Says(fs, k, Base(j) + x, b)
        BY <1>4, <2>4 DEF UpTo
      <3>4. CASE j = i
        <4>1. Inserted(staged'[j], staged[j], [lo |-> fs[k + 1].addr - Base(j), data |-> fs[k + 1].data])
          BY <1>5, <2>2, <2>3, <3>4
        <4>2. fs[k + 1].load /\ fs[k + 1].addr - Base(j) \in Nat /\ fs[k + 1] \in Header
          BY <1>5, <1>9, <2>1, <3>4
        <4> HIDE DEF fs, s, new, o
        <4>3. QED
          BY <1>5, <3>1, <3>3, <4>1, <4>2, HoldsNext
      <3>5. CASE j # i
        <4>1. Apart(Base(i), Top(i), j)
          BY <1>1, <3>5 DEF RegistryInv
        <4>2. s.addr \in Nat /\ Len(s.data) \in Nat
          BY <1>5, HeaderFacts
        <4>3. ~Covers(s, Base(j) + x)
          <5>1. Covers(s, Base(j) + x) => s.addr <= Base(j) + x /\ Base(j) + x <= s.addr + Len(s.data) - 1
            BY <1>5, <3>1, CoversFacts
          <5>2. \/ Base(i) + Size(areas[i]) - 1 < Base(j)
                \/ Base(j) + Size(areas[j]) - 1 < Base(i)
            BY <3>0, <3>2, <4>1 DEF Apart
          <5>3. ~(s.addr <= Base(j) + x /\ Base(j) + x <= s.addr + Len(s.data) - 1)
            <6> HIDE DEF s
            <6>1. QED
              BY <2>1, <2>4, <3>0, <3>2, <4>2, <5>2, Beside
          <5>4. QED
            BY <5>1, <5>3
        <4>4. staged'[j] = staged[j] /\ ~Covers(fs[k + 1], Base(j) + x) /\ fs[k + 1] \in Header
          BY <1>5, <2>3, <3>5, <4>3
        <4> HIDE DEF fs, s
        <4>5. QED
          BY <1>5, <3>1, <3>3, <4>4, HoldsNext
      <3>6. QED
        BY <3>4, <3>5
    <2>5. UpTo(k + 1)'
      BY <1>1, <1>2, <2>4 DEF UpTo
    <2>6. QED
      BY <1>6, <1>9, <2>5
  <1>10. QED
    BY <1>7, <1>8, <1>9 DEF StageSegment
LEMMA AllStagedHolds ==
    ASSUME HoldInv, StagingInv', AllStaged
    PROVE  HoldInv'
  <1>1. /\ phase = "stage" /\ segs = <<>> /\ UNCHANGED <<areas, mem, image, loads, staged>> /\ phase' = "write"
        /\ writes' = UNION {{[area |-> i, seg |-> s] : s \in staged[i]} : i \in DOMAIN areas}
        /\ mem = image /\ loads # <<>> /\ Current.file.class = "elf" /\ StagingInv
    BY DEF AllStaged, registry, HoldInv, Settled
  <1>2. Current' = Current /\ \A i : Base(i)' = Base(i) /\ Last(i)' = Last(i)
    BY <1>1 DEF Current, Base, Last
  <1>3. UpTo(Len(Current.file.segs))'
    <2> DEFINE fs == Current.file.segs
    <2>1. Len(fs) \in Nat
      BY <1>1, CurrentFacts, SegsFacts DEF StagingInv
    <2>2. PICK k \in 0..Len(fs) : Len(segs) = Len(fs) - k /\ UpTo(k)
      BY <1>1 DEF HoldInv, StagedSome
    <2>3. k = Len(fs)
      <3>1. Len(segs) = 0
        BY <1>1
      <3> HIDE DEF fs
      <3>2. QED
        BY <2>1, <2>2, <3>1
    <2>4. QED
      BY <1>1, <1>2, <2>2, <2>3 DEF UpTo
  <1>4. \A i \in DOMAIN areas : \A s \in staged[i] : [area |-> i, seg |-> s] \in writes'
    BY <1>1
  <1>5. \A w \in writes' : \E i \in DOMAIN areas : \E s \in staged[i] : w = [area |-> i, seg |-> s]
    BY <1>1
  <1>6. WrittenSome'
    BY <1>1, <1>2, <1>4, <1>5 DEF WrittenSome, Left
  <1>7. Contents(mem)' /\ Contents(image)'
    BY <1>1, <1>2 DEF HoldInv, Contents
  <1>8. QED
    BY <1>1, <1>2, <1>3, <1>6, <1>7 DEF HoldInv, Settled

LEMMA WriteSegmentHolds ==
    ASSUME HoldInv, StagingInv', WriteSegment
    PROVE  HoldInv'
  <1>1. /\ phase = "write" /\ UNCHANGED <<areas, image, loads, staged>>
        /\ StagingInv /\ RegistryInv /\ Contents(mem) /\ Contents(image)
        /\ loads # <<>> /\ Current.file.class = "elf" /\ UpTo(Len(Current.file.segs)) /\ WrittenSome
    BY DEF WriteSegment, registry, HoldInv, StagingInv
  <1>2. Current' = Current /\ \A i : Base(i)' = Base(i) /\ Last(i)' = Last(i)
    BY <1>1 DEF Current, Base, Last
  <1>3. PICK w \in writes :
          /\ writes' = writes \ {w}
          /\ \/ phase' \in {"aborted", "refused"} /\ UNCHANGED mem
             \/ /\ mem' = [mem EXCEPT ![w.area] = Written(@, w.seg.lo \div Width, w.seg.data)]
                /\ UNCHANGED phase
    BY DEF WriteSegment
  <1> PICK i \in DOMAIN areas : \E s \in staged[i] : w = [area |-> i, seg |-> s]
    BY <1>1 DEF WrittenSome
  <1>4. PICK s \in staged[i] : w = [area |-> i, seg |-> s]
    OBVIOUS
  <1>5. CASE phase' \in {"aborted", "refused"} /\ UNCHANGED mem
    <2>1. phase' \notin Settled /\ phase' \notin {"stage", "write"}
      BY <1>5 DEF Settled
    <2>2. QED
      BY <1>1, <1>5, <2>1, Quiet
  <1> DEFINE new == Written(mem[i], s.lo \div Width, s.data)
  <1>6. CASE mem' = [mem EXCEPT ![i] = new] /\ UNCHANGED phase
    <2>1. /\ Last(i) \in Nat /\ mem[i] \in [0..Last(i) -> Nat]
      BY <1>1, LastFacts DEF Contents
    <2>2. RangedMap(staged[i]) /\ \A t \in staged[i] : t \in Segment /\ Aligned(t)
      BY <1>1 DEF StagingInv, Fitting, RangedMap
    <2>3. s.lo \in Nat /\ s.data \in Seq(Nat) /\ Len(s.data) = Hi(s) - s.lo + 1 /\ Hi(s) \in Nat
      BY <2>2, SegmentFacts
    <2>4. s.lo \div Width \in Nat /\ s.lo = (s.lo \div Width) * Width
      BY <2>2, <2>3, MultipleFacts DEF Aligned
    <2>5. new \in [0..Last(i) -> Nat]
      BY <2>1, <2>3, <2>4, WrittenType
    <2>6. ASSUME NEW o \in 0..Last(i)
          PROVE  new[o] = IF InWords(s, o) THEN Filled(s, o) ELSE mem[i][o]
      <3>1. Last(i) + 1 \in Nat /\ 0..((Last(i) + 1) - 1) = 0..Last(i) /\ DOMAIN mem[i] = 0..Last(i)
        BY <2>1
      <3>2. Overwritten(new[o], mem[i][o], (s.lo \div Width) * Width, Words(s.data) * Width, s.data, o)
        BY <2>3, <2>4, <3>1, WrittenAt
      <3> HIDE DEF new
      <3>3. Overwritten(new[o], mem[i][o], s.lo, Words(s.data) * Width, s.data, o)
        BY <2>4, <3>2
      <3> PICK n \in Nat : n = Words(s.data) * Width
        BY <2>3, WordsRoundUp
      <3>4. InWords(s, o) <=> ~(o < s.lo \/ s.lo + n <= o)
        BY <2>1, <2>3 DEF InWords, WordTop
      <3>5. o < s.lo + Len(s.data) <=> o <= Hi(s)
        BY <2>1, <2>3
      <3>6. QED
        BY <3>3, <3>4, <3>5 DEF Overwritten, Filled, Byte
    <2> HIDE DEF new
    <2>7. /\ Contents([mem EXCEPT ![i] = new])
          /\ mem'[i] = new /\ \A j \in DOMAIN areas : j # i => mem'[j] = mem[j]
      <3>1. /\ Contents([mem EXCEPT ![i] = new])
            /\ [mem EXCEPT ![i] = new][i] = new
            /\ \A j \in DOMAIN areas : j # i => [mem EXCEPT ![i] = new][j] = mem[j]
        BY <1>1, <2>5, Replaced
      <3>2. QED
        BY <1>6, <3>1
    <2>8. Contents(mem)' /\ Contents(image)'
      BY <1>1, <1>2, <1>6, <2>7 DEF Contents
    <2>9. \A j \in DOMAIN areas : \A t \in staged[j] :
            [area |-> j, seg |-> t] \in writes' <=> Left(j, t) /\ ~(j = i /\ t = s)
      BY <1>3, <1>4 DEF Left
    <2>10. ASSUME NEW j \in DOMAIN areas, NEW o \in 0..Last(j)
           PROVE  /\ \A t \in staged[j] : InWords(t, o) /\ [area |-> j, seg |-> t] \notin writes'
                                            => mem'[j][o] = Filled(t, o)
                  /\ (\A t \in staged[j] : InWords(t, o) => [area |-> j, seg |-> t] \in writes')
                       => mem'[j][o] = image[j][o]
      <3>1. /\ \A t \in staged[j] : InWords(t, o) /\ ~Left(j, t) => mem[j][o] = Filled(t, o)
            /\ (\A t \in staged[j] : InWords(t, o) => Left(j, t)) => mem[j][o] = image[j][o]
        BY <1>1 DEF WrittenSome
      <3>2. CASE j # i
        BY <2>7, <2>9, <3>1, <3>2
      <3>3. CASE j = i /\ InWords(s, o)
        <4>1. mem'[j][o] = Filled(s, o)
          BY <2>6, <2>7, <3>3
        <4>2. o \in Nat
          BY <2>1, <3>3
        <4>3. ASSUME NEW t \in staged[j], InWords(t, o) PROVE t = s
          <5>1. t # s => Hi(s) < t.lo \/ Hi(t) < s.lo
            BY <2>2, <3>3 DEF RangedMap, Disjoint
          <5>2. QED
            BY <2>2, <3>3, <4>2, <4>3, <5>1, WordsApart
        <4>4. [area |-> i, seg |-> s] \notin writes'
          BY <2>9
        <4>5. QED
          BY <3>3, <4>1, <4>3, <4>4
      <3>4. CASE j = i /\ ~InWords(s, o)
        <4>1. mem'[j][o] = mem[j][o]
          BY <2>6, <2>7, <3>4
        <4>2. \A t \in staged[j] : InWords(t, o) => ([area |-> j, seg |-> t] \in writes' <=> Left(j, t))
          BY <2>9, <3>4
        <4>3. QED
          BY <3>1, <4>1, <4>2
      <3>5. QED
        BY <3>2, <3>3, <3>4
    <2>11. \A v \in writes' : \E j \in DOMAIN areas : \E t \in staged[j] : v = [area |-> j, seg |-> t]
      BY <1>1, <1>3 DEF WrittenSome
    <2>12. WrittenSome'
      BY <1>1, <1>2, <2>10, <2>11 DEF WrittenSome, Left
    <2>13. UpTo(Len(Current.file.segs))'
      BY <1>1, <1>2 DEF UpTo
    <2>14. QED
      BY <1>1, <1>2, <1>6, <2>8, <2>12, <2>13 DEF HoldInv, Settled
  <1>7. QED
    BY <1>3, <1>4, <1>5, <1>6

LEMMA AllWrittenHolds ==
    ASSUME HoldInv, StagingInv', AllWritten
    PROVE  HoldInv'
  <1> DEFINE f == Current.file
  <1>1. /\ phase = "write" /\ writes = {} /\ UNCHANGED <<areas, mem>> /\ phase' = "load"
        /\ image' = [i \in DOMAIN areas |-> Image(image[i], f, areas[i].base, FALSE)]
        /\ StagingInv /\ RegistryInv /\ Contents(mem) /\ Contents(image)
        /\ loads # <<>> /\ f.class = "elf" /\ UpTo(Len(f.segs)) /\ WrittenSome
    BY DEF AllWritten, registry, HoldInv, StagingInv
  <1>2. f \in Files /\ f.segs \in Seq(Header)
    BY <1>1, CurrentFacts, SegsFacts DEF StagingInv
  <1> HIDE DEF f
  <1>3. ASSUME NEW i \in DOMAIN areas PROVE mem[i] = Image(image[i], f, areas[i].base, FALSE)
    <2> DEFINE z == Size(areas[i])
    <2>1. /\ z \in Nat /\ Multiple(z) /\ z - 1 = Last(i) /\ Base(i) \in Nat /\ areas[i] \in Candidates
      BY <1>1, LastFacts, AreaFacts DEF Last
    <2>2. mem[i] \in [0..(z - 1) -> Nat] /\ image[i] \in [0..(z - 1) -> Nat]
      BY <1>1, <2>1 DEF Contents
    <2>3. RangedMap(staged[i]) /\ \A s \in staged[i] : Aligned(s) /\ Hi(s) < z
      BY <1>1 DEF StagingInv, Fitting
    <2>4. Agrees(staged[i], f, Base(i), z)
      <3>1. \A x \in Nat : \A b : x < z => (Reads(staged[i], x, b) <=> Says(f.segs, Len(f.segs), Base(i) + x, b))
        BY <1>1 DEF UpTo, f
      <3>2. QED
        BY <1>2, <3>1, ByteAtIsSaid DEF Agrees
    <2>5. Overlaid(mem[i], image[i], staged[i], z)
      BY <1>1, <2>1 DEF WrittenSome, Left, Overlaid
    <2> HIDE DEF z
    <2>6. mem[i] = Image(image[i], f, Base(i), FALSE)
      BY <1>2, <2>1, <2>2, <2>3, <2>4, <2>5, SparseImage
    <2>7. QED
      BY <2>6 DEF Base
  <1>4. mem \in Seq(Bytes) /\ DOMAIN mem = DOMAIN areas
    BY <1>1 DEF Contents
  <1>5. mem' = image'
    <2>1. mem = [i \in DOMAIN areas |-> mem[i]]
      BY <1>4
    <2>2. QED
      BY <1>1, <1>3, <2>1
  <1>6. Contents(mem)'
    BY <1>1 DEF Contents, Last
  <1>7. Contents(image)'
    BY <1>5, <1>6 DEF Contents, Last
  <1>8. QED
    BY <1>1, <1>5, <1>6, <1>7 DEF HoldInv

LEMMA HoldStep ==
    ASSUME HoldInv, [Next]_vars
    PROVE  HoldInv'
  <1>1. StagingInv'
    BY StagingStep DEF HoldInv
  <1>2. CASE UNCHANGED vars
    <2>1. UNCHANGED <<areas, mem, image, phase, loads, staged, segs, writes>>
      BY <1>2 DEF vars
    <2>2. Current' = Current /\ \A i : Base(i)' = Base(i) /\ Last(i)' = Last(i)
      BY <2>1 DEF Current, Base, Last
    <2>3. (Contents(mem)' <=> Contents(mem)) /\ (Contents(image)' <=> Contents(image))
      BY <2>1, <2>2 DEF Contents
    <2>4. \A k : UpTo(k)' <=> UpTo(k)
      BY <2>1, <2>2 DEF UpTo
    <2>5. StagedSome' <=> StagedSome
      BY <2>1, <2>2, <2>4 DEF StagedSome
    <2>6. WrittenSome' <=> WrittenSome
      BY <2>1, <2>2 DEF WrittenSome, Left
    <2>7. QED
      BY <1>1, <2>1, <2>2, <2>3, <2>4, <2>5, <2>6 DEF HoldInv
  <1>3. CASE \E a \in Candidates : Register(a)
    BY <1>3, RegisterHolds
  <1>4. CASE CommandLine \/ Begin \/ Finish \/ NamedRefused
    BY <1>1, <1>4, CommandLineHolds
  <1>5. CASE NamedElf
    BY <1>1, <1>5, NamedElfHolds
  <1>6. CASE NamedVmem
    BY <1>1, <1>6, NamedVmemHolds
  <1>7. CASE ElfLoad
    BY <1>1, <1>7, ElfLoadHolds
  <1>8. CASE StageSegment
    BY <1>1, <1>8, StageSegmentHolds
  <1>9. CASE AllStaged
    BY <1>1, <1>9, AllStagedHolds
  <1>10. CASE WriteSegment
    BY <1>1, <1>10, WriteSegmentHolds
  <1>11. CASE AllWritten
    BY <1>1, <1>11, AllWrittenHolds
  <1>12. QED
    BY <1>2, <1>3, <1>4, <1>5, <1>6, <1>7, <1>8, <1>9, <1>10, <1>11 DEF Next, Loading

(* Between loads every memory holds the image of the files loaded so far   *)
(* (VerilatorMemUtil, StagedMem, RangedMap::Emplace and MemArea::Write),   *)
(* for every set of areas, files and command lines and every word size.    *)
THEOREM MemoryAlwaysHoldsImage == Spec => []MemoryHoldsImage
  <1>1. Init => HoldInv
    <2> SUFFICES ASSUME Init PROVE HoldInv
      OBVIOUS
    <2>1. StagingInv
      BY StagingInit
    <2>2. /\ areas = <<>> /\ mem = <<>> /\ image = <<>> /\ phase = "register"
      BY DEF Init
    <2>3. Contents(mem) /\ Contents(image)
      BY <2>2 DEF Contents
    <2>4. QED
      BY <2>1, <2>2, <2>3 DEF HoldInv
  <1>2. HoldInv => MemoryHoldsImage
    BY DEF HoldInv, MemoryHoldsImage, Settled
  <1>3. QED
    BY <1>1, <1>2, HoldStep, PTL DEF Spec
=============================================================================

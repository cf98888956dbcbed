-------------------------- MODULE RenderingProofs ---------------------------
(***************************************************************************)
(* Proofs about module Rendering, for any scenes and workflows, any number *)
(* of workers, and any number of failures and kills.                       *)
(*                                                                         *)
(* The contents of the object storage never change: an object is written   *)
(* again when a task is carried out again, and then with the same content, *)
(* because what was downloaded for it has not changed either.  So what a   *)
(* worker has on its disk stays a copy of what is stored, and a result     *)
(* stays what ffmpeg made of the inputs.                                   *)
(***************************************************************************)
EXTENDS RenderingProperties, DagProofs

-----------------------------------------------------------------------------
(* Lists of videos and of clips                                            *)

\* What was dragged is put in again.
LEMMA InsertAtDef ==
    ASSUME NEW S, NEW s \in Seq(S), NEW i \in 1..(Len(s) + 1), NEW x \in S
    PROVE  /\ InsertAt(s, i, x) \in Seq(S) /\ Len(InsertAt(s, i, x)) = Len(s) + 1
           /\ InsertAt(s, i, x)[i] = x
           /\ \A k \in 1..(Len(s) + 1) : k < i => InsertAt(s, i, x)[k] = s[k]
           /\ \A k \in 1..(Len(s) + 1) : k > i => InsertAt(s, i, x)[k] = s[k - 1]
<1>1. PICK a : a = SubSeq(s, 1, i - 1)
  OBVIOUS
<1>2. PICK b : b = SubSeq(s, i, Len(s))
  OBVIOUS
<1>3. a \in Seq(S) /\ Len(a) = i - 1 /\ \A k \in 1..(i - 1) : a[k] = s[k]
  BY <1>1
<1>4. b \in Seq(S) /\ Len(b) = Len(s) - i + 1 /\ \A k \in 1..(Len(s) - i + 1) : b[k] = s[k + i - 1]
  BY <1>2
<1>5. PICK c : c = a \o <<x>>
  OBVIOUS
<1>6. c \in Seq(S) /\ Len(c) = i /\ c[i] = x /\ \A k \in 1..(i - 1) : c[k] = s[k]
  BY <1>3, <1>5
<1>7. InsertAt(s, i, x) = c \o b
  BY <1>1, <1>2, <1>5 DEF InsertAt
<1>8. c \o b \in Seq(S) /\ Len(c \o b) = Len(s) + 1 /\ (c \o b)[i] = x
  BY <1>4, <1>6
<1>9. ASSUME NEW k \in 1..(Len(s) + 1), k < i PROVE (c \o b)[k] = s[k]
  BY <1>4, <1>6, <1>9
<1>10. ASSUME NEW k \in 1..(Len(s) + 1), k > i PROVE (c \o b)[k] = s[k - 1]
  <2>1. k - i \in 1..(Len(s) - i + 1) /\ (c \o b)[k] = b[k - i]
    BY <1>4, <1>6, <1>10
  <2>2. b[k - i] = s[(k - i) + i - 1]
    BY <1>4, <2>1
  <2>3. (k - i) + i - 1 = k - 1
    OBVIOUS
  <2> QED BY <2>1, <2>2, <2>3
<1>11. QED BY <1>7, <1>8, <1>9, <1>10

-----------------------------------------------------------------------------
(* When the videos of the home page start                                  *)

StartOf(s, start, i) == IF i = 1 THEN 0 ELSE start[i - 1] + Duration[s[i - 1]]

\* A start time can be given to the first n videos.
LEMMA StartsExist ==
    ASSUME NEW S, NEW s \in Seq(S), Duration \in [S -> Nat]
    PROVE  \A n \in 0..Len(s) :
               \E start \in [1..n -> Nat] : \A i \in 1..n : start[i] = StartOf(s, start, i)
<1> DEFINE Has(n) == \E start \in [1..n -> Nat] : \A i \in 1..n : start[i] = StartOf(s, start, i)
           Without == {n \in 0..Len(s) : ~Has(n)}
<1>1. Without \subseteq Nat
  OBVIOUS
<1>2. Has(0)
  <2>1. [i \in {} |-> 0] \in [1..0 -> Nat] /\ \A i \in 1..0 : FALSE
    OBVIOUS
  <2> QED BY <2>1
<1>3. ASSUME NEW n \in 0..Len(s), n + 1 \in 0..Len(s), Has(n) PROVE Has(n + 1)
  <2>1. PICK start \in [1..n -> Nat] : \A i \in 1..n : start[i] = StartOf(s, start, i)
    BY <1>3
  <2>2. PICK more : more = [i \in 1..(n + 1) |-> IF i \in 1..n THEN start[i] ELSE StartOf(s, start, n + 1)]
    OBVIOUS
  <2>3. StartOf(s, start, n + 1) \in Nat
    <3>1. CASE n = 0
      BY <3>1 DEF StartOf
    <3>2. CASE n # 0
      <4>1. start[n] \in Nat /\ s[n] \in S
        BY <1>3, <3>2
      <4>2. Duration[s[n]] \in Nat
        BY <4>1
      <4>3. (n + 1) - 1 = n /\ n + 1 # 1
        BY <3>2
      <4> QED BY <4>1, <4>2, <4>3 DEF StartOf
    <3> QED BY <3>1, <3>2
  <2>4. more \in [1..(n + 1) -> Nat]
    BY <2>2, <2>3
  <2>5. \A i \in 1..(n + 1) : i # 1 => i - 1 \in 1..n /\ more[i - 1] = start[i - 1]
    BY <2>2
  <2>6. \A i \in 1..(n + 1) : StartOf(s, more, i) = StartOf(s, start, i)
    BY <2>5 DEF StartOf
  <2>7. \A i \in 1..(n + 1) : i \in 1..n \/ i = n + 1
    OBVIOUS
  <2>8. n + 1 \notin 1..n
    OBVIOUS
  <2>9. \A i \in 1..(n + 1) : more[i] = StartOf(s, start, i)
    BY <2>1, <2>2, <2>7, <2>8
  <2> QED BY <2>4, <2>6, <2>9
<1>4. Without = {}
  <2>1. SUFFICES ASSUME Without # {} PROVE FALSE
    OBVIOUS
  <2>2. PICK m \in Without : \A k \in Without : m <= k
    <3> HIDE DEF Without
    <3> QED BY <1>1, <2>1, LeastNumber
  <2>3. m \in 0..Len(s) /\ ~Has(m) /\ m # 0
    BY <1>2, <2>2
  <2>4. m - 1 \in 0..Len(s) /\ (m - 1) + 1 = m /\ ~(m <= m - 1)
    BY <2>3
  <2>5. Has(m - 1)
    <3> HIDE DEF Has
    <3> QED BY <2>2, <2>4
  <2>6. Has((m - 1) + 1)
    <3> HIDE DEF Has
    <3> QED BY <1>3, <2>3, <2>4, <2>5
  <2> HIDE DEF Has
  <2> QED BY <2>3, <2>4, <2>6
<1>5. QED BY <1>4

\* Each video starts when the one before it ends.
LEMMA StartTimesDef ==
    ASSUME NEW S, NEW s \in Seq(S), Duration \in [S -> Nat]
    PROVE  /\ StartTimes(s) \in [DOMAIN s -> Nat]
           /\ \A i \in DOMAIN s : StartTimes(s)[i] = StartOf(s, StartTimes(s), i)
<1> DEFINE Starts(f) == f = [i \in DOMAIN s |-> IF i = 1 THEN 0 ELSE f[i - 1] + Duration[s[i - 1]]]
<1>1. DOMAIN s = 1..Len(s) /\ Len(s) \in Nat
  OBVIOUS
<1>2. \E f : Starts(f)
  <2>0. \A n \in 0..Len(s) :
            \E f \in [1..n -> Nat] : \A i \in 1..n : f[i] = StartOf(s, f, i)
    BY StartsExist, Zenon
  <2>1. PICK f \in [1..Len(s) -> Nat] : \A i \in 1..Len(s) : f[i] = StartOf(s, f, i)
    <3>1. Len(s) \in 0..Len(s)
      BY <1>1
    <3> QED BY <2>0, <3>1, Zenon
  <2>2. f = [i \in 1..Len(s) |-> f[i]]
    OBVIOUS
  <2>3. f = [i \in 1..Len(s) |-> IF i = 1 THEN 0 ELSE f[i - 1] + Duration[s[i - 1]]]
    BY <2>1, <2>2 DEF StartOf
  <2> QED BY <1>1, <2>3
<1>3. StartTimes(s) = CHOOSE f : Starts(f)
  BY Zenon DEF StartTimes
<1>4. PICK f : f = StartTimes(s)
  OBVIOUS
<1>5. Starts(f)
  <2> HIDE DEF Starts
  <2> QED BY <1>2, <1>3, <1>4, Zenon
<1>6. DOMAIN f = DOMAIN s /\ \A i \in DOMAIN s : f[i] = StartOf(s, f, i)
  BY <1>5 DEF StartOf
<1>7. \A i \in DOMAIN s : f[i] \in Nat
  <2> DEFINE Bad == {i \in 1..Len(s) : f[i] \notin Nat}
  <2>1. SUFFICES ASSUME Bad # {} PROVE FALSE
    BY <1>1
  <2>2. Bad \subseteq Nat
    OBVIOUS
  <2>3. PICK m \in Bad : \A k \in Bad : m <= k
    <3> HIDE DEF Bad
    <3> QED BY <2>1, <2>2, LeastNumber
  <2>4. m \in 1..Len(s) /\ f[m] \notin Nat /\ f[m] = StartOf(s, f, m)
    BY <1>1, <1>6, <2>3
  <2>5. CASE m = 1
    BY <2>4, <2>5 DEF StartOf
  <2>6. CASE m # 1
    <3>1. m - 1 \in 1..Len(s) /\ ~(m <= m - 1)
      BY <2>4, <2>6
    <3>2. f[m - 1] \in Nat
      BY <2>3, <3>1
    <3>3. s[m - 1] \in S
      BY <3>1
    <3>4. Duration[s[m - 1]] \in Nat
      BY <3>3
    <3> QED BY <2>4, <2>6, <3>2, <3>4 DEF StartOf
  <2> QED BY <2>5, <2>6
<1>8. f = [i \in DOMAIN s |-> f[i]]
  BY <1>5
<1>9. QED BY <1>4, <1>6, <1>7, <1>8

\* A video that comes later does not start earlier.
LEMMA StartsGrow ==
    ASSUME NEW S, NEW s \in Seq(S), Duration \in [S -> Nat]
    PROVE  \A i, j \in DOMAIN s : i <= j => StartTimes(s)[i] <= StartTimes(s)[j]
<1>1. PICK start \in [1..Len(s) -> Nat] :
          start = StartTimes(s) /\ \A i \in 1..Len(s) : start[i] = StartOf(s, start, i)
  <2>1. DOMAIN s = 1..Len(s)
    OBVIOUS
  <2> QED BY <2>1, StartTimesDef
<1> DEFINE Before(j) == \A i \in 1..j : start[i] <= start[j]
           Bad == {j \in 1..Len(s) : ~Before(j)}
<1>2. SUFFICES ASSUME Bad # {} PROVE FALSE
  <2>1. DOMAIN s = 1..Len(s)
    OBVIOUS
  <2>2. Bad = {} => \A i, j \in 1..Len(s) : i <= j => start[i] <= start[j]
    OBVIOUS
  <2> QED BY <1>1, <2>1, <2>2
<1>3. PICK m \in Bad : \A k \in Bad : m <= k
  <2>1. Bad \subseteq Nat
    OBVIOUS
  <2> HIDE DEF Bad
  <2> QED BY <1>2, <2>1, LeastNumber
<1>4. m \in 1..Len(s) /\ ~Before(m) /\ start[m] \in Nat
  BY <1>1, <1>3
<1>5. CASE m = 1
  <2>1. \A i \in 1..m : i = m
    BY <1>5
  <2>2. start[m] <= start[m]
    BY <1>4
  <2> QED BY <1>4, <2>1, <2>2
<1>6. CASE m # 1
  <2>1. m - 1 \in 1..Len(s) /\ ~(m <= m - 1)
    BY <1>4, <1>6
  <2>2. Before(m - 1)
    <3> HIDE DEF Before
    <3> QED BY <1>3, <2>1
  <2>3. Duration[s[m - 1]] \in Nat
    BY <2>1
  <2>4. start[m] = start[m - 1] + Duration[s[m - 1]]
    BY <1>1, <1>4, <1>6 DEF StartOf
  <2>5. start[m - 1] \in Nat /\ start[m - 1] <= start[m]
    <3>1. start[m - 1] \in Nat
      BY <2>1
    <3>2. \A a, d \in Nat : a <= a + d
      OBVIOUS
    <3> QED BY <2>3, <2>4, <3>1, <3>2
  <2>6. ASSUME NEW i \in 1..m PROVE start[i] <= start[m]
    <3>1. i = m \/ i \in 1..(m - 1)
      BY <1>4
    <3>2. ASSUME i \in 1..(m - 1) PROVE start[i] <= start[m]
      <4>1. start[i] <= start[m - 1]
        BY <2>2, <3>2
      <4>2. i \in 1..Len(s)
        BY <1>4, <3>2
      <4>3. start[i] \in Nat
        BY <4>2
      <4>4. \A a, b, c \in Nat : a <= b /\ b <= c => a <= c
        OBVIOUS
      <4> HIDE DEF Before
      <4> QED BY <1>4, <2>5, <4>1, <4>3, <4>4
    <3>3. start[m] <= start[m]
      BY <1>4
    <3> QED BY <3>1, <3>2, <3>3
  <2> QED BY <1>1, <1>4, <2>6
<1>7. QED BY <1>5, <1>6

\* The clips of the home page.
LEMMA HomeClips ==
    ASSUME NEW S, NEW s \in Seq(S), Duration \in [S -> Nat]
    PROVE  \E clips :
               /\ homeLayer(s) = <<clips>>
               /\ DOMAIN clips = 1..Len(s) /\ clips \in Seq(ToSet(clips)) /\ Len(clips) = Len(s)
               /\ \A i \in 1..Len(s) :
                      /\ clips[i].id = s[i] /\ clips[i].cut = <<>>
                      /\ clips[i].from = StartTimes(s)[i] /\ StartTimes(s)[i] \in Nat
                      /\ clips[i].to = StartTimes(s)[i] + Duration[s[i]]
<1> DEFINE clip(i) == [id |-> s[i], from |-> StartTimes(s)[i],
                       to |-> StartTimes(s)[i] + Duration[s[i]], cut |-> <<>>]
<1>1. PICK clips : homeLayer(s) = <<clips>> /\ clips = [i \in 1..Len(s) |-> clip(i)]
  <2>1. homeLayer(s) = <<[i \in DOMAIN s |-> clip(i)]>>
    BY Zenon DEF homeLayer
  <2>2. DOMAIN s = 1..Len(s)
    OBVIOUS
  <2> HIDE DEF clip
  <2> QED BY <2>1, <2>2
<1>2. clips = [i \in 1..Len(s) |-> clips[i]] /\ DOMAIN clips = 1..Len(s)
  <2> HIDE DEF clip
  <2> QED BY <1>1
<1>3. clips \in Seq(ToSet(clips)) /\ Len(clips) = Len(s)
  <2>1. \A i \in 1..Len(s) : clips[i] \in ToSet(clips)
    BY <1>2 DEF ToSet
  <2>2. Len(s) \in Nat
    OBVIOUS
  <2>3. clips \in [1..Len(s) -> ToSet(clips)]
    BY <1>2, <2>1
  <2>4. clips \in Seq(ToSet(clips))
    BY <2>2, <2>3
  <2> QED BY <1>2, <2>2, <2>4
<1>4. \A i \in 1..Len(s) : clips[i] = clip(i)
  <2> HIDE DEF clip
  <2> QED BY <1>1
<1>5. \A i \in 1..Len(s) : StartTimes(s)[i] \in Nat
  <2>1. DOMAIN s = 1..Len(s)
    OBVIOUS
  <2> QED BY <2>1, StartTimesDef
<1>6. ASSUME NEW i \in 1..Len(s)
      PROVE  /\ clips[i].id = s[i] /\ clips[i].cut = <<>>
             /\ clips[i].from = StartTimes(s)[i]
             /\ clips[i].to = StartTimes(s)[i] + Duration[s[i]]
  <2>1. PICK end : end = StartTimes(s)[i] + Duration[s[i]]
    OBVIOUS
  <2>2. clips[i] = [id |-> s[i], from |-> StartTimes(s)[i], to |-> end, cut |-> <<>>]
    BY <1>4, <2>1
  <2> HIDE DEF clip
  <2> QED BY <2>1, <2>2
<1>7. QED BY <1>1, <1>2, <1>3, <1>5, <1>6

-----------------------------------------------------------------------------
(* Dragging videos                                                         *)

\* Where the video at place k was before.
PlaceBefore(i, j, k) ==
    IF k = j THEN i ELSE IF k < j THEN IF k < i THEN k ELSE k + 1
                                  ELSE IF k - 1 < i THEN k - 1 ELSE k

\* Dragging a video moves it, and loses none.
LEMMA OnDropMoves ==
    ASSUME NEW S, NEW s \in Seq(S), NEW i \in 1..Len(s), NEW j \in 1..Len(s)
    PROVE  /\ onDrop(s, i, j) \in Seq(S) /\ Len(onDrop(s, i, j)) = Len(s)
           /\ \A k \in 1..Len(s) : onDrop(s, i, j)[k] = s[PlaceBefore(i, j, k)]
<1>1. s[i] \in S /\ Len(s) \in Nat
  OBVIOUS
<1>2. PICK q : q = RemoveAt(s, i)
  OBVIOUS
<1>3. /\ q \in Seq(S) /\ Len(q) = Len(s) - 1
      /\ \A k \in 1..(Len(s) - 1) : q[k] = IF k < i THEN s[k] ELSE s[k + 1]
  BY <1>2, RemoveAtDef
<1>4. j \in 1..(Len(q) + 1) /\ Len(q) + 1 = Len(s)
  BY <1>1, <1>3
<1>5. PICK r : r = InsertAt(q, j, s[i])
  OBVIOUS
<1>6. /\ r \in Seq(S) /\ Len(r) = Len(q) + 1 /\ r[j] = s[i]
      /\ \A k \in 1..(Len(q) + 1) : k < j => r[k] = q[k]
      /\ \A k \in 1..(Len(q) + 1) : k > j => r[k] = q[k - 1]
  <2>1. \A x \in S : \A l \in 1..(Len(q) + 1) :
            /\ InsertAt(q, l, x) \in Seq(S) /\ Len(InsertAt(q, l, x)) = Len(q) + 1
            /\ InsertAt(q, l, x)[l] = x
            /\ \A k \in 1..(Len(q) + 1) : k < l => InsertAt(q, l, x)[k] = q[k]
            /\ \A k \in 1..(Len(q) + 1) : k > l => InsertAt(q, l, x)[k] = q[k - 1]
    <3>1. q \in Seq(S)
      BY <1>3
    <3> QED BY <3>1, InsertAtDef
  <2>2. /\ InsertAt(q, j, s[i]) \in Seq(S) /\ Len(InsertAt(q, j, s[i])) = Len(q) + 1
        /\ InsertAt(q, j, s[i])[j] = s[i]
        /\ \A k \in 1..(Len(q) + 1) : k < j => InsertAt(q, j, s[i])[k] = q[k]
        /\ \A k \in 1..(Len(q) + 1) : k > j => InsertAt(q, j, s[i])[k] = q[k - 1]
    BY <1>1, <1>4, <2>1
  <2> QED BY <1>5, <2>2
<1>7. onDrop(s, i, j) = r
  BY <1>2, <1>5 DEF onDrop
<1>8. ASSUME NEW k \in 1..Len(s) PROVE r[k] = s[PlaceBefore(i, j, k)]
  <2>1. CASE k = j
    BY <1>6, <2>1 DEF PlaceBefore
  <2>2. CASE k < j
    <3>1. k \in 1..(Len(s) - 1) /\ r[k] = q[k]
      BY <1>4, <1>6, <2>2
    <3>2. q[k] = IF k < i THEN s[k] ELSE s[k + 1]
      BY <1>3, <3>1
    <3> QED BY <2>2, <3>1, <3>2 DEF PlaceBefore
  <2>3. CASE k > j
    <3>1. k - 1 \in 1..(Len(s) - 1) /\ r[k] = q[k - 1]
      BY <1>4, <1>6, <2>3
    <3>2. q[k - 1] = IF k - 1 < i THEN s[k - 1] ELSE s[(k - 1) + 1]
      BY <1>3, <3>1
    <3>3. (k - 1) + 1 = k /\ ~(k < j) /\ k # j
      BY <2>3
    <3> QED BY <3>1, <3>2, <3>3 DEF PlaceBefore
  <2> QED BY <2>1, <2>2, <2>3
<1>9. QED BY <1>4, <1>6, <1>7, <1>8

\* Where the elements of a list have come from.
LEMMA Places ==
    ASSUME NEW S, NEW T, NEW place
    PROVE  place \in Bijection(S, T) <=>
               /\ place \in [S -> T]
               /\ \A a, b \in S : place[a] = place[b] => a = b
               /\ \A l \in T : \E k \in S : place[k] = l
BY DEF Bijection, Injection, Surjection, IsInjective

\* What is appended to both lists has a place in both.
LEMMA AppendRearranged ==
    ASSUME NEW S, NEW s \in Seq(S), NEW t \in Seq(S), Rearranged(s, t), NEW x \in S
    PROVE  Rearranged(Append(s, x), Append(t, x))
<1>0. PICK place \in Bijection(DOMAIN t, DOMAIN s) : \A k \in DOMAIN t : t[k] = s[place[k]]
  BY DEF Rearranged
<1>1. /\ place \in [DOMAIN t -> DOMAIN s]
      /\ \A a, b \in DOMAIN t : place[a] = place[b] => a = b
      /\ \A l \in DOMAIN s : \E k \in DOMAIN t : place[k] = l
      /\ \A k \in DOMAIN t : t[k] = s[place[k]]
  BY <1>0, Places
<1>2. PICK u : u = Append(s, x)
  OBVIOUS
<1>3. PICK v : v = Append(t, x)
  OBVIOUS
<1>4. ASSUME NEW r \in Seq(S)
      PROVE  /\ DOMAIN Append(r, x) = DOMAIN r \cup {Len(r) + 1} /\ Len(r) + 1 \notin DOMAIN r
             /\ Append(r, x)[Len(r) + 1] = x /\ \A k \in DOMAIN r : Append(r, x)[k] = r[k]
  <2>1. DOMAIN Append(r, x) = 1..(Len(r) + 1) /\ DOMAIN r = 1..Len(r) /\ Len(r) \in Nat
    OBVIOUS
  <2>2. \A l \in Nat : 1..(l + 1) = 1..l \cup {l + 1} /\ l + 1 \notin 1..l
    OBVIOUS
  <2> QED BY <2>1, <2>2
<1>5. PICK m : m = Len(s) + 1
  OBVIOUS
<1>6. PICK n : n = Len(t) + 1
  OBVIOUS
<1>7. DOMAIN u = DOMAIN s \cup {m} /\ m \notin DOMAIN s /\ u[m] = x /\ \A i \in DOMAIN s : u[i] = s[i]
  BY <1>2, <1>4, <1>5
<1>8. DOMAIN v = DOMAIN t \cup {n} /\ n \notin DOMAIN t /\ v[n] = x /\ \A k \in DOMAIN t : v[k] = t[k]
  BY <1>3, <1>4, <1>6
<1>9. PICK longer : longer = [k \in DOMAIN v |-> IF k = n THEN m ELSE place[k]]
  OBVIOUS
<1>10. longer[n] = m /\ \A k \in DOMAIN t : longer[k] = place[k] /\ place[k] \in DOMAIN s
  BY <1>1, <1>8, <1>9
<1>11. longer \in [DOMAIN v -> DOMAIN u]
  BY <1>7, <1>8, <1>9, <1>10
<1>12. \A a, b \in DOMAIN v : longer[a] = longer[b] => a = b
  BY <1>1, <1>7, <1>8, <1>10
<1>13. \A l \in DOMAIN u : \E k \in DOMAIN v : longer[k] = l
  <2>1. ASSUME NEW l \in DOMAIN s PROVE \E k \in DOMAIN v : longer[k] = l
    <3>1. PICK k \in DOMAIN t : place[k] = l
      BY <1>1
    <3> QED BY <1>8, <1>10, <3>1
  <2>2. n \in DOMAIN v /\ longer[n] = m
    BY <1>8, <1>10
  <2> QED BY <1>7, <2>1, <2>2
<1>14. \A k \in DOMAIN v : v[k] = u[longer[k]]
  BY <1>1, <1>7, <1>8, <1>10
<1>15. Rearranged(u, v)
  <2>1. longer \in Bijection(DOMAIN v, DOMAIN u)
    BY <1>11, <1>12, <1>13, Places
  <2> QED BY <1>14, <2>1 DEF Rearranged
<1>16. QED BY <1>2, <1>3, <1>15

\* Dragging a video rearranges the list.
LEMMA DropRearranged ==
    ASSUME NEW S, NEW s \in Seq(S), NEW t \in Seq(S), Rearranged(s, t),
           NEW i \in 1..Len(t), NEW j \in 1..Len(t)
    PROVE  Rearranged(s, onDrop(t, i, j))
<1>0. PICK place \in Bijection(DOMAIN t, DOMAIN s) : \A k \in DOMAIN t : t[k] = s[place[k]]
  BY DEF Rearranged
<1>1. /\ place \in [DOMAIN t -> DOMAIN s]
      /\ \A a, b \in DOMAIN t : place[a] = place[b] => a = b
      /\ \A l \in DOMAIN s : \E k \in DOMAIN t : place[k] = l
      /\ \A k \in DOMAIN t : t[k] = s[place[k]]
  BY <1>0, Places
<1>2. PICK r \in Seq(S) : r = onDrop(t, i, j)
  BY OnDropMoves
<1>3. /\ DOMAIN r = 1..Len(t) /\ DOMAIN t = 1..Len(t)
      /\ \A k \in 1..Len(t) : r[k] = t[PlaceBefore(i, j, k)]
  BY <1>2, OnDropMoves
<1>4. \A k \in 1..Len(t) : PlaceBefore(i, j, k) \in 1..Len(t)
  BY DEF PlaceBefore
<1>5. \A a, b \in 1..Len(t) : PlaceBefore(i, j, a) = PlaceBefore(i, j, b) => a = b
  BY DEF PlaceBefore
<1>6. \A l \in 1..Len(t) : \E k \in 1..Len(t) : PlaceBefore(i, j, k) = l
  <2>1. TAKE l \in 1..Len(t)
  <2>2. CASE l = i
    BY <2>2 DEF PlaceBefore
  <2>3. CASE l < i
    <3>1. CASE l < j
      <4>1. PlaceBefore(i, j, l) = l
        BY <2>3, <3>1 DEF PlaceBefore
      <4> QED BY <4>1
    <3>2. CASE ~(l < j)
      <4>1. l + 1 \in 1..Len(t) /\ PlaceBefore(i, j, l + 1) = l
        BY <2>3, <3>2 DEF PlaceBefore
      <4> QED BY <4>1
    <3> QED BY <3>1, <3>2
  <2>4. CASE l > i
    <3>1. CASE l - 1 < j
      <4>1. l - 1 \in 1..Len(t) /\ PlaceBefore(i, j, l - 1) = l
        BY <2>4, <3>1 DEF PlaceBefore
      <4> QED BY <4>1
    <3>2. CASE ~(l - 1 < j)
      <4>1. PlaceBefore(i, j, l) = l
        BY <2>4, <3>2 DEF PlaceBefore
      <4> QED BY <4>1
    <3> QED BY <3>1, <3>2
  <2> QED BY <2>2, <2>3, <2>4
<1>7. PICK moved : moved = [k \in DOMAIN t |-> place[PlaceBefore(i, j, k)]]
  OBVIOUS
<1>8. /\ moved \in [DOMAIN r -> DOMAIN s]
      /\ \A k \in DOMAIN r : moved[k] = place[PlaceBefore(i, j, k)]
  BY <1>1, <1>3, <1>4, <1>7
<1>9. \A a, b \in DOMAIN r : moved[a] = moved[b] => a = b
  BY <1>1, <1>3, <1>4, <1>5, <1>8
<1>10. \A l \in DOMAIN s : \E k \in DOMAIN r : moved[k] = l
  <2>1. TAKE l \in DOMAIN s
  <2>2. PICK a \in DOMAIN t : place[a] = l
    BY <1>1
  <2>3. PICK k \in DOMAIN r : PlaceBefore(i, j, k) = a
    BY <1>3, <1>6
  <2> QED BY <1>8, <2>2, <2>3
<1>11. \A k \in DOMAIN r : r[k] = s[moved[k]]
  BY <1>1, <1>3, <1>4, <1>8
<1>12. Rearranged(s, r)
  <2>1. moved \in Bijection(DOMAIN r, DOMAIN s)
    BY <1>8, <1>9, <1>10, Places
  <2> QED BY <1>11, <2>1 DEF Rearranged
<1>13. QED BY <1>2, <1>12

-----------------------------------------------------------------------------
(* The order of the clips                                                  *)

\* Clips whose starts can be compared.
Timed(clips) == DOMAIN clips = 1..Len(clips) /\ Len(clips) \in Nat
                /\ \A i \in DOMAIN clips : clips[i].from \in Int

\* Starting before is a strict total order.
LEMMA StartsBeforeIsTotal ==
    ASSUME NEW clips, Timed(clips)
    PROVE  /\ \A i \in DOMAIN clips : ~StartsBefore(clips, i, i)
           /\ \A i, j \in DOMAIN clips :
                  i # j => StartsBefore(clips, i, j) \/ StartsBefore(clips, j, i)
           /\ \A i, j, k \in DOMAIN clips :
                  StartsBefore(clips, i, j) /\ StartsBefore(clips, j, k) => StartsBefore(clips, i, k)
<1>1. DOMAIN clips \subseteq Int /\ \A i \in DOMAIN clips : clips[i].from \in Int
  BY DEF Timed
<1>2. \A i \in DOMAIN clips : ~StartsBefore(clips, i, i)
  BY <1>1 DEF StartsBefore
<1>3. \A i, j \in DOMAIN clips : i # j => StartsBefore(clips, i, j) \/ StartsBefore(clips, j, i)
  BY <1>1 DEF StartsBefore
<1>4. ASSUME NEW i \in DOMAIN clips, NEW j \in DOMAIN clips, NEW k \in DOMAIN clips,
             StartsBefore(clips, i, j), StartsBefore(clips, j, k)
      PROVE  StartsBefore(clips, i, k)
  BY <1>1, <1>4 DEF StartsBefore
<1>5. QED BY <1>2, <1>3, <1>4

Earlier(clips, i) == {j \in DOMAIN clips : StartsBefore(clips, j, i)}

\* The more clips start earlier, the later a clip starts.
LEMMA EarlierGrows ==
    ASSUME NEW clips, Timed(clips), NEW i \in DOMAIN clips, NEW j \in DOMAIN clips,
           StartsBefore(clips, i, j)
    PROVE  /\ IsFiniteSet(Earlier(clips, i)) /\ Cardinality(Earlier(clips, i)) \in Nat
           /\ Cardinality(Earlier(clips, j)) \in Nat
           /\ Cardinality(Earlier(clips, i)) < Cardinality(Earlier(clips, j))
<1>1. IsFiniteSet(DOMAIN clips)
  BY NumbersUpTo DEF Timed
<1>2. Earlier(clips, i) \subseteq DOMAIN clips /\ Earlier(clips, j) \subseteq DOMAIN clips
  BY DEF Earlier
<1>3. IsFiniteSet(Earlier(clips, i)) /\ IsFiniteSet(Earlier(clips, j))
  BY <1>1, <1>2, FS_Subset
<1>4. Earlier(clips, i) \subseteq Earlier(clips, j)
  BY StartsBeforeIsTotal DEF Earlier
<1>5. i \in Earlier(clips, j) /\ i \notin Earlier(clips, i)
  BY StartsBeforeIsTotal DEF Earlier
<1>6. /\ Cardinality(Earlier(clips, i)) <= Cardinality(Earlier(clips, j))
      /\ Cardinality(Earlier(clips, j)) # Cardinality(Earlier(clips, i))
  BY <1>3, <1>4, <1>5, FS_Subset
<1>7. Cardinality(Earlier(clips, i)) \in Nat /\ Cardinality(Earlier(clips, j)) \in Nat
  BY <1>3, FS_CardinalityType
<1>8. QED BY <1>3, <1>6, <1>7

\* The clips in the order in which they start.
Sorts(clips, order) ==
    /\ order \in Bijection(DOMAIN clips, DOMAIN clips)
    /\ \A i, j \in DOMAIN clips : i < j => StartsBefore(clips, order[i], order[j])

\* Clips can be sorted: a clip's place is one more than the number of those that
\* start earlier.
LEMMA OrderExists ==
    ASSUME NEW clips, Timed(clips)
    PROVE  \E order : Sorts(clips, order)
<1> DEFINE D == DOMAIN clips
           n == Len(clips)
           place == [i \in D |-> Cardinality(Earlier(clips, i)) + 1]
           order == [k \in D |-> CHOOSE i \in D : place[i] = k]
<1>1. D = 1..n /\ n \in Nat /\ IsFiniteSet(D) /\ Cardinality(D) = n
  BY NumbersUpTo DEF Timed
<1>2. ASSUME NEW i \in D PROVE place[i] \in D
  <2>1. IsFiniteSet(D \ {i}) /\ Cardinality(D \ {i}) = n - 1
    BY <1>1, FS_RemoveElement
  <2>2. Earlier(clips, i) \subseteq D \ {i}
    BY StartsBeforeIsTotal DEF Earlier
  <2>3. IsFiniteSet(Earlier(clips, i)) /\ Cardinality(Earlier(clips, i)) <= Cardinality(D \ {i})
    BY <2>1, <2>2, FS_Subset
  <2>4. Cardinality(Earlier(clips, i)) \in Nat
    BY <2>3, FS_CardinalityType
  <2>5. place[i] = Cardinality(Earlier(clips, i)) + 1
    OBVIOUS
  <2> HIDE DEF place, D, n
  <2> QED BY <1>1, <2>1, <2>3, <2>4, <2>5
<1>3. ASSUME NEW i \in D, NEW j \in D, StartsBefore(clips, i, j) PROVE place[i] < place[j]
  BY <1>3, EarlierGrows
<1>4. place \in [D -> D]
  BY <1>2
<1>5. \A i, j \in D : place[i] = place[j] => i = j
  <2>1. \A i \in D : place[i] \in Int
    BY <1>1, <1>2
  <2> HIDE DEF place
  <2> QED BY <1>3, <2>1, StartsBeforeIsTotal
<1> HIDE DEF place, D
<1>6. place \in Injection(D, D)
  BY <1>4, <1>5 DEF Injection, IsInjective
<1>7. place \in Surjection(D, D)
  BY <1>1, <1>6, FS_Injection
<1>8. \A k \in D : \E i \in D : place[i] = k
  BY <1>7 DEF Surjection
<1>9. \A k \in D : order[k] \in D /\ place[order[k]] = k
  BY <1>8
<1>10. order \in [D -> D]
  BY <1>9
<1>11. \A k \in D : order[place[k]] = k /\ place[k] \in D
  BY <1>4, <1>5, <1>9
<1>12. order = [k \in D |-> order[k]]
  OBVIOUS
<1> HIDE DEF order
<1>13. order \in Bijection(D, D)
  <2>1. \A a, b \in D : order[a] = order[b] => a = b
    BY <1>9
  <2>2. order \in Injection(D, D)
    BY <1>10, <2>1 DEF Injection, IsInjective
  <2>3. order \in Surjection(D, D)
    BY <1>10, <1>11 DEF Surjection
  <2> QED BY <2>2, <2>3 DEF Bijection
<1>14. ASSUME NEW i \in D, NEW j \in D, i < j PROVE StartsBefore(clips, order[i], order[j])
  <2>1. ~(j < i) /\ i # j
    BY <1>1, <1>14
  <2>2. ~StartsBefore(clips, order[j], order[i])
    BY <1>3, <1>9, <2>1
  <2>3. order[i] # order[j]
    BY <1>9, <2>1
  <2> QED BY <1>9, <2>2, <2>3, StartsBeforeIsTotal DEF D
<1>15. QED BY <1>13, <1>14 DEF Sorts, D

\* The clips of a splice are sorted.
LEMMA ClipOrderSorts ==
    ASSUME NEW clips, Timed(clips)
    PROVE  Sorts(clips, sortedPositions(clips))
<1>1. \E order \in Bijection(DOMAIN clips, DOMAIN clips) :
          \A i, j \in DOMAIN clips : i < j => StartsBefore(clips, order[i], order[j])
  BY OrderExists DEF Sorts
<1>2. QED BY <1>1, Zenon DEF Sorts, sortedPositions

\* Clips that are in order stay where they are.
LEMMA SortedStays ==
    ASSUME NEW clips, Timed(clips),
           \A i, j \in DOMAIN clips : i < j => StartsBefore(clips, i, j),
           NEW order, Sorts(clips, order)
    PROVE  \A k \in DOMAIN clips : order[k] = k
<1> DEFINE D == DOMAIN clips
           Moved == {k \in D : order[k] # k}
<1>1. D \subseteq Nat
  BY DEF Timed
<1>2. /\ \A k \in D : order[k] \in D
      /\ \A i, j \in D : order[i] = order[j] => i = j
      /\ \A i \in D : \E k \in D : order[k] = i
  BY DEF Sorts, Bijection, Injection, Surjection, IsInjective
<1>3. ASSUME NEW i \in D, NEW j \in D, i < j PROVE order[i] < order[j]
  <2>1. StartsBefore(clips, order[i], order[j])
    BY <1>3 DEF Sorts
  <2>2. ~StartsBefore(clips, order[j], order[i]) /\ order[i] # order[j]
    BY <1>2, <2>1, StartsBeforeIsTotal
  <2>3. ~(order[j] < order[i])
    BY <1>2, <2>2
  <2>4. order[i] \in Nat /\ order[j] \in Nat
    BY <1>1, <1>2
  <2> QED BY <2>2, <2>3, <2>4
<1>4. SUFFICES ASSUME Moved # {} PROVE FALSE
  OBVIOUS
<1>5. PICK m \in Moved : \A k \in Moved : m <= k
  <2>1. Moved \subseteq Nat
    BY <1>1
  <2> HIDE DEF Moved
  <2> QED BY <1>4, <2>1, LeastNumber
<1>6. m \in D /\ order[m] # m /\ order[m] \in D
  BY <1>2, <1>5
<1>7. \A k \in D : k < m => order[k] = k
  BY <1>1, <1>5, <1>6
<1>8. PICK k \in D : order[k] = m
  BY <1>2, <1>6
<1> HIDE DEF D, Moved
<1>9. m < order[m]
  <2>1. ~(order[m] < m)
    BY <1>2, <1>6, <1>7
  <2>2. m \in Nat /\ order[m] \in Nat
    BY <1>1, <1>6
  <2> QED BY <1>6, <2>1, <2>2
<1>10. k # m /\ ~(k < m)
  BY <1>6, <1>7, <1>8
<1>11. m < k
  BY <1>1, <1>6, <1>8, <1>10
<1>12. order[m] < order[k]
  BY <1>3, <1>6, <1>8, <1>11
<1>13. m \in Nat /\ order[m] \in Nat /\ order[m] < m
  BY <1>1, <1>6, <1>8, <1>12
<1>14. QED BY <1>9, <1>13

-----------------------------------------------------------------------------
(* The inductive invariant                                                 *)

Keys(task) == ToSet(FileKeys(task))

InputsStored(task) == \A key \in Keys(task) : key \in DOMAIN storage

\* What worker w has of a key is what is stored.
Fetched(w, key) ==
    key \in DOMAIN storage /\ key \in DOMAIN disk[w] /\ disk[w][key] = storage[key]

Tasks == {tasks[n] : n \in DOMAIN tasks}

Downloading(w) ==
    Is(w, "download") =>
        /\ DOMAIN work[w] = {"task", "at", "left"}
        /\ IsSeq(work[w].left) /\ work[w].left # <<>>
        /\ \A key \in Keys(work[w].task) : key \in ToSet(work[w].left) \/ Fetched(w, key)

Encoding(w) == Is(w, "encode") => \A key \in Keys(work[w].task) : Fetched(w, key)

Uploading(w) ==
    Is(w, "upload") =>
        /\ InputsStored(work[w].task)
        /\ disk[w][Destination(work[w].task)] = Encoded(work[w].task, storage)

Cleaning(w) == Is(w, "cleanUp") => work[w].outcome \in {"completed", "failed"}

WorkSound(w) ==
    work[w] # Idle =>
        /\ work[w].task \in Tasks
        /\ work[w].at \in {"download", "encode", "upload", "cleanUp", "completed", "failed"}
        /\ Downloading(w) /\ Encoding(w) /\ Uploading(w) /\ Cleaning(w)

ResultSound(task) ==
    ResultOf(task) \in DOMAIN storage =>
        InputsStored(task) /\ storage[ResultOf(task)] = Encoded(task, storage)

\* Before a workflow is sent.
BeforeTasks ==
    /\ DOMAIN storage = Source
    /\ \A w \in Worker : work[w] = Idle

SceneShape ==
    /\ videos \in Seq(File) /\ selected \in Seq(File) /\ Rearranged(selected, videos)
    /\ layers # <<>> /\ videos # <<>> => layers = homeLayer(videos)
    /\ IsScene(layers)
    /\ stage = "arrange" => layers = <<>>
    /\ stage \in {"arrange", "scene"} => tasks = <<>>
    /\ layers # <<>> => tasks \in {<<>>, createRenderPlan(layers)}

StorageShape ==
    /\ \A k \in Source : k \in DOMAIN storage /\ storage[k] = <<"source", k>>
    /\ \A k \in DOMAIN storage : k \in Source \/ \E task \in Tasks : ResultOf(task) = k

\* The inductive invariant.
RenderingInv ==
    /\ SceneShape
    /\ IsWorkflow(tasks)
    /\ stage \in {"arrange", "scene"} => BeforeTasks
    /\ StorageShape
    /\ \A task \in Tasks : ResultSound(task)
    /\ DOMAIN disk = Worker /\ DOMAIN work = Worker
    /\ \A w \in Worker : WorkSound(w)

-----------------------------------------------------------------------------
(* Lemmas about the operators of the model                                 *)

\* The keys of a task are the elements of a list that is not empty.
LEMMA TaskKeys ==
    ASSUME NEW task, IsTask(task)
    PROVE  /\ \A i \in DOMAIN FileKeys(task) : FileKeys(task)[i] \in Keys(task)
           /\ 1 \in DOMAIN FileKeys(task)
<1>1. FileKeys(task) \in Seq(ToSet(FileKeys(task))) /\ FileKeys(task) # <<>>
  BY DEF IsTask, IsSeq
<1>2. PICK s \in Seq(ToSet(FileKeys(task))) : s = FileKeys(task)
  BY <1>1
<1>3. 1 \in DOMAIN s
  BY <1>1, <1>2
<1>4. QED BY <1>2, <1>3 DEF Keys, ToSet

\* What ffmpeg makes depends on the keys of the task only.
LEMMA EncodedByKeys ==
    ASSUME NEW task, IsTask(task), NEW c, NEW d, \A key \in Keys(task) : c[key] = d[key]
    PROVE  Encoded(task, c) = Encoded(task, d)
<1>1. c[FileKeys(task)[1]] = d[FileKeys(task)[1]]
  BY TaskKeys
<1>2. \A i \in Listed(task) : c[FileKeys(task)[i]] = d[FileKeys(task)[i]]
  BY TaskKeys DEF Listed
<1>3. [i \in Listed(task) |-> c[FileKeys(task)[i]]] = [i \in Listed(task) |-> d[FileKeys(task)[i]]]
  BY <1>2
<1>4. QED BY <1>1, <1>3 DEF Encoded, IsTask

-----------------------------------------------------------------------------
(* The plan of a scene                                                     *)

\* Keys of different kinds differ.
LEMMA KeysDiffer ==
    ASSUME NEW c, NEW d, NEW f
    PROVE  /\ CutKey(c) # FileKey(f) /\ CutKey(c) # VideoKey /\ VideoKey # FileKey(f)
           /\ CutKey(c) = CutKey(d) => c.id = d.id /\ c.cut = d.cut
           /\ CutKey(c) \notin Source /\ VideoKey \notin Source
<1>1. CutKey(c) # FileKey(f) /\ CutKey(c) # VideoKey /\ VideoKey # FileKey(f)
  BY DEF CutKey, FileKey, VideoKey
<1>2. CutKey(c) = CutKey(d) => c.id = d.id /\ c.cut = d.cut
  BY DEF CutKey
<1>3. \A k \in Source : k[1] = "file"
  BY RenderingAssumption DEF FileKey
<1>4. CutKey(c)[1] = "processing-artifacts" /\ VideoKey[1] = "video"
  BY DEF CutKey, VideoKey
<1>5. QED BY <1>1, <1>2, <1>3, <1>4

\* A task that downloads one file.
LEMMA SplitTaskIsTask ==
    ASSUME NEW c
    PROVE  /\ IsTask(SplitTask(c)) /\ ResultOf(SplitTask(c)) = CutKey(c)
           /\ FileKeys(SplitTask(c)) = <<FileKey(c.id)>>
<1>1. SplitTask(c).name = "Split" /\ SplitTask(c).results = <<CutKey(c)>>
  BY DEF SplitTask, Task
<1>2. FileKeys(SplitTask(c)) = <<FileKey(c.id)>>
  BY DEF SplitTask, Task, FileKeys
<1>3. \A x : <<x>> \in Seq(ToSet(<<x>>)) /\ <<x>> # <<>>
  BY DEF ToSet
<1>4. IsSeq(FileKeys(SplitTask(c))) /\ FileKeys(SplitTask(c)) # <<>>
  BY <1>2, <1>3 DEF IsSeq
<1>5. ResultOf(SplitTask(c)) = CutKey(c)
  BY <1>1 DEF ResultOf
<1>6. QED BY <1>1, <1>2, <1>4, <1>5, KeysDiffer DEF IsTask, ResultOf

\* A list has finitely many positions.
LEMMA CutsAreCounted ==
    ASSUME NEW clips, IsSeq(clips)
    PROVE  Cardinality(CutPositions(clips)) \in Nat
<1>1. PICK s \in Seq(ToSet(clips)) : s = clips
  BY DEF IsSeq
<1>2. DOMAIN s = 1..Len(s) /\ Len(s) \in Nat
  OBVIOUS
<1>3. IsFiniteSet(DOMAIN s)
  BY <1>2, NumbersUpTo
<1>4. CutPositions(clips) \subseteq DOMAIN s
  BY <1>1 DEF CutPositions
<1>5. IsFiniteSet(CutPositions(clips))
  BY <1>3, <1>4, FS_Subset
<1>6. QED BY <1>5, FS_CardinalityType

\* The splice of a scene with clips downloads one file for each clip.
LEMMA SpliceTaskIsTask ==
    ASSUME NEW clips, IsSeq(clips), clips # <<>>
    PROVE  /\ IsTask(SpliceTask(clips)) /\ ResultOf(SpliceTask(clips)) = VideoKey
           /\ SpliceTask(clips).name = "Splice"
           /\ DOMAIN FileKeys(SpliceTask(clips)) = DOMAIN clips
<1> DEFINE task == SpliceTask(clips)
<1>1. PICK s \in Seq(ToSet(clips)) : s = clips
  BY DEF IsSeq
<1>2. DOMAIN clips = 1..Len(s) /\ Len(s) \in Nat /\ 1 \in DOMAIN clips
  <2>1. DOMAIN s = 1..Len(s) /\ Len(s) \in Nat /\ s # <<>>
    BY <1>1
  <2> QED BY <1>1, <2>1
<1>3. task.name = "Splice" /\ task.results = <<VideoKey>>
  BY DEF SpliceTask, Task
<1>4. DOMAIN clipOrder(clips) = DOMAIN clips
  BY DEF clipOrder
<1>5. PICK keys : keys = FileKeys(task)
  OBVIOUS
<1>6. keys = [k \in 1..Len(s) |-> keys[k]]
  BY <1>2, <1>4, <1>5 DEF SpliceTask, Task, FileKeys
<1>7. keys \in Seq(ToSet(keys)) /\ keys # <<>>
  BY <1>2, <1>6 DEF ToSet
<1>8. IsSeq(FileKeys(task)) /\ FileKeys(task) # <<>> /\ DOMAIN FileKeys(task) = DOMAIN clips
  BY <1>2, <1>5, <1>6, <1>7 DEF IsSeq
<1>9. ResultOf(task) = VideoKey
  BY <1>3 DEF ResultOf
<1>10. QED BY <1>3, <1>8, <1>9, KeysDiffer DEF IsTask, ResultOf

\* A plan cuts what is to be cut, and splices.
LEMMA PlanShape ==
    ASSUME NEW s, IsScene(s), NEW plan, plan = createRenderPlan(s), plan # <<>>,
           NEW clips, clips = s[1], NEW count, count = Cardinality(CutPositions(clips))
    PROVE  /\ IsSeq(clips) /\ clips # <<>> /\ count \in Nat
           /\ IsSeq(plan) /\ DOMAIN plan = 1..(count + 1) /\ Len(plan) = count + 1
           /\ plan[count + 1] = SpliceTask(clips)
           /\ \A k \in 1..count : plan[k] = SplitTask(clips[NthCut(clips, k)])
<1>1. PICK splits : splits = SplitTasks(clips)
  OBVIOUS
<1>2. PICK splice : splice = SpliceTask(clips)
  OBVIOUS
<1>3. Len(s) = 1 /\ clips # <<>> /\ plan = Append(splits, splice)
  BY <1>1, <1>2 DEF createRenderPlan
<1>4. IsSeq(clips)
  <2>1. PICK q \in Seq(ToSet(s)) : q = s
    BY DEF IsSeq, IsScene
  <2>2. 1 \in DOMAIN q
    BY <1>3, <2>1
  <2> QED BY <2>1, <2>2 DEF IsScene
<1>5. count \in Nat
  BY <1>4, CutsAreCounted
<1>6. splits = [k \in 1..count |-> SplitTask(clips[NthCut(clips, k)])]
  BY <1>1 DEF SplitTasks
<1>7. PICK S : S = ToSet(splits) \cup {splice}
  OBVIOUS
<1>8. splits = [k \in 1..count |-> splits[k]] /\ \A k \in 1..count : splits[k] \in S
  BY <1>6, <1>7 DEF ToSet
<1>9. splits \in Seq(S) /\ Len(splits) = count /\ splice \in S
  <2>1. splice \in S
    BY <1>7
  <2>2. splits \in [1..count -> S]
    BY <1>8
  <2>3. splits \in Seq(S)
    BY <1>5, <2>2
  <2>4. DOMAIN splits = 1..count /\ DOMAIN splits = 1..Len(splits) /\ Len(splits) \in Nat
    BY <2>2, <2>3
  <2>5. Len(splits) = count
    BY <1>5, <2>4
  <2> QED BY <2>1, <2>3, <2>5
<1>10. /\ Append(splits, splice) \in Seq(S) /\ Len(Append(splits, splice)) = count + 1
       /\ Append(splits, splice)[count + 1] = splice
       /\ \A k \in 1..count : Append(splits, splice)[k] = splits[k]
  <2>1. PICK q \in Seq(S) : q = splits
    BY <1>9
  <2>2. Append(q, splice) \in Seq(S) /\ Len(Append(q, splice)) = Len(q) + 1
    BY <1>9
  <2>3. Append(q, splice)[Len(q) + 1] = splice
    OBVIOUS
  <2>4. \A k \in 1..Len(q) : Append(q, splice)[k] = q[k]
    OBVIOUS
  <2> QED BY <1>9, <2>1, <2>2, <2>3, <2>4, Zenon
<1>11. plan \in Seq(S) /\ Len(plan) = count + 1
  BY <1>3, <1>10
<1>12. IsSeq(plan)
  BY <1>11, SeqOfElements DEF IsSeq
<1>13. DOMAIN plan = 1..(count + 1)
  BY <1>11
<1>14. plan[count + 1] = SpliceTask(clips) /\ \A k \in 1..count : plan[k] = splits[k]
  BY <1>2, <1>3, <1>10, Zenon
<1>15. \A k \in 1..count : splits[k] = SplitTask(clips[NthCut(clips, k)])
  BY <1>6
<1>16. \A k \in 1..count : plan[k] = SplitTask(clips[NthCut(clips, k)])
  BY <1>14, <1>15, Zenon
<1>17. QED BY <1>3, <1>4, <1>5, <1>11, <1>12, <1>13, <1>14, <1>16

\* The tasks of a plan: the cuts, and the splice.
LEMMA PlanTasks ==
    ASSUME NEW s, IsScene(s), createRenderPlan(s) # <<>>
    PROVE  /\ IsSeq(s[1]) /\ s[1] # <<>>
           /\ \E n \in DOMAIN createRenderPlan(s) : createRenderPlan(s)[n] = SpliceTask(s[1])
           /\ \A n \in DOMAIN createRenderPlan(s) :
                  createRenderPlan(s)[n] = SpliceTask(s[1]) \/ \E c : createRenderPlan(s)[n] = SplitTask(c)
<1>1. PICK plan : plan = createRenderPlan(s)
  OBVIOUS
<1>2. PICK clips : clips = s[1]
  OBVIOUS
<1>3. PICK count : count = Cardinality(CutPositions(clips))
  OBVIOUS
<1>4. /\ IsSeq(clips) /\ clips # <<>> /\ count \in Nat /\ DOMAIN plan = 1..(count + 1)
      /\ plan[count + 1] = SpliceTask(clips)
      /\ \A k \in 1..count : plan[k] = SplitTask(clips[NthCut(clips, k)])
  BY <1>1, <1>2, <1>3, PlanShape
<1>5. count + 1 \in DOMAIN plan /\ \A n \in DOMAIN plan : n \in 1..count \/ n = count + 1
  BY <1>4
<1>6. \A n \in DOMAIN plan : plan[n] = SpliceTask(clips) \/ \E c : plan[n] = SplitTask(c)
  BY <1>4, <1>5, Zenon
<1>7. QED BY <1>1, <1>2, <1>4, <1>5, <1>6, Zenon

\* What is built for a scene is a workflow.
LEMMA PlanIsWorkflow ==
    ASSUME NEW s, IsScene(s), createRenderPlan(s) # <<>>
    PROVE  IsWorkflow(createRenderPlan(s))
<1>1. PICK plan : plan = createRenderPlan(s)
  OBVIOUS
<1>2. PICK splice : splice = SpliceTask(s[1])
  OBVIOUS
<1>3. \A n \in DOMAIN plan : plan[n] = splice \/ \E c : plan[n] = SplitTask(c)
  BY <1>1, <1>2, PlanTasks
<1>4. IsTask(splice) /\ ResultOf(splice) = VideoKey
  BY <1>2, PlanTasks, SpliceTaskIsTask
<1>5. \A c : IsTask(SplitTask(c)) /\ ResultOf(SplitTask(c)) = CutKey(c)
  BY SplitTaskIsTask
<1>6. ASSUME NEW m \in DOMAIN plan, NEW n \in DOMAIN plan, ResultOf(plan[m]) = ResultOf(plan[n])
      PROVE  plan[m] = plan[n]
  <2>1. CASE plan[m] = splice /\ plan[n] = splice
    BY <2>1
  <2>2. \A c : ResultOf(splice) # ResultOf(SplitTask(c))
    BY <1>4, <1>5, KeysDiffer
  <2>3. ASSUME NEW c, NEW d, plan[m] = SplitTask(c), plan[n] = SplitTask(d)
        PROVE  plan[m] = plan[n]
    <3>1. c.id = d.id /\ c.cut = d.cut
      BY <1>5, <1>6, <2>3, KeysDiffer
    <3>2. SplitTask(c) = SplitTask(d)
      BY <3>1 DEF SplitTask, CutKey
    <3> QED BY <2>3, <3>2
  <2> QED BY <1>3, <1>6, <2>1, <2>2, <2>3
<1>7. \A n \in DOMAIN plan : IsTask(plan[n])
  BY <1>3, <1>4, <1>5
<1>8. QED BY <1>1, <1>6, <1>7 DEF IsWorkflow, ResultOf

-----------------------------------------------------------------------------
(* The invariant                                                           *)

\* At first there are only the sources.
LEMMA RenderingInitial == Init => RenderingInv
<1> SUFFICES ASSUME Init PROVE RenderingInv
  OBVIOUS
<1>1. videos = <<>> /\ layers = <<>> /\ tasks = <<>> /\ stage = "arrange"
  BY DEF Init
<1>2. DOMAIN disk = Worker /\ DOMAIN work = Worker /\ \A w \in Worker : work[w] = Idle
  BY DEF Init, WorkersInit
<1>3. DOMAIN storage = Source /\ \A k \in Source : storage[k] = <<"source", k>>
  BY DEF Init, WorkersInit
<1>4. \A S : <<>> \in Seq(S) /\ DOMAIN <<>> = {}
  OBVIOUS
<1>5. SceneShape
  <2>1. PICK none \in Seq(File) : none = <<>>
    BY <1>4
  <2>2. none \in [DOMAIN none -> DOMAIN none] /\ DOMAIN none = {}
    BY <1>4, <2>1
  <2>3. Rearranged(none, none)
    <3>1. none \in Bijection(DOMAIN none, DOMAIN none)
      BY <2>2, Places
    <3> QED BY <2>2, <3>1 DEF Rearranged
  <2>4. selected = none /\ videos = none
    BY <1>1, <2>1 DEF Init
  <2> QED BY <1>1, <1>4, <2>3, <2>4 DEF SceneShape, IsScene, IsSeq
<1>6. IsWorkflow(tasks) /\ Tasks = {}
  BY <1>1, <1>4 DEF IsWorkflow, Tasks
<1>7. StorageShape /\ BeforeTasks
  BY <1>2, <1>3 DEF StorageShape, BeforeTasks
<1>8. QED BY <1>2, <1>5, <1>6, <1>7 DEF RenderingInv, WorkSound

\* What is stored stays as it is.
Grows == \A k \in DOMAIN storage : k \in DOMAIN storage' /\ storage'[k] = storage[k]

\* What is stored as a result stays right.
LEMMA ResultsStaySound ==
    ASSUME RenderingInv, UNCHANGED tasks, Grows, NEW task \in Tasks, ResultOf(task) \in DOMAIN storage
    PROVE  ResultSound(task)'
<1>1. ResultSound(task) /\ IsTask(task)
  BY DEF RenderingInv, IsWorkflow, Tasks
<1>2. InputsStored(task) /\ storage[ResultOf(task)] = Encoded(task, storage)
  BY <1>1 DEF ResultSound
<1>3. \A k \in Keys(task) : k \in DOMAIN storage' /\ storage'[k] = storage[k]
  BY <1>2 DEF InputsStored, Grows
<1>4. Encoded(task, storage') = Encoded(task, storage)
  BY <1>1, <1>3, EncodedByKeys
<1>5. storage'[ResultOf(task)] = storage[ResultOf(task)]
  BY DEF Grows
<1>6. QED BY <1>2, <1>3, <1>4, <1>5 DEF ResultSound, InputsStored

\* What a worker has downloaded stays a copy of what is stored, also when others
\* store more.
LEMMA WorkerStaysSound ==
    ASSUME RenderingInv, UNCHANGED tasks, Grows, NEW w \in Worker,
           work'[w] = work[w], disk'[w] = disk[w]
    PROVE  WorkSound(w)'
<1> SUFFICES ASSUME work[w] # Idle PROVE WorkSound(w)'
  BY DEF WorkSound
<1>1. /\ work[w].task \in Tasks
      /\ work[w].at \in {"download", "encode", "upload", "cleanUp", "completed", "failed"}
      /\ Downloading(w) /\ Encoding(w) /\ Uploading(w) /\ Cleaning(w)
  BY DEF RenderingInv, WorkSound
<1>2. IsTask(work[w].task)
  BY <1>1 DEF RenderingInv, IsWorkflow, Tasks
<1>3. \A k : Fetched(w, k) => Fetched(w, k)'
  BY DEF Fetched, Grows
<1>4. Downloading(w)' /\ Encoding(w)' /\ Cleaning(w)'
  BY <1>1, <1>3 DEF Downloading, Encoding, Cleaning, Is
<1>5. ASSUME Is(w, "upload") PROVE Uploading(w)'
  <2>1. InputsStored(work[w].task) /\ disk[w][Destination(work[w].task)] = Encoded(work[w].task, storage)
    BY <1>1, <1>5 DEF Uploading
  <2>2. \A k \in Keys(work[w].task) : k \in DOMAIN storage' /\ storage'[k] = storage[k]
    BY <2>1 DEF InputsStored, Grows
  <2>3. Encoded(work[w].task, storage') = Encoded(work[w].task, storage)
    BY <1>2, <2>2, EncodedByKeys
  <2> QED BY <2>1, <2>2, <2>3 DEF Uploading, InputsStored
<1>6. Uploading(w)'
  BY <1>5 DEF Uploading, Is
<1>7. QED BY <1>1, <1>4, <1>6 DEF WorkSound, Tasks

\* A step of one worker that stores nothing.
LEMMA OneWorkerActs ==
    ASSUME RenderingInv, UNCHANGED <<sceneVars, stage, tasks, storage>>,
           stage \notin {"arrange", "scene"}, NEW w \in Worker,
           DOMAIN work' = Worker, DOMAIN disk' = Worker,
           \A v \in Worker \ {w} : work'[v] = work[v] /\ disk'[v] = disk[v],
           WorkSound(w)'
    PROVE  RenderingInv'
<1>1. Grows
  BY DEF Grows
<1>2. \A v \in Worker : WorkSound(v)'
  <2>1. TAKE v \in Worker
  <2>2. CASE v = w
    BY <2>2
  <2>3. CASE v # w
    BY <1>1, <2>3, WorkerStaysSound
  <2> QED BY <2>2, <2>3
<1>3. \A task \in Tasks : ResultSound(task)'
  BY <1>1, ResultsStaySound DEF ResultSound
<1>4. Tasks' = Tasks
  BY DEF Tasks
<1>5. SceneShape' /\ StorageShape'
  BY <1>4 DEF RenderingInv, SceneShape, StorageShape, sceneVars
<1>6. IsWorkflow(tasks)'
  BY DEF RenderingInv
<1>7. QED BY <1>2, <1>3, <1>4, <1>5, <1>6 DEF RenderingInv

\* A worker that carries out a task does so after a workflow was sent.
LEMMA BusyAfterSending ==
    ASSUME RenderingInv, NEW w \in Worker, work[w] # Idle
    PROVE  stage \notin {"arrange", "scene"} /\ WorkSound(w) /\ IsTask(work[w].task)
<1>1. WorkSound(w) /\ stage \notin {"arrange", "scene"}
  BY DEF RenderingInv, BeforeTasks
<1>2. work[w].task \in Tasks
  BY <1>1 DEF WorkSound
<1>3. QED BY <1>1, <1>2 DEF RenderingInv, IsWorkflow, Tasks

\* Worker w has made its task's result, or has not.
EndsTask(w, k) ==
    /\ k.task = work[w].task
    /\ k.at \in {"cleanUp", "completed", "failed"}
    /\ k.at = "cleanUp" => k.outcome \in {"completed", "failed"}

\* A worker that reports, or cleans up, has nothing left that matters.
LEMMA WorkerIsDone ==
    ASSUME RenderingInv, UNCHANGED <<sceneVars, stage, tasks, storage>>,
           NEW w \in Worker, work[w] # Idle, NEW k, Sets(w, k),
           k = Idle \/ EndsTask(w, k),
           DOMAIN disk' = Worker, \A v \in Worker \ {w} : disk'[v] = disk[v]
    PROVE  RenderingInv'
<1>1. stage \notin {"arrange", "scene"} /\ work[w].task \in Tasks
  BY BusyAfterSending DEF WorkSound
<1>2. DOMAIN work' = Worker /\ work'[w] = k /\ \A v \in Worker \ {w} : work'[v] = work[v]
  BY DEF RenderingInv, Sets
<1>3. WorkSound(w)'
  <2>1. CASE k = Idle
    BY <1>2, <2>1 DEF WorkSound
  <2>2. CASE EndsTask(w, k)
    <3>1. /\ work'[w].task \in Tasks' /\ work'[w].at \in {"cleanUp", "completed", "failed"}
          /\ work'[w].at = "cleanUp" => work'[w].outcome \in {"completed", "failed"}
      BY <1>1, <1>2, <2>2 DEF Tasks, EndsTask
    <3> QED BY <3>1 DEF WorkSound, Downloading, Encoding, Uploading, Cleaning, Is
  <2> QED BY <2>1, <2>2
<1>4. QED BY <1>1, <1>2, <1>3, OneWorkerActs

\* A worker that is given a task has to download all its files.
LEMMA GivenTaskKeeps ==
    ASSUME RenderingInv, NEW n \in DOMAIN tasks, NEW w \in Worker, GiveTask(n, w)
    PROVE  RenderingInv'
<1> DEFINE task == tasks[n]
           k == [task |-> task, at |-> "download", left |-> FileKeys(task)]
<1>1. stage = "sent" /\ Sets(w, k) /\ UNCHANGED <<sceneVars, stage, tasks, storage, disk>>
  BY DEF GiveTask, StartTask
<1>2. task \in Tasks /\ IsTask(task)
  BY DEF RenderingInv, IsWorkflow, Tasks
<1>3. DOMAIN work' = Worker /\ work'[w] = k /\ \A v \in Worker \ {w} : work'[v] = work[v]
  BY <1>1 DEF RenderingInv, Sets
<1>4. Downloading(w)'
  <2>1. DOMAIN work'[w] = {"task", "at", "left"} /\ work'[w].left = FileKeys(task) /\ work'[w].task = task
    BY <1>3
  <2>2. IsSeq(FileKeys(task)) /\ FileKeys(task) # <<>>
    BY <1>2 DEF IsTask
  <2> QED BY <2>1, <2>2 DEF Downloading, Keys
<1>5. Encoding(w)' /\ Uploading(w)' /\ Cleaning(w)'
  BY <1>3 DEF Encoding, Uploading, Cleaning, Is
<1>6. WorkSound(w)'
  BY <1>1, <1>2, <1>3, <1>4, <1>5 DEF WorkSound, Tasks
<1>7. DOMAIN disk' = Worker /\ \A v \in Worker : disk'[v] = disk[v]
  BY <1>1 DEF RenderingInv
<1>8. stage \notin {"arrange", "scene"}
  BY <1>1
<1>9. QED BY <1>1, <1>3, <1>6, <1>7, <1>8, OneWorkerActs

\* A download: what was downloaded before stays, and is not overwritten by another
\* content.
LEMMA DownloadKeeps ==
    ASSUME RenderingInv, NEW w \in Worker, Download(w), UNCHANGED <<sceneVars, stage, tasks>>
    PROVE  RenderingInv'
<1> DEFINE task == work[w].task
<1>1. Is(w, "download") /\ work[w] # Idle
  BY DEF Download, Is, Idle
<1>2. /\ stage \notin {"arrange", "scene"} /\ task \in Tasks
      /\ Downloading(w)
  BY <1>1, BusyAfterSending DEF WorkSound
<1>3. PICK left : left = work[w].left
  OBVIOUS
<1>4. /\ DOMAIN work[w] = {"task", "at", "left"}
      /\ left \in Seq(ToSet(left)) /\ left # <<>>
      /\ \A key \in Keys(task) : key \in ToSet(left) \/ Fetched(w, key)
  BY <1>1, <1>2, <1>3 DEF Downloading, IsSeq
<1>5. PICK key : key = Head(left)
  OBVIOUS
<1>6. /\ key \in DOMAIN storage /\ UNCHANGED storage
      /\ disk' = [disk EXCEPT ![w] = With(disk[w], key, storage[key])]
      /\ Sets(w, IF Len(left) = 1 THEN [task |-> task, at |-> "encode"]
                                  ELSE [work[w] EXCEPT !.left = Tail(left)])
  BY <1>3, <1>5 DEF Download
<1>7. DOMAIN disk' = Worker /\ disk'[w] = With(disk[w], key, storage[key])
      /\ \A v \in Worker \ {w} : disk'[v] = disk[v]
  BY <1>6 DEF RenderingInv
<1>8. \A k : Fetched(w, k) => Fetched(w, k)'
  <2>1. TAKE k
  <2>2. CASE k = key
    BY <1>6, <1>7, <2>2 DEF Fetched, With
  <2>3. CASE k # key
    BY <1>6, <1>7, <2>3 DEF Fetched, With
  <2> QED BY <2>2, <2>3
<1>9. Fetched(w, key)'
  BY <1>6, <1>7 DEF Fetched, With
<1>10. PICK k : k = IF Len(left) = 1 THEN [task |-> task, at |-> "encode"]
                                    ELSE [work[w] EXCEPT !.left = Tail(left)]
  OBVIOUS
<1>11. DOMAIN work' = Worker /\ work'[w] = k /\ \A v \in Worker \ {w} : work'[v] = work[v]
  BY <1>6, <1>10 DEF RenderingInv, Sets
<1>12. WorkSound(w)'
  <2>1. CASE Len(left) = 1
    <3>1. ToSet(left) = {key}
      BY <1>4, <1>5, <2>1 DEF ToSet
    <3>2. work'[w].task = task /\ work'[w].at = "encode"
      BY <1>10, <1>11, <2>1
    <3>3. \A x \in Keys(task) : Fetched(w, x)'
      BY <1>4, <1>8, <1>9, <3>1
    <3>4. Encoding(w)' /\ Downloading(w)' /\ Uploading(w)' /\ Cleaning(w)'
      BY <3>2, <3>3 DEF Encoding, Downloading, Uploading, Cleaning, Is, Keys
    <3>5. work'[w].task \in Tasks'
      BY <1>2, <3>2 DEF Tasks
    <3> QED BY <3>2, <3>4, <3>5 DEF WorkSound
  <2>2. CASE Len(left) # 1
    <3>1. k = [work[w] EXCEPT !.left = Tail(left)]
      BY <1>10, <2>2
    <3>2. DOMAIN k = {"task", "at", "left"} /\ k.task = task /\ k.at = "download" /\ k.left = Tail(left)
      BY <1>1, <1>4, <3>1 DEF Is
    <3>3. \A x \in ToSet(left) : x = key \/ x \in ToSet(Tail(left))
      <4>1. \A S : \A s \in Seq(S) : s # <<>> =>
                \A i \in DOMAIN s : s[i] = Head(s) \/ \E j \in DOMAIN Tail(s) : Tail(s)[j] = s[i]
        <5> SUFFICES ASSUME NEW S, NEW s \in Seq(S), s # <<>>, NEW i \in DOMAIN s
                     PROVE  s[i] = Head(s) \/ \E j \in DOMAIN Tail(s) : Tail(s)[j] = s[i]
          OBVIOUS
        <5>1. CASE i = 1
          BY <5>1
        <5>2. CASE i # 1
          <6>1. i - 1 \in DOMAIN Tail(s)
            BY <5>2
          <6>2. Tail(s)[i - 1] = s[i]
            BY <5>2, <6>1
          <6> QED BY <6>1, <6>2
        <5> QED BY <5>1, <5>2
      <4> QED BY <1>4, <1>5, <4>1 DEF ToSet
    <3>4. Tail(left) \in Seq(ToSet(Tail(left))) /\ Tail(left) # <<>>
      <4>1. Tail(left) \in Seq(ToSet(left)) /\ Len(Tail(left)) = Len(left) - 1
        BY <1>4
      <4>2. Len(left) \in Nat /\ Len(left) # 0
        BY <1>4
      <4>3. Tail(left) # <<>>
        <5>1. Len(Tail(left)) # 0 /\ Len(<<>>) = 0
          BY <2>2, <4>1, <4>2
        <5> QED BY <5>1, Zenon
      <4>4. Tail(left) \in Seq(ToSet(Tail(left)))
        BY <4>1, SeqOfElements, Zenon
      <4> QED BY <4>3, <4>4
    <3>5. Downloading(w)'
      <4>1. \A x \in Keys(task) : x \in ToSet(Tail(left)) \/ Fetched(w, x)'
        BY <1>4, <1>8, <1>9, <3>3
      <4> QED BY <1>11, <3>2, <3>4, <4>1 DEF Downloading, IsSeq, Keys
    <3>6. Encoding(w)' /\ Uploading(w)' /\ Cleaning(w)'
      BY <1>11, <3>2 DEF Encoding, Uploading, Cleaning, Is
    <3>7. work'[w].task \in Tasks' /\ work'[w].at = "download"
      BY <1>2, <1>11, <3>2 DEF Tasks
    <3> QED BY <3>5, <3>6, <3>7 DEF WorkSound
  <2> QED BY <2>1, <2>2
<1>13. QED BY <1>2, <1>6, <1>7, <1>11, <1>12, OneWorkerActs

\* ffmpeg makes the output of what has been downloaded, and of nothing else.
LEMMA RunFFmpegKeeps ==
    ASSUME RenderingInv, NEW w \in Worker, RunFFmpeg(w), UNCHANGED <<sceneVars, stage, tasks>>
    PROVE  RenderingInv'
<1> DEFINE task == work[w].task
           k == [task |-> task, at |-> "upload"]
<1>1. Is(w, "encode") /\ work[w] # Idle
  BY DEF RunFFmpeg, Is, Idle
<1>2. stage \notin {"arrange", "scene"} /\ task \in Tasks /\ IsTask(task) /\ Encoding(w)
  BY <1>1, BusyAfterSending DEF WorkSound
<1>3. PICK others :
        /\ disk' = [disk EXCEPT ![w] = With(others, Destination(task), Encoded(task, disk[w]))]
        /\ Sets(w, k) /\ UNCHANGED storage
  BY DEF RunFFmpeg
<1>4. disk'[w] = With(others, Destination(task), Encoded(task, disk[w]))
      /\ DOMAIN disk' = Worker /\ \A v \in Worker \ {w} : disk'[v] = disk[v]
  BY <1>3 DEF RenderingInv
<1>5. disk'[w][Destination(task)] = Encoded(task, disk[w])
  BY <1>4 DEF With
<1>6. \A key \in Keys(task) : key \in DOMAIN storage /\ disk[w][key] = storage[key]
  BY <1>1, <1>2 DEF Encoding, Fetched
<1>7. Encoded(task, disk[w]) = Encoded(task, storage)
  BY <1>2, <1>6, EncodedByKeys
<1>8. DOMAIN work' = Worker /\ work'[w] = k /\ \A v \in Worker \ {w} : work'[v] = work[v]
  BY <1>3 DEF RenderingInv, Sets
<1>9. work'[w].task = task /\ work'[w].at = "upload"
  BY <1>8
<1>10. Uploading(w)'
  BY <1>3, <1>5, <1>6, <1>7, <1>9 DEF Uploading, InputsStored
<1>11. Downloading(w)' /\ Encoding(w)' /\ Cleaning(w)'
  BY <1>9 DEF Downloading, Encoding, Cleaning, Is
<1>12. WorkSound(w)'
  BY <1>2, <1>9, <1>10, <1>11 DEF WorkSound, Tasks
<1>13. QED BY <1>2, <1>3, <1>4, <1>8, <1>12, OneWorkerActs

\* An object is created, or written again with the content it has.
LEMMA UploadKeeps ==
    ASSUME RenderingInv, NEW w \in Worker, Upload(w), UNCHANGED <<sceneVars, stage, tasks>>
    PROVE  RenderingInv'
<1> DEFINE task == work[w].task
           result == ResultOf(task)
           k == [task |-> task, at |-> "cleanUp", outcome |-> "completed"]
<1>1. Is(w, "upload") /\ work[w] # Idle
  BY DEF Upload, Is, Idle
<1>2. stage \notin {"arrange", "scene"} /\ task \in Tasks /\ IsTask(task) /\ Uploading(w)
  BY <1>1, BusyAfterSending DEF WorkSound
<1>3. InputsStored(task) /\ disk[w][Destination(task)] = Encoded(task, storage)
  BY <1>1, <1>2 DEF Uploading
<1>4. /\ storage' = With(storage, result, Encoded(task, storage))
      /\ Sets(w, k) /\ UNCHANGED disk
  BY <1>3 DEF Upload, CleansUpAndReports, ResultOf
<1>5. \A other \in Tasks : ResultOf(other) = result => other = task
  BY <1>2 DEF RenderingInv, IsWorkflow, Tasks, ResultOf
<1>6. result \notin Source
  BY <1>2 DEF IsTask, ResultOf
<1>7. DOMAIN storage' = DOMAIN storage \cup {result} /\ storage'[result] = Encoded(task, storage)
  BY <1>4 DEF With
<1>8. Grows
  <2>1. SUFFICES ASSUME NEW x \in DOMAIN storage
                 PROVE  x \in DOMAIN storage' /\ storage'[x] = storage[x]
    BY DEF Grows
  <2>2. CASE x # result
    BY <1>4, <1>7, <2>2 DEF With
  <2>3. CASE x = result
    <3>1. storage[result] = Encoded(task, storage)
      BY <1>2, <2>3 DEF RenderingInv, ResultSound
    <3> QED BY <1>7, <2>3, <3>1
  <2> QED BY <2>2, <2>3
<1>9. \A x \in Keys(task) : x \in DOMAIN storage' /\ storage'[x] = storage[x]
  BY <1>3, <1>8 DEF Grows, InputsStored
<1>10. Encoded(task, storage') = Encoded(task, storage)
  BY <1>2, <1>9, EncodedByKeys
<1>11. Tasks' = Tasks
  BY DEF Tasks
<1>12. \A other \in Tasks : ResultSound(other)'
  <2>1. TAKE other \in Tasks
  <2>2. CASE ResultOf(other) = result
    <3>1. other = task
      BY <1>5, <2>2
    <3> QED BY <1>7, <1>9, <1>10, <3>1 DEF ResultSound, InputsStored
  <2>3. CASE ResultOf(other) \in DOMAIN storage
    BY <1>8, <2>3, ResultsStaySound
  <2>4. CASE ResultOf(other) # result /\ ResultOf(other) \notin DOMAIN storage
    BY <1>7, <2>4 DEF ResultSound
  <2> QED BY <2>2, <2>3, <2>4
<1>13. StorageShape'
  <2>1. \A x \in Source : x \in DOMAIN storage' /\ storage'[x] = <<"source", x>>
    BY <1>8 DEF RenderingInv, StorageShape, Grows
  <2>2. \A x \in DOMAIN storage' : x \in Source \/ \E other \in Tasks : ResultOf(other) = x
    BY <1>2, <1>7 DEF RenderingInv, StorageShape
  <2> QED BY <1>11, <2>1, <2>2 DEF StorageShape
<1>14. DOMAIN work' = Worker /\ work'[w] = k /\ \A v \in Worker \ {w} : work'[v] = work[v]
  BY <1>4 DEF RenderingInv, Sets
<1>15. \A v \in Worker : WorkSound(v)'
  <2>1. TAKE v \in Worker
  <2>2. CASE v = w
    <3>1. work'[w].task = task /\ work'[w].at = "cleanUp"
      BY <1>14
    <3>2. work'[w].task \in Tasks' /\ work'[w].outcome = "completed"
      BY <1>2, <1>11, <1>14
    <3> QED BY <2>2, <3>1, <3>2 DEF WorkSound, Downloading, Encoding, Uploading, Cleaning, Is
  <2>3. CASE v # w
    BY <1>4, <1>8, <1>14, <2>3, WorkerStaysSound
  <2> QED BY <2>2, <2>3
<1>16. SceneShape' /\ IsWorkflow(tasks)' /\ (DOMAIN disk = Worker)'
  BY <1>4 DEF RenderingInv, SceneShape, sceneVars
<1>17. QED BY <1>2, <1>11, <1>12, <1>13, <1>14, <1>15, <1>16 DEF RenderingInv

\* A step before the workers have tasks.
LEMMA BeforeSending ==
    ASSUME RenderingInv, stage \in {"arrange", "scene"}, UNCHANGED workerVars,
           SceneShape', IsWorkflow(tasks)'
    PROVE  RenderingInv'
<1>1. BeforeTasks /\ StorageShape
  BY DEF RenderingInv
<1>2. storage' = storage /\ work' = work /\ disk' = disk
  BY DEF workerVars
<1>3. BeforeTasks'
  BY <1>1, <1>2 DEF BeforeTasks
<1>4. StorageShape'
  BY <1>1, <1>2 DEF StorageShape, BeforeTasks
<1>5. \A task \in Tasks' : ResultSound(task)'
  BY <1>1, <1>2 DEF IsWorkflow, IsTask, Tasks, ResultSound, ResultOf, BeforeTasks
<1>6. \A w \in Worker : WorkSound(w)'
  BY <1>3 DEF BeforeTasks, WorkSound
<1>7. (DOMAIN disk = Worker /\ DOMAIN work = Worker)'
  BY <1>2 DEF RenderingInv
<1>8. QED BY <1>3, <1>4, <1>5, <1>6, <1>7 DEF RenderingInv

\* The scene of the home page.
LEMMA HomeLayerShape ==
    ASSUME NEW s \in Seq(File)
    PROVE  IsScene(homeLayer(s))
<1>1. Duration \in [File -> Nat]
  BY RenderingAssumption
<1>2. PICK clips :
        /\ homeLayer(s) = <<clips>> /\ DOMAIN clips = 1..Len(s) /\ clips \in Seq(ToSet(clips))
        /\ \A i \in 1..Len(s) : clips[i].from \in Nat
  BY <1>1, HomeClips
<1>3. /\ <<clips>> \in Seq(ToSet(<<clips>>))
      /\ \A k \in DOMAIN <<clips>> : <<clips>>[k] = clips
  BY DEF ToSet
<1>4. QED BY <1>2, <1>3 DEF IsSeq, IsScene

\* The scene is put together.
LEMMA ArrangeKeeps ==
    ASSUME RenderingInv,
           \/ \E f \in File : SelectVideo(f)
           \/ \E i, j \in DOMAIN videos : Drop(i, j)
           \/ CreateHomeScene
           \/ CreateScene
    PROVE  RenderingInv'
<1>1. /\ stage = "arrange" /\ UNCHANGED workerVars /\ tasks' = tasks
      /\ stage' \in {"arrange", "scene"}
  BY DEF SelectVideo, Drop, CreateHomeScene, CreateScene
<1>2. SceneShape /\ tasks = <<>> /\ layers = <<>>
  BY <1>1 DEF RenderingInv, SceneShape
<1>3. videos' \in Seq(File) /\ selected' \in Seq(File) /\ Rearranged(selected', videos')
  <2>1. PICK s \in Seq(File), v \in Seq(File) : s = selected /\ v = videos
    BY <1>2 DEF SceneShape
  <2>2. Rearranged(s, v)
    BY <1>2, <2>1 DEF SceneShape
  <2>3. ASSUME NEW f \in File, SelectVideo(f) PROVE <1>3
    <3>1. videos' = Append(v, f) /\ selected' = Append(s, f)
      BY <2>1, <2>3 DEF SelectVideo
    <3>2. Append(v, f) \in Seq(File) /\ Append(s, f) \in Seq(File)
      OBVIOUS
    <3> QED BY <2>2, <3>1, <3>2, AppendRearranged
  <2>4. ASSUME NEW i \in DOMAIN videos, NEW j \in DOMAIN videos, Drop(i, j) PROVE <1>3
    <3>1. i \in 1..Len(v) /\ j \in 1..Len(v)
      BY <2>1
    <3>2. videos' = onDrop(v, i, j) /\ selected' = s
      BY <2>1, <2>4 DEF Drop
    <3>3. onDrop(v, i, j) \in Seq(File)
      BY <3>1, OnDropMoves
    <3> QED BY <2>2, <3>1, <3>2, <3>3, DropRearranged
  <2>5. CASE CreateHomeScene \/ CreateScene
    BY <1>2, <2>5 DEF CreateHomeScene, CreateScene, SceneShape
  <2> QED BY <2>3, <2>4, <2>5
<1>4. /\ IsScene(layers')
      /\ stage' = "arrange" => layers' = <<>>
      /\ layers' # <<>> /\ videos' # <<>> => layers' = homeLayer(videos')
  <2>1. CASE layers' = layers
    BY <1>1, <1>2, <2>1 DEF SelectVideo, Drop, CreateHomeScene, CreateScene, SceneShape
  <2>2. CASE CreateHomeScene
    BY <1>2, <2>2, HomeLayerShape DEF CreateHomeScene, SceneShape
  <2>3. CASE CreateScene
    BY <1>2, <2>3, RenderingAssumption DEF CreateScene
  <2>4. (\E f \in File : SelectVideo(f)) \/ (\E i, j \in DOMAIN videos : Drop(i, j)) => layers' = layers
    BY DEF SelectVideo, Drop
  <2> QED BY <2>1, <2>2, <2>3, <2>4
<1>5. SceneShape'
  BY <1>1, <1>2, <1>3, <1>4 DEF SceneShape
<1>6. IsWorkflow(tasks)'
  BY <1>1 DEF RenderingInv
<1>7. QED BY <1>1, <1>5, <1>6, BeforeSending

\* A workflow is sent.
LEMMA SubmitKeeps ==
    ASSUME RenderingInv, RenderScene \/ SendWorkflow
    PROVE  RenderingInv'
<1>1. SceneShape /\ UNCHANGED <<sceneVars, workerVars>>
  BY DEF RenderingInv, RenderScene, SendWorkflow, Submit
<1>2. UNCHANGED <<videos, selected, layers>>
  BY <1>1 DEF sceneVars
<1>3. ASSUME NEW list, Submit(list), IsWorkflow(list), stage \in {"arrange", "scene"},
             layers # <<>> => list = createRenderPlan(layers)
      PROVE  RenderingInv'
  <2>1. tasks' = list /\ stage' \in {"sent", "rejected"}
    BY <1>3 DEF Submit
  <2>2. SceneShape'
    BY <1>1, <1>2, <1>3, <2>1 DEF SceneShape
  <2> QED BY <1>1, <1>3, <2>1, <2>2, BeforeSending
<1>4. CASE SendWorkflow
  <2>1. PICK list \in Workflow : Submit(list)
    BY <1>4 DEF SendWorkflow
  <2>2. stage = "arrange" /\ layers = <<>>
    BY <1>1, <1>4 DEF SendWorkflow, SceneShape
  <2>3. IsWorkflow(list)
    BY RenderingAssumption
  <2> QED BY <1>3, <2>1, <2>2, <2>3
<1>5. CASE RenderScene
  <2>1. stage = "scene"
    BY <1>5 DEF RenderScene
  <2>2. CASE createRenderPlan(layers) # <<>> /\ Submit(createRenderPlan(layers))
    <3>1. IsWorkflow(createRenderPlan(layers))
      BY <1>1, <2>2, PlanIsWorkflow DEF SceneShape
    <3> QED BY <1>3, <2>1, <2>2, <3>1
  <2>3. CASE stage' = "planless" /\ tasks' = tasks
    <3>1. SceneShape' /\ IsWorkflow(tasks)'
      BY <1>1, <1>2, <2>1, <2>3 DEF SceneShape, RenderingInv
    <3> QED BY <1>1, <2>1, <3>1, BeforeSending
  <2> QED BY <1>5, <2>2, <2>3 DEF RenderScene
<1>6. QED BY <1>4, <1>5

\* A worker that is done with its task, in whichever way.
LEMMA DoneKeeps ==
    ASSUME RenderingInv, NEW w \in Worker,
           \/ ReportCompleted(w) \/ ReportFailed(w)
           \/ /\ \/ RunFFmpegRefused(w) \/ CleanUp(w) \/ WorkerFault(w) \/ Kill(w)
              /\ UNCHANGED <<sceneVars, stage, tasks>>
    PROVE  RenderingInv'
<1>1. UNCHANGED <<sceneVars, stage, tasks, storage>>
  BY DEF ReportCompleted, ReportFailed, RunFFmpegRefused, CleanUp, WorkerFault, DownloadFails,
         RunFFmpegFails, UploadFails, Kill
<1>2. work[w] # Idle
  BY DEF ReportCompleted, ReportFailed, RunFFmpegRefused, CleanUp, WorkerFault, DownloadFails,
         RunFFmpegFails, UploadFails, Kill, Is, Idle
<1>3. DOMAIN disk' = Worker /\ \A v \in Worker \ {w} : disk'[v] = disk[v]
  <2>1. DOMAIN disk = Worker
    BY DEF RenderingInv
  <2>2. disk' = disk \/ \E d : disk' = [disk EXCEPT ![w] = d]
    <3>1. CASE ReportCompleted(w) \/ ReportFailed(w) \/ RunFFmpegRefused(w)
      BY <3>1 DEF ReportCompleted, ReportFailed, RunFFmpegRefused
    <3>2. CASE CleanUp(w)
      BY <3>2 DEF CleanUp
    <3>3. CASE WorkerFault(w)
      BY <3>3 DEF WorkerFault, DownloadFails, RunFFmpegFails, UploadFails
    <3>4. CASE Kill(w)
      BY <3>4 DEF Kill
    <3> QED BY <3>1, <3>2, <3>3, <3>4
  <2> QED BY <2>1, <2>2
<1>4. PICK k : Sets(w, k) /\ (k = Idle \/ EndsTask(w, k))
  <2>1. CASE ReportCompleted(w) \/ ReportFailed(w) \/ Kill(w)
    BY <2>1 DEF ReportCompleted, ReportFailed, Kill
  <2>2. CASE RunFFmpegRefused(w)
    BY <2>2 DEF RunFFmpegRefused, CleansUpAndReports, EndsTask
  <2>3. CASE WorkerFault(w)
    BY <2>3 DEF WorkerFault, DownloadFails, RunFFmpegFails, UploadFails, CleansUpAndReports, Reports, EndsTask
  <2>4. CASE CleanUp(w)
    <3>1. work[w].outcome \in {"completed", "failed"}
      BY <1>2, <2>4, BusyAfterSending DEF CleanUp, WorkSound, Cleaning
    <3> QED BY <2>4, <3>1 DEF CleanUp, Reports, EndsTask
  <2> QED BY <2>1, <2>2, <2>3, <2>4
<1>5. QED BY <1>1, <1>2, <1>3, <1>4, WorkerIsDone

\* Every step keeps the invariant.
LEMMA RenderingStep == RenderingInv /\ [Next]_vars => RenderingInv'
<1> SUFFICES ASSUME RenderingInv, [Next]_vars PROVE RenderingInv'
  OBVIOUS
<1>1. CASE \/ \E f \in File : SelectVideo(f)
           \/ \E i, j \in DOMAIN videos : Drop(i, j)
           \/ CreateHomeScene
           \/ CreateScene
  BY <1>1, ArrangeKeeps
<1>2. CASE RenderScene \/ SendWorkflow
  BY <1>2, SubmitKeeps
<1>3. ASSUME NEW n \in DOMAIN tasks, NEW w \in Worker, GiveTask(n, w) PROVE RenderingInv'
  BY <1>3, GivenTaskKeeps
<1>4. ASSUME NEW w \in Worker, WorkerGoesOn(w) PROVE RenderingInv'
  <2>1. CASE ReportCompleted(w) \/ ReportFailed(w)
    BY <2>1, DoneKeeps
  <2>2. CASE WorkerStep(w) /\ UNCHANGED <<sceneVars, stage, tasks>>
    BY <2>2, DownloadKeeps, RunFFmpegKeeps, UploadKeeps, DoneKeeps DEF WorkerStep
  <2> QED BY <1>4, <2>1, <2>2 DEF WorkerGoesOn
<1>5. ASSUME NEW w \in Worker, Fault(w) PROVE RenderingInv'
  BY <1>5, DoneKeeps DEF Fault
<1>6. ASSUME NEW w \in Worker, WorkerKilled(w) PROVE RenderingInv'
  BY <1>6, DoneKeeps DEF WorkerKilled
<1>7. CASE UNCHANGED vars
  <2>1. /\ UNCHANGED <<storage, disk, work, tasks, stage>>
        /\ UNCHANGED sceneVars
    BY <1>7 DEF vars, workerVars
  <2>2. Grows
    BY <2>1 DEF Grows
  <2>3. \A w \in Worker : WorkSound(w)'
    BY <2>1, <2>2, WorkerStaysSound
  <2>4. Tasks' = Tasks
    BY <2>1 DEF Tasks
  <2>5. \A task \in Tasks : ResultSound(task)'
    BY <2>1, <2>2, ResultsStaySound DEF ResultSound
  <2>6. SceneShape' /\ StorageShape' /\ IsWorkflow(tasks)'
    BY <2>1, <2>4 DEF RenderingInv, SceneShape, StorageShape, sceneVars
  <2>7. (stage \in {"arrange", "scene"} => BeforeTasks)' /\ (DOMAIN disk = Worker /\ DOMAIN work = Worker)'
    BY <2>1 DEF RenderingInv, BeforeTasks
  <2> QED BY <2>3, <2>4, <2>5, <2>6, <2>7 DEF RenderingInv
<1>8. QED BY <1>1, <1>2, <1>3, <1>4, <1>5, <1>6, <1>7 DEF Next, Finished

\* The invariant holds always.
THEOREM RenderingAlways == Spec => []RenderingInv
BY RenderingInitial, RenderingStep, PTL DEF Spec

\* Whatever fails and whichever workers are killed, the result that is stored of
\* a task is what ffmpeg makes of the inputs that are stored (worker/lib/tasks).
THEOREM StoredArtifactsStayRight == Spec => []StoredArtifactsAreRight
<1>1. RenderingInv => StoredArtifactsAreRight
  BY DEF RenderingInv, StoredArtifactsAreRight, ResultSound, Tasks
<1>2. QED BY <1>1, RenderingAlways, PTL

-----------------------------------------------------------------------------
(* The video of a scene                                                    *)

\* What is stored for a clip when no other clip is of the same file.
KeyOfClip(c) == IF IsCut(c) THEN CutKey(c) ELSE FileKey(c.id)

\* The clips of a file that are cut.
CutsOf(clips, id) == {i \in CutPositions(clips) : clips[i].id = id}

\* What every clip of a file is spliced from.
KeyOfFile(clips, id) ==
    IF CutsOf(clips, id) = {} THEN FileKey(id) ELSE CutKey(clips[LastOf(CutsOf(clips, id))])

\* What is prepared for a file is the last cut of it.
LEMMA PreparedFile ==
    ASSUME NEW clips, Timed(clips), NEW id
    PROVE  /\ id \in DOMAIN clipPrepArtifactIds(clips) <=> CutsOf(clips, id) # {}
           /\ CutsOf(clips, id) # {} =>
                  /\ LastOf(CutsOf(clips, id)) \in CutsOf(clips, id)
                  /\ clipPrepArtifactIds(clips)[id] = CutKey(clips[LastOf(CutsOf(clips, id))])
<1>1. PICK prep : prep = clipPrepArtifactIds(clips)
  OBVIOUS
<1>2. DOMAIN prep = {clips[j].id : j \in CutPositions(clips)}
  BY <1>1 DEF clipPrepArtifactIds
<1>3. id \in DOMAIN prep <=> CutsOf(clips, id) # {}
  BY <1>2 DEF CutsOf
<1>4. ASSUME CutsOf(clips, id) # {} PROVE LastOf(CutsOf(clips, id)) \in CutsOf(clips, id)
  <2>1. PICK N \in Nat : DOMAIN clips = 1..N
    BY DEF Timed
  <2>2. CutsOf(clips, id) \subseteq 1..N
    BY <2>1 DEF CutsOf, CutPositions
  <2> QED BY <1>4, <2>1, <2>2, LastExists
<1>5. ASSUME CutsOf(clips, id) # {} PROVE prep[id] = CutKey(clips[LastOf(CutsOf(clips, id))])
  <2>1. id \in {clips[i].id : i \in CutPositions(clips)}
    BY <1>2, <1>3, <1>5
  <2> QED BY <1>1, <2>1, Zenon DEF clipPrepArtifactIds, CutsOf
<1>6. QED BY <1>1, <1>3, <1>4, <1>5

\* It belongs to no other file.
LEMMA KeyOfFileTells ==
    ASSUME NEW clips, Timed(clips), NEW f, NEW g, KeyOfFile(clips, f) = KeyOfFile(clips, g)
    PROVE  f = g
<1>1. \A c : CutKey(c) # FileKey(f) /\ CutKey(c) # FileKey(g)
  BY KeysDiffer
<1>2. FileKey(f) = FileKey(g) => f = g
  BY DEF FileKey
<1>3. \A id : CutsOf(clips, id) # {} => clips[LastOf(CutsOf(clips, id))].id = id
  BY PreparedFile DEF CutsOf
<1>4. \A c, d : CutKey(c) = CutKey(d) => c.id = d.id
  BY KeysDiffer
<1>5. QED BY <1>1, <1>2, <1>3, <1>4 DEF KeyOfFile

\* In a scene that uses no file twice, what a file is spliced from is that of its clip.
LEMMA OneClip ==
    ASSUME NEW clips, Timed(clips), DistinctFiles(clips), NEW i \in DOMAIN clips
    PROVE  KeyOfFile(clips, clips[i].id) = KeyOfClip(clips[i])
<1>1. i \in Int
  BY DEF Timed
<1>2. LastOf({i}) = i
  BY <1>1 DEF LastOf
<1>3. CutsOf(clips, clips[i].id) = IF IsCut(clips[i]) THEN {i} ELSE {}
  BY DEF CutsOf, CutPositions, DistinctFiles
<1>4. CASE IsCut(clips[i])
  BY <1>2, <1>3, <1>4 DEF KeyOfFile, KeyOfClip
<1>5. CASE ~IsCut(clips[i])
  BY <1>3, <1>5 DEF KeyOfFile, KeyOfClip
<1>6. QED BY <1>4, <1>5

\* The places at which a file is shown for the first time, in the order of the starts.
FirstShown(clips, order) ==
    {k \in DOMAIN clips : \A j \in 1..(k - 1) : clips[order[j]].id # clips[order[k]].id}

\* The splice has a key for each clip, in the order in which they start, and lists
\* the first one of each file.
LEMMA SpliceKeys ==
    ASSUME NEW clips, Timed(clips), NEW order, order = sortedPositions(clips)
    PROVE  /\ FileKeys(SpliceTask(clips)) = [k \in DOMAIN clips |-> KeyOfFile(clips, clips[order[k]].id)]
           /\ Listed(SpliceTask(clips)) = FirstShown(clips, order)
<1> DEFINE D == DOMAIN clips
<1>1. PICK keys : keys = FileKeys(SpliceTask(clips))
  OBVIOUS
<1>2. PICK prep : prep = clipPrepArtifactIds(clips)
  OBVIOUS
<1>3. keys = [k \in D |-> IF clips[order[k]].id \in DOMAIN prep THEN prep[clips[order[k]].id]
                                                              ELSE FileKey(clips[order[k]].id)]
  <2>1. clipOrder(clips) = [k \in D |-> clips[order[k]]]
    BY DEF clipOrder
  <2>2. PICK sorted : sorted = clipOrder(clips)
    OBVIOUS
  <2>3. keys = [k \in DOMAIN sorted |-> IF sorted[k].id \in DOMAIN prep THEN prep[sorted[k].id]
                                                                       ELSE FileKey(sorted[k].id)]
    BY <1>1, <1>2, <2>2 DEF SpliceTask, Task, FileKeys
  <2>4. DOMAIN sorted = D /\ \A k \in D : sorted[k] = clips[order[k]]
    BY <2>1, <2>2
  <2> HIDE DEF D
  <2> QED BY <2>3, <2>4
<1>4. \A id : (IF id \in DOMAIN prep THEN prep[id] ELSE FileKey(id)) = KeyOfFile(clips, id)
  BY <1>2, PreparedFile DEF KeyOfFile
<1>5. keys = [k \in D |-> KeyOfFile(clips, clips[order[k]].id)]
  BY <1>3, <1>4
<1>6. \A k, j \in D : keys[j] = keys[k] <=> clips[order[j]].id = clips[order[k]].id
  BY <1>5, KeyOfFileTells
<1>7. DOMAIN keys = D /\ \A k \in D : \A j \in 1..(k - 1) : j \in D
  BY <1>5 DEF Timed
<1>8. Listed(SpliceTask(clips)) = FirstShown(clips, order)
  <2>1. Listed(SpliceTask(clips)) = {k \in D : \A j \in 1..(k - 1) : keys[j] # keys[k]}
    BY <1>1, <1>7 DEF Listed
  <2>2. \A k \in D : (\A j \in 1..(k - 1) : keys[j] # keys[k])
                         <=> (\A j \in 1..(k - 1) : clips[order[j]].id # clips[order[k]].id)
    BY <1>6, <1>7
  <2> QED BY <2>1, <2>2 DEF FirstShown
<1>9. QED BY <1>1, <1>5, <1>8

\* In a scene that uses no file twice, every clip is the first of its file.
LEMMA AllFirst ==
    ASSUME NEW clips, Timed(clips), DistinctFiles(clips), NEW order \in Bijection(DOMAIN clips, DOMAIN clips)
    PROVE  FirstShown(clips, order) = DOMAIN clips
<1>1. \A k \in DOMAIN clips : order[k] \in DOMAIN clips
  BY DEF Bijection, Injection
<1>2. \A k, l \in DOMAIN clips : order[k] = order[l] => k = l
  BY DEF Bijection, Injection, IsInjective
<1>3. \A k \in DOMAIN clips : \A j \in 1..(k - 1) : j \in DOMAIN clips /\ j # k
  BY DEF Timed
<1>4. ASSUME NEW k \in DOMAIN clips, NEW j \in 1..(k - 1) PROVE clips[order[j]].id # clips[order[k]].id
  BY <1>1, <1>2, <1>3 DEF DistinctFiles
<1>5. QED BY <1>4 DEF FirstShown

\* What is stored for a clip is its footage.
LEMMA FootageIsStored ==
    ASSUME RenderingInv, tasks = createRenderPlan(layers), tasks # <<>>,
           NEW c, KeyOfClip(c) \in DOMAIN storage
    PROVE  storage[KeyOfClip(c)] = Footage(c)
<1>1. IsScene(layers) /\ StorageShape /\ \A task \in Tasks : ResultSound(task)
  BY DEF RenderingInv, SceneShape
<1>2. IsSeq(Clips) /\ Clips # <<>>
  BY <1>1, PlanTasks DEF Clips
<1>3. \A task \in Tasks : task = SpliceTask(Clips) \/ \E d : task = SplitTask(d)
  BY <1>1, PlanTasks DEF Tasks, Clips
<1>4. ResultOf(SpliceTask(Clips)) = VideoKey
  BY <1>2, SpliceTaskIsTask
<1>5. ASSUME NEW f, FileKey(f) \in DOMAIN storage PROVE storage[FileKey(f)] = <<"source", FileKey(f)>>
  <2>1. \A task \in Tasks : ResultOf(task) # FileKey(f)
    BY <1>3, <1>4, SplitTaskIsTask, KeysDiffer
  <2> QED BY <1>1, <1>5, <2>1 DEF StorageShape
<1>6. CASE ~IsCut(c)
  BY <1>5, <1>6 DEF KeyOfClip, Footage
<1>7. CASE IsCut(c)
  <2>1. CutKey(c) \in DOMAIN storage /\ KeyOfClip(c) = CutKey(c)
    BY <1>7 DEF KeyOfClip
  <2>2. PICK task \in Tasks : ResultOf(task) = CutKey(c)
    BY <1>1, <2>1, KeysDiffer DEF StorageShape
  <2>3. PICK d : task = SplitTask(d)
    BY <1>3, <1>4, <2>2, KeysDiffer
  <2>4. c.id = d.id /\ c.cut = d.cut
    BY <2>2, <2>3, SplitTaskIsTask, KeysDiffer
  <2>5. InputsStored(task) /\ storage[CutKey(c)] = Encoded(task, storage)
    BY <1>1, <2>1, <2>2 DEF ResultSound
  <2>6. FileKeys(task) = <<FileKey(c.id)>> /\ task.name = "Split" /\ task.parameters.cut = c.cut
    BY <2>3, <2>4, SplitTaskIsTask DEF SplitTask, Task
  <2>7. FileKey(c.id) \in Keys(task)
    BY <2>6 DEF Keys, ToSet
  <2>8. storage[FileKey(c.id)] = <<"source", FileKey(c.id)>>
    BY <1>5, <2>5, <2>7 DEF InputsStored
  <2>9. Encoded(task, storage) = <<"cut", storage[FileKey(c.id)], c.cut>>
    BY <2>6 DEF Encoded
  <2> QED BY <1>7, <2>1, <2>5, <2>8, <2>9 DEF Footage
<1>8. QED BY <1>6, <1>7

\* The clips of a scene that has a plan can be compared.
LEMMA SceneIsTimed ==
    ASSUME NEW s, IsScene(s), createRenderPlan(s) # <<>>
    PROVE  Timed(s[1])
<1>1. PICK clips : clips = s[1]
  OBVIOUS
<1>2. Len(s) = 1 /\ IsSeq(clips)
  BY <1>1, PlanTasks DEF createRenderPlan
<1>3. PICK q \in Seq(ToSet(s)) : q = s
  BY DEF IsScene, IsSeq
<1>4. 1 \in DOMAIN s
  BY <1>2, <1>3
<1>5. \A i \in DOMAIN clips : clips[i].from \in Int
  BY <1>1, <1>4 DEF IsScene
<1>6. PICK c \in Seq(ToSet(clips)) : c = clips
  BY <1>2 DEF IsSeq
<1>7. DOMAIN c = 1..Len(c) /\ Len(c) \in Nat
  OBVIOUS
<1>8. QED BY <1>1, <1>5, <1>6, <1>7 DEF Timed

\* What a file is seen as: the last of its cuts, or the whole of it.
FootageOf(id) ==
    LET cuts == {i \in DOMAIN Clips : Clips[i].id = id /\ IsCut(Clips[i])}
    IN  IF cuts = {} THEN <<"source", FileKey(id)>> ELSE Footage(Clips[LastOf(cuts)])

\* What is stored for a file is its footage.
LEMMA FileFootageIsStored ==
    ASSUME RenderingInv, tasks = createRenderPlan(layers), tasks # <<>>, Timed(Clips),
           NEW id, KeyOfFile(Clips, id) \in DOMAIN storage
    PROVE  storage[KeyOfFile(Clips, id)] = FootageOf(id)
<1>1. CutsOf(Clips, id) = {i \in DOMAIN Clips : Clips[i].id = id /\ IsCut(Clips[i])}
  BY DEF CutsOf, CutPositions
<1>2. CASE CutsOf(Clips, id) = {}
  <2>1. PICK c : c = [id |-> id, cut |-> <<>>]
    OBVIOUS
  <2>2. KeyOfClip(c) = FileKey(id) /\ Footage(c) = <<"source", FileKey(id)>>
    BY <2>1 DEF KeyOfClip, Footage, IsCut
  <2>3. KeyOfFile(Clips, id) = FileKey(id) /\ FootageOf(id) = <<"source", FileKey(id)>>
    BY <1>1, <1>2, Zenon DEF KeyOfFile, FootageOf
  <2> QED BY <2>2, <2>3, FootageIsStored
<1>3. CASE CutsOf(Clips, id) # {}
  <2>1. PICK c : c = Clips[LastOf(CutsOf(Clips, id))]
    OBVIOUS
  <2>2. IsCut(c)
    <3>1. LastOf(CutsOf(Clips, id)) \in CutsOf(Clips, id)
      BY <1>3, PreparedFile
    <3>2. \A i \in CutsOf(Clips, id) : IsCut(Clips[i])
      BY DEF CutsOf, CutPositions
    <3> QED BY <2>1, <3>1, <3>2
  <2>3. KeyOfFile(Clips, id) = KeyOfClip(c)
    BY <1>3, <2>1, <2>2 DEF KeyOfFile, KeyOfClip
  <2>4. FootageOf(id) = Footage(c)
    BY <1>1, <1>3, <2>1, Zenon DEF FootageOf
  <2> QED BY <2>3, <2>4, FootageIsStored
<1>4. QED BY <1>2, <1>3

\* What the video consists of, whatever the scene.
LEMMA VideoContent ==
    ASSUME RenderingInv, layers # <<>>, VideoKey \in DOMAIN storage,
           NEW order, order = sortedPositions(Clips)
    PROVE  /\ tasks = createRenderPlan(layers) /\ tasks # <<>> /\ Timed(Clips)
           /\ order \in Bijection(DOMAIN Clips, DOMAIN Clips)
           /\ \A a, b \in DOMAIN Clips : a < b => Clips[order[a]].from <= Clips[order[b]].from
           /\ storage[VideoKey] =
                  <<"splice", [k \in FirstShown(Clips, order) |-> FootageOf(Clips[order[k]].id)]>>
<1> DEFINE task == SpliceTask(Clips)
           keys == FileKeys(task)
           D == DOMAIN Clips
<1>1. IsScene(layers) /\ StorageShape /\ (\A t \in Tasks : ResultSound(t)) /\ SceneShape
  BY DEF RenderingInv, SceneShape
<1>2. PICK t \in Tasks : ResultOf(t) = VideoKey
  BY <1>1, KeysDiffer DEF StorageShape
<1>3. tasks = createRenderPlan(layers) /\ tasks # <<>>
  <2>1. tasks # <<>>
    BY <1>2 DEF Tasks
  <2> QED BY <1>1, <2>1 DEF SceneShape
<1>4. IsSeq(Clips) /\ Clips # <<>> /\ (t = task \/ \E d : t = SplitTask(d))
  BY <1>1, <1>2, <1>3, PlanTasks DEF Tasks, Clips
<1>5. t = task /\ task.name = "Splice"
  BY <1>2, <1>4, SplitTaskIsTask, SpliceTaskIsTask, KeysDiffer
<1>6. Timed(Clips)
  BY <1>1, <1>3, SceneIsTimed DEF Clips
<1>7. order \in Bijection(D, D) /\ \A a, b \in D : a < b => StartsBefore(Clips, order[a], order[b])
  BY <1>6, ClipOrderSorts DEF Sorts
<1>8. \A k \in D : order[k] \in D
  BY <1>7 DEF Bijection, Injection
<1>9. \A a, b \in D : a < b => Clips[order[a]].from <= Clips[order[b]].from
  BY <1>6, <1>7, <1>8 DEF StartsBefore, Timed
<1>10. PICK first : first = FirstShown(Clips, order)
  OBVIOUS
<1>11. keys = [k \in D |-> KeyOfFile(Clips, Clips[order[k]].id)] /\ Listed(task) = first
  BY <1>6, <1>10, SpliceKeys
<1>12. InputsStored(task) /\ storage[VideoKey] = Encoded(task, storage)
  BY <1>1, <1>2, <1>5 DEF ResultSound
<1>13. storage[VideoKey] = <<"splice", [k \in first |-> storage[keys[k]]]>>
  BY <1>5, <1>11, <1>12 DEF Encoded
<1>14. ASSUME NEW k \in first PROVE storage[keys[k]] = FootageOf(Clips[order[k]].id)
  <2>1. PICK id : id = Clips[order[k]].id
    OBVIOUS
  <2>2. k \in D
    BY <1>10 DEF FirstShown
  <2>3. keys[k] = KeyOfFile(Clips, id) /\ keys[k] \in Keys(task)
    BY <1>11, <2>1, <2>2 DEF Keys, ToSet
  <2>4. KeyOfFile(Clips, id) \in DOMAIN storage
    BY <1>12, <2>3 DEF InputsStored
  <2> QED BY <1>3, <1>6, <2>1, <2>3, <2>4, FileFootageIsStored
<1>15. [k \in first |-> storage[keys[k]]] = [k \in first |-> FootageOf(Clips[order[k]].id)]
  BY <1>14
<1>16. QED BY <1>3, <1>6, <1>7, <1>9, <1>10, <1>13, <1>15

\* The video that is stored of a scene that uses no file twice consists of its
\* clips, each cut as it says and each once, in the order of their starts
\* (api/src/render, api/src/workflow, worker/lib/tasks).
THEOREM VideoIsAlwaysTheScene == Spec => []VideoIsTheScene
<1> DEFINE D == DOMAIN Clips
<1>1. ASSUME RenderingInv, layers # <<>>, VideoKey \in DOMAIN storage, DistinctFiles(Clips),
             NEW order, order = sortedPositions(Clips)
      PROVE  /\ order \in Bijection(D, D)
             /\ \A a, b \in D : a < b => Clips[order[a]].from <= Clips[order[b]].from
             /\ storage[VideoKey] = <<"splice", [k \in D |-> Footage(Clips[order[k]])]>>
  <2>1. /\ Timed(Clips) /\ order \in Bijection(D, D)
        /\ \A a, b \in D : a < b => Clips[order[a]].from <= Clips[order[b]].from
        /\ storage[VideoKey] =
               <<"splice", [k \in FirstShown(Clips, order) |-> FootageOf(Clips[order[k]].id)]>>
    BY <1>1, VideoContent
  <2>2. FirstShown(Clips, order) = D
    BY <1>1, <2>1, AllFirst
  <2>3. ASSUME NEW k \in D PROVE FootageOf(Clips[order[k]].id) = Footage(Clips[order[k]])
    <3>1. PICK i \in D : i = order[k]
      BY <2>1 DEF Bijection, Injection
    <3>2. i \in Int /\ LastOf({i}) = i
      BY <2>1 DEF Timed, LastOf
    <3>3. {j \in D : Clips[j].id = Clips[i].id /\ IsCut(Clips[j])} = IF IsCut(Clips[i]) THEN {i} ELSE {}
      BY <1>1 DEF DistinctFiles
    <3>4. CASE IsCut(Clips[i])
      BY <3>1, <3>2, <3>3, <3>4 DEF FootageOf
    <3>5. CASE ~IsCut(Clips[i])
      BY <3>1, <3>3, <3>5 DEF FootageOf, Footage
    <3> QED BY <3>4, <3>5
  <2>4. [k \in D |-> FootageOf(Clips[order[k]].id)] = [k \in D |-> Footage(Clips[order[k]])]
    BY <2>3
  <2> QED BY <2>1, <2>2, <2>4
<1>2. RenderingInv => VideoIsTheScene
  BY <1>1, Zenon DEF VideoIsTheScene
<1>3. QED BY <1>2, RenderingAlways, PTL

-----------------------------------------------------------------------------
(* The plan is accepted                                                    *)

\* A set is listed without repetition.
LEMMA SetToSeqDef ==
    ASSUME NEW S, IsFiniteSet(S)
    PROVE  SetToSeq(S) \in Seq(S) /\ ToSet(SetToSeq(S)) = S
<1>1. PICK n \in Nat : n = Cardinality(S)
  BY FS_CardinalityType
<1>2. PICK f : f \in Bijection(1..n, S)
  BY <1>1, FS_CardinalityType DEF ExistsBijection
<1>3. f \in [1..n -> S] /\ IsInjective(f)
  BY <1>2 DEF Bijection, Injection, IsInjective
<1>4. PICK q : q = SetToSeq(S)
  OBVIOUS
<1>5. q \in [1..n -> S] /\ IsInjective(q)
  BY <1>1, <1>3, <1>4, Zenon DEF SetToSeq
<1>6. q \in Injection(1..n, S)
  BY <1>5 DEF Injection, IsInjective
<1>7. q \in Surjection(1..n, S)
  BY <1>1, <1>6, NumbersUpTo, FS_Injection
<1>8. ToSet(q) = S
  BY <1>5, <1>7 DEF Surjection, ToSet
<1>9. q \in Seq(S)
  BY <1>5
<1>10. QED BY <1>4, <1>8, <1>9

\* Each clip that is cut is the k-th one for one k.
LEMMA NthCutDef ==
    ASSUME NEW clips, IsSeq(clips), NEW count, count = Cardinality(CutPositions(clips))
    PROVE  /\ count \in Nat
           /\ \A k \in 1..count : NthCut(clips, k) \in CutPositions(clips)
           /\ \A i \in CutPositions(clips) : \E k \in 1..count : NthCut(clips, k) = i
<1>1. PICK S : S = CutPositions(clips)
  OBVIOUS
<1>2. PICK N \in Nat : S \subseteq 1..N
  <2>1. clips \in Seq(ToSet(clips))
    BY DEF IsSeq
  <2>2. DOMAIN clips = 1..Len(clips) /\ Len(clips) \in Nat
    BY <2>1
  <2> QED BY <1>1, <2>2 DEF CutPositions
<1>3. IsFiniteSet(S) /\ count \in Nat /\ count = Cardinality(S)
  <2>1. IsFiniteSet(S)
    BY <1>2, NumbersUpTo, FS_Subset
  <2> QED BY <1>1, <2>1, FS_CardinalityType
<1> DEFINE UpTo(i) == {j \in S : j <= i}
<1>4. ASSUME NEW i \in S
      PROVE  IsFiniteSet(UpTo(i)) /\ Cardinality(UpTo(i)) \in 1..count
  <2>1. UpTo(i) \subseteq S /\ i \in UpTo(i)
    BY <1>2
  <2> HIDE DEF UpTo
  <2>2. IsFiniteSet(UpTo(i)) /\ Cardinality(UpTo(i)) <= count /\ Cardinality(UpTo(i)) \in Nat
    BY <1>3, <2>1, FS_Subset, FS_CardinalityType
  <2>3. Cardinality(UpTo(i)) # 0
    BY <2>1, <2>2, FS_EmptySet
  <2> QED BY <1>3, <2>2, <2>3
<1>5. ASSUME NEW i \in S, NEW j \in S, Cardinality(UpTo(i)) = Cardinality(UpTo(j)) PROVE i = j
  <2>1. i \in 1..N /\ j \in 1..N
    BY <1>2
  <2>2. ASSUME NEW a \in S, NEW b \in S, a < b PROVE Cardinality(UpTo(a)) # Cardinality(UpTo(b))
    <3>1. a \in 1..N /\ b \in 1..N /\ \A c \in S : c \in 1..N
      BY <1>2
    <3>a. a \in Int /\ b \in Int /\ \A c \in S : c \in Int
      BY <3>1
    <3>b. b <= b /\ ~(b <= a)
      BY <2>2, <3>a
    <3>c. \A c \in S : c <= a => c <= b
      BY <2>2, <3>a
    <3>2. UpTo(a) \subseteq UpTo(b) /\ b \in UpTo(b) /\ b \notin UpTo(a)
      BY <2>2, <3>b, <3>c
    <3> HIDE DEF UpTo
    <3> QED BY <1>4, <3>2, FS_Subset
  <2> HIDE DEF UpTo
  <2> QED BY <1>5, <2>1, <2>2
<1>6. PICK f : f = [i \in S |-> Cardinality(UpTo(i))]
  OBVIOUS
<1>7. f \in Injection(S, 1..count)
  <2> HIDE DEF UpTo
  <2>1. f \in [S -> 1..count]
    BY <1>4, <1>6
  <2> QED BY <1>5, <1>6, <2>1 DEF Injection, IsInjective
<1>8. f \in Surjection(S, 1..count)
  BY <1>3, <1>7, NumbersUpTo, FS_Injection
<1>9. ASSUME NEW k \in 1..count PROVE NthCut(clips, k) \in S /\ f[NthCut(clips, k)] = k
  <2>1. PICK i \in S : f[i] = k
    BY <1>8 DEF Surjection
  <2>2. PICK n : n = CHOOSE m \in S : Cardinality(UpTo(m)) = k
    OBVIOUS
  <2>3. n \in S /\ Cardinality(UpTo(n)) = k
    <3> HIDE DEF UpTo
    <3> QED BY <1>6, <2>1, <2>2
  <2>4. NthCut(clips, k) = n
    BY <1>1, <2>2, Zenon DEF NthCut
  <2> HIDE DEF UpTo
  <2> QED BY <1>6, <2>3, <2>4
<1>10. ASSUME NEW i \in S PROVE \E k \in 1..count : NthCut(clips, k) = i
  <2>1. f[i] \in 1..count
    BY <1>7 DEF Injection
  <2>2. NthCut(clips, f[i]) \in S /\ f[NthCut(clips, f[i])] = f[i]
    BY <1>9, <2>1
  <2>3. NthCut(clips, f[i]) = i
    <3> HIDE DEF UpTo
    <3> QED BY <1>5, <1>6, <2>2
  <2> QED BY <2>1, <2>3
<1>11. QED BY <1>1, <1>3, <1>9, <1>10

\* The splice depends on what was cut, and on every cut it downloads.
LEMMA SpliceDeps ==
    ASSUME NEW clips, IsSeq(clips), NEW deps, deps = SpliceDependencies(clips)
    PROVE  /\ IsSeq(deps)
           /\ \A d \in ToSet(deps) :
                  d.type = "artifact" /\ \E i \in CutPositions(clips) : d.id = CutKey(clips[i])
           /\ Timed(clips) =>
                  \A id : CutsOf(clips, id) # {} =>
                      \E d \in ToSet(deps) : d.type = "artifact" /\ d.id = KeyOfFile(clips, id)
<1>1. PICK prep : prep = clipPrepArtifactIds(clips)
  OBVIOUS
<1>2. DOMAIN prep = {clips[i].id : i \in CutPositions(clips)}
  BY <1>1 DEF clipPrepArtifactIds
<1>3. PICK S : S = {[type |-> "artifact", id |-> prep[id]] : id \in DOMAIN prep}
  OBVIOUS
<1>4. PICK N \in Nat : DOMAIN clips = 1..N /\ CutPositions(clips) \subseteq 1..N
  <2>1. PICK q \in Seq(ToSet(clips)) : q = clips
    BY DEF IsSeq
  <2>2. DOMAIN q = 1..Len(q) /\ Len(q) \in Nat
    OBVIOUS
  <2> QED BY <2>1, <2>2 DEF CutPositions
<1>5. IsFiniteSet(S)
  <2>1. IsFiniteSet(CutPositions(clips))
    BY <1>4, NumbersUpTo, FS_Subset
  <2>2. PICK f : f = [i \in CutPositions(clips) |-> [type |-> "artifact", id |-> prep[clips[i].id]]]
    OBVIOUS
  <2>3. f \in [CutPositions(clips) -> S]
    BY <1>2, <1>3, <2>2
  <2>4. \A d \in S : \E i \in CutPositions(clips) : f[i] = d
    BY <1>2, <1>3, <2>2
  <2>5. f \in Surjection(CutPositions(clips), S)
    BY <2>3, <2>4 DEF Surjection
  <2> QED BY <2>1, <2>5, FS_Surjection
<1>6. deps \in Seq(S) /\ ToSet(deps) = S
  <2>1. deps = SetToSeq(S)
    <3>1. SpliceDependencies(clips) = SetToSeq({[type |-> "artifact", id |-> prep[id]] : id \in DOMAIN prep})
      BY <1>1, Zenon DEF SpliceDependencies
    <3> QED BY <1>3, <3>1
  <2> QED BY <1>5, <2>1, SetToSeqDef
<1>7. ASSUME NEW id \in DOMAIN prep PROVE \E i \in CutPositions(clips) : prep[id] = CutKey(clips[i])
  <2>1. PICK same : same = {i \in CutPositions(clips) : clips[i].id = id}
    OBVIOUS
  <2>2. same \subseteq 1..N /\ same # {}
    BY <1>2, <1>4, <1>7, <2>1
  <2>3. LastOf(same) \in same
    BY <2>2, LastExists
  <2>4. prep[id] = CutKey(clips[LastOf({i \in CutPositions(clips) : clips[i].id = id})])
    BY <1>1, <1>2, <1>7, Zenon DEF clipPrepArtifactIds
  <2> QED BY <2>1, <2>3, <2>4
<1>8. \A d \in S : d.type = "artifact" /\ \E i \in CutPositions(clips) : d.id = CutKey(clips[i])
  BY <1>3, <1>7
<1>9. ASSUME Timed(clips), NEW id, CutsOf(clips, id) # {}
      PROVE  \E d \in S : d.type = "artifact" /\ d.id = KeyOfFile(clips, id)
  <2>1. id \in DOMAIN prep /\ prep[id] = KeyOfFile(clips, id)
    BY <1>1, <1>9, PreparedFile DEF KeyOfFile
  <2>2. PICK d : d = [type |-> "artifact", id |-> prep[id]]
    OBVIOUS
  <2>3. d.type = "artifact" /\ d.id = KeyOfFile(clips, id)
    BY <2>1, <2>2
  <2>4. d \in S
    BY <1>3, <2>1, <2>2
  <2> QED BY <2>3, <2>4
<1>10. IsSeq(deps)
  BY <1>6, SeqOfElements DEF IsSeq
<1>11. QED BY <1>6, <1>8, <1>9, <1>10

\* The fields of the tasks of a plan.
IsPlan(plan, clips, count) ==
    /\ count = Cardinality(CutPositions(clips)) /\ count \in Nat
    /\ IsSeq(clips) /\ IsSeq(plan) /\ Len(plan) = count + 1
    /\ plan[count + 1].name = "Splice" /\ plan[count + 1].results = <<VideoKey>>
    /\ plan[count + 1].dependencies = SpliceDependencies(clips)
    /\ \A k \in 1..count : plan[k].dependencies = <<>>
    /\ \A k \in 1..count : plan[k].results = <<CutKey(clips[NthCut(clips, k)])>>
    /\ count + 1 \in DOMAIN plan /\ \A k \in 1..count : k \in DOMAIN plan
    /\ \A n \in DOMAIN plan : n \in 1..count \/ n = count + 1

LEMMA PlanFields ==
    ASSUME NEW s, IsScene(s), NEW plan, plan = createRenderPlan(s), plan # <<>>
    PROVE  \E count : IsPlan(plan, s[1], count)
<1>1. PICK clips : clips = s[1]
  OBVIOUS
<1>2. PICK count : count = Cardinality(CutPositions(clips))
  OBVIOUS
<1>3. /\ IsSeq(clips) /\ clips # <<>> /\ count \in Nat
      /\ IsSeq(plan) /\ DOMAIN plan = 1..(count + 1) /\ Len(plan) = count + 1
      /\ plan[count + 1] = SpliceTask(clips)
      /\ \A k \in 1..count : plan[k] = SplitTask(clips[NthCut(clips, k)])
  BY <1>1, <1>2, PlanShape
<1>4. /\ SpliceTask(clips).name = "Splice" /\ SpliceTask(clips).results = <<VideoKey>>
      /\ SpliceTask(clips).dependencies = SpliceDependencies(clips)
  BY DEF SpliceTask, Task
<1>5. \A c : SplitTask(c).dependencies = <<>> /\ SplitTask(c).results = <<CutKey(c)>>
  BY DEF SplitTask, Task
<1>6. \A k \in 1..count : plan[k].dependencies = <<>>
  BY <1>3, <1>5, Zenon
<1>7. \A k \in 1..count : plan[k].results = <<CutKey(clips[NthCut(clips, k)])>>
  BY <1>3, <1>5, Zenon
<1>8. /\ count + 1 \in DOMAIN plan /\ \A k \in 1..count : k \in DOMAIN plan
      /\ \A n \in DOMAIN plan : n \in 1..count \/ n = count + 1
  BY <1>3
<1>9. IsPlan(plan, clips, count)
  BY <1>2, <1>3, <1>4, <1>6, <1>7, <1>8, Zenon DEF IsPlan
<1>10. QED BY <1>1, <1>9

\* A plan is what the task manager parses, and each of its dependencies is a result.
LEMMA PlanIsDefinition ==
    ASSUME NEW s, IsScene(s), NEW plan, plan = createRenderPlan(s), plan # <<>>
    PROVE  IsDefinition(plan) /\ IsResolvable(plan)
<1>1. PICK clips : clips = s[1]
  OBVIOUS
<1>2. PICK count : IsPlan(plan, clips, count)
  BY <1>1, PlanFields
<1>3. PICK deps : deps = SpliceDependencies(clips)
  OBVIOUS
<1>4. /\ count = Cardinality(CutPositions(clips)) /\ count \in Nat /\ IsSeq(clips) /\ IsSeq(plan)
      /\ plan[count + 1].dependencies = deps /\ plan[count + 1].results = <<VideoKey>>
      /\ \A k \in 1..count : plan[k].dependencies = <<>>
      /\ \A k \in 1..count : plan[k].results = <<CutKey(clips[NthCut(clips, k)])>>
      /\ \A n \in DOMAIN plan : n \in 1..count \/ n = count + 1
      /\ \A k \in 1..count : k \in DOMAIN plan
  BY <1>2, <1>3, Zenon DEF IsPlan
<1>5. /\ IsSeq(deps)
      /\ \A d \in ToSet(deps) : d.type = "artifact" /\ \E i \in CutPositions(clips) : d.id = CutKey(clips[i])
  BY <1>3, <1>4, SpliceDeps
<1>6. IsSeq(<<>>) /\ ToSet(<<>>) = {} /\ \A x : IsSeq(<<x>>) /\ Contains(<<x>>, x)
  <2>1. ToSet(<<>>) = {}
    BY DEF ToSet
  <2>2. <<>> \in Seq(ToSet(<<>>))
    OBVIOUS
  <2>3. ASSUME NEW x PROVE <<x>> \in Seq(ToSet(<<x>>)) /\ Contains(<<x>>, x)
    BY DEF ToSet, Contains
  <2> QED BY <2>1, <2>2, <2>3 DEF IsSeq
<1>7. ASSUME NEW n \in DOMAIN plan
      PROVE  /\ IsSeq(plan[n].dependencies) /\ IsSeq(plan[n].results)
             /\ \A d \in ToSet(plan[n].dependencies) :
                    /\ d.type = "artifact" /\ d.type \in {"task", "artifact"}
                    /\ \E i \in CutPositions(clips) : d.id = CutKey(clips[i])
  <2>1. CASE n = count + 1
    BY <1>4, <1>5, <1>6, <2>1
  <2>2. CASE n \in 1..count
    BY <1>4, <1>6, <2>2
  <2> QED BY <1>4, <2>1, <2>2
<1>8. IsDefinition(plan)
  BY <1>4, <1>7 DEF IsDefinition
<1>9. ASSUME NEW n \in DOMAIN plan, NEW d \in ToSet(plan[n].dependencies)
      PROVE  d.id \in DOMAIN Origins(plan, d.type)
  <2>1. PICK i \in CutPositions(clips) : d.type = "artifact" /\ d.id = CutKey(clips[i])
    BY <1>7
  <2>2. PICK k \in 1..count : NthCut(clips, k) = i
    BY <1>4, NthCutDef
  <2>3. k \in DOMAIN plan /\ Contains(plan[k].results, d.id)
    BY <1>4, <1>6, <2>1, <2>2
  <2>4. k \in TasksOf(plan, d.type, d.id)
    BY <2>1, <2>3 DEF TasksOf
  <2> QED BY <1>8, <2>4, OriginIsLast
<1>10. QED BY <1>8, <1>9 DEF IsResolvable

\* A plan is parsed without an error.
LEMMA PlanParses ==
    ASSUME NEW s, IsScene(s), NEW plan, plan = createRenderPlan(s), plan # <<>>
    PROVE  parse(plan).error = "none" /\ parse(plan).edges = edgesAt(plan)
<1>1. PICK r : r = parse(plan)
  OBVIOUS
<1>2. IsDefinition(plan) /\ IsResolvable(plan)
  BY PlanIsDefinition
<1>3. /\ r.error \in {"none", "cycle"} /\ r.edges = edgesAt(plan)
      /\ r.error = "cycle" => r.stack \in Seq(DOMAIN plan) /\ EndsInItself(edgesAt(plan), r.stack)
  BY <1>1, <1>2, ParseDef
<1>4. ASSUME r.error = "cycle" PROVE FALSE
  <2>1. PICK K \in SUBSET DOMAIN plan : K # {} /\ \A m \in K : \E n \in K : m \in Succ(edgesAt(plan), n)
    BY <1>3, <1>4, CycleIsKnot
  <2>2. PICK clips : clips = s[1]
    OBVIOUS
  <2>3. PICK count : IsPlan(plan, clips, count)
    BY <2>2, PlanFields
  <2>4. /\ \A k \in 1..count : plan[k].dependencies = <<>>
        /\ \A n \in DOMAIN plan : n \in 1..count \/ n = count + 1
    BY <2>3, Zenon DEF IsPlan
  <2>5. ToSet(<<>>) = {}
    BY DEF ToSet
  <2>6. ASSUME NEW m \in K PROVE m = count + 1
    <3>1. PICK n \in K : m \in Succ(edgesAt(plan), n)
      BY <2>1
    <3>2. Feeds(plan, n, m)
      BY <1>2, <3>1, SuccIsFeeds
    <3>3. ToSet(plan[m].dependencies) # {}
      BY <3>2 DEF Feeds
    <3> QED BY <2>4, <2>5, <3>3
  <2>7. PICK m \in K : TRUE
    BY <2>1
  <2>8. PICK n \in K : m \in Succ(edgesAt(plan), n)
    BY <2>1, <2>7
  <2>9. m # n
    BY <1>2, <2>8, SuccIsFeeds
  <2> QED BY <2>6, <2>7, <2>8, <2>9
<1>5. QED BY <1>1, <1>3, <1>4

\* The splice has an edge for each cut it downloads, and each cut of a scene that
\* uses no file twice.
LEMMA PlanWaits ==
    ASSUME NEW s, IsScene(s), NEW plan, plan = createRenderPlan(s), plan # <<>>,
           Timed(s[1]), NEW n \in DOMAIN plan, plan[n].name = "Split",
           DistinctFiles(s[1]) \/ ResultOf(plan[n]) \in ToSet(FileKeys(plan[Len(plan)]))
    PROVE  \E e \in incommingEdges(edgesAt(plan), Len(plan)) :
               e.conditionType = "artifact" /\ e.artifactId = ResultOf(plan[n])
<1>1. PICK clips : clips = s[1]
  OBVIOUS
<1>2. PICK count : IsPlan(plan, clips, count)
  BY <1>1, PlanFields
<1>3. /\ count = Cardinality(CutPositions(clips)) /\ IsSeq(clips)
      /\ Len(plan) = count + 1 /\ count + 1 \in DOMAIN plan
      /\ plan[count + 1].name = "Splice" /\ plan[count + 1].dependencies = SpliceDependencies(clips)
      /\ \A k \in 1..count : plan[k].results = <<CutKey(clips[NthCut(clips, k)])>>
      /\ \A m \in DOMAIN plan : m \in 1..count \/ m = count + 1
  BY <1>2, Zenon DEF IsPlan
<1>4. n \in 1..count
  <2>1. plan[n].name # plan[count + 1].name
    BY <1>3
  <2> QED BY <1>3, <2>1
<1>5. PICK i \in CutPositions(clips) : i = NthCut(clips, n)
  BY <1>3, <1>4, NthCutDef
<1>6. ResultOf(plan[n]) = CutKey(clips[i])
  BY <1>3, <1>4, <1>5 DEF ResultOf
<1>7. PICK d \in ToSet(SpliceDependencies(clips)) : d.type = "artifact" /\ d.id = CutKey(clips[i])
  <2>1. i \in DOMAIN clips /\ IsCut(clips[i]) /\ i \in CutsOf(clips, clips[i].id)
    BY DEF CutPositions, CutsOf
  <2>2. \E id : CutsOf(clips, id) # {} /\ KeyOfFile(clips, id) = CutKey(clips[i])
    <3>1. CASE DistinctFiles(clips)
      BY <1>1, <2>1, <3>1, OneClip DEF KeyOfClip
    <3>2. CASE ResultOf(plan[n]) \in ToSet(FileKeys(plan[Len(plan)]))
      <4>1. plan[Len(plan)] = SpliceTask(clips)
        BY <1>1, <1>3, PlanShape
      <4>2. PICK k \in DOMAIN clips :
                CutKey(clips[i]) = KeyOfFile(clips, clips[sortedPositions(clips)[k]].id)
        BY <1>1, <1>6, <3>2, <4>1, SpliceKeys DEF ToSet
      <4>3. CutsOf(clips, clips[sortedPositions(clips)[k]].id) # {}
        BY <4>2, KeysDiffer DEF KeyOfFile
      <4> QED BY <4>2, <4>3
    <3> QED BY <1>1, <3>1, <3>2
  <2> QED BY <1>1, <1>3, <2>2, SpliceDeps
<1>8. PICK e : e = EdgeOf(plan, count + 1, d)
  OBVIOUS
<1>9. e.conditionType = "artifact" /\ e.artifactId = ResultOf(plan[n])
  BY <1>6, <1>7, <1>8 DEF EdgeOf
<1>10. e \in incommingEdges(edgesAt(plan), count + 1)
  BY <1>3, <1>7, <1>8, PlanIsDefinition, IncomingEdges
<1>11. QED BY <1>3, <1>9, <1>10

\* The edges are those of the workflow, and a rejected workflow has an error.
Parsed ==
    tasks # <<>> => /\ edges = parse(tasks).edges
                    /\ stage = "rejected" => parse(tasks).error # "none"

LEMMA ParsedStep == RenderingInv /\ Parsed /\ [Next]_vars => Parsed'
<1> SUFFICES ASSUME RenderingInv, Parsed, [Next]_vars PROVE Parsed'
  OBVIOUS
<1>1. stage \in {"arrange", "scene"} => tasks = <<>>
  BY DEF RenderingInv, SceneShape
<1>2. CASE UNCHANGED <<tasks, edges, stage>>
  BY <1>2 DEF Parsed
<1>3. CASE tasks' = <<>>
  BY <1>3 DEF Parsed
<1>4. ASSUME NEW list, Submit(list) PROVE Parsed'
  <2>1. tasks' = list /\ edges' = parse(list).edges
        /\ stage' = IF parse(list).error = "none" THEN "sent" ELSE "rejected"
    BY <1>4 DEF Submit
  <2>2. stage' = "rejected" => parse(list).error # "none"
    BY <2>1
  <2> QED BY <2>1, <2>2 DEF Parsed
<1>5. CASE (\E f \in File : SelectVideo(f)) \/ (\E i, j \in DOMAIN videos : Drop(i, j))
  BY <1>2, <1>5 DEF SelectVideo, Drop
<1>6. CASE CreateHomeScene \/ CreateScene
  BY <1>1, <1>3, <1>6 DEF CreateHomeScene, CreateScene
<1>7. CASE RenderScene \/ SendWorkflow
  BY <1>1, <1>3, <1>4, <1>7 DEF RenderScene, SendWorkflow
<1>8. CASE \E n \in DOMAIN tasks, w \in Worker : GiveTask(n, w)
  BY <1>2, <1>8 DEF GiveTask
<1>9. CASE \E w \in Worker : WorkerGoesOn(w) \/ Fault(w) \/ WorkerKilled(w)
  BY <1>2, <1>9 DEF WorkerGoesOn, ReportCompleted, ReportFailed, Fault, WorkerKilled
<1>10. CASE UNCHANGED vars
  BY <1>2, <1>10 DEF vars
<1>11. QED BY <1>5, <1>6, <1>7, <1>8, <1>9, <1>10 DEF Next, Finished

\* The task manager accepts every workflow that is built for a scene, and the
\* splice waits for every cut it downloads, and every cut of a scene that uses no
\* file twice (simple-single-layer-render.strategy.ts:21, dag.service.ts:58).
THEOREM PlansAreAlwaysAccepted == Spec => []PlansAreAccepted
<1>1. ASSUME RenderingInv, Parsed PROVE PlansAreAccepted
  <2>1. SUFFICES ASSUME layers # <<>>, tasks # <<>>
                 PROVE  /\ stage # "rejected"
                        /\ \A n \in DOMAIN tasks :
                               /\ tasks[n].name = "Split"
                               /\ \/ DistinctFiles(Clips)
                                  \/ ResultOf(tasks[n]) \in ToSet(FileKeys(tasks[Len(tasks)]))
                               => \E e \in incommingEdges(edges, Len(tasks)) :
                                   e.conditionType = "artifact" /\ e.artifactId = ResultOf(tasks[n])
    BY DEF PlansAreAccepted
  <2>2. IsScene(layers) /\ tasks = createRenderPlan(layers)
    BY <1>1, <2>1 DEF RenderingInv, SceneShape
  <2>3. edges = edgesAt(tasks) /\ stage # "rejected"
    BY <1>1, <2>1, <2>2, PlanParses DEF Parsed
  <2>4. Timed(layers[1])
    BY <2>1, <2>2, SceneIsTimed
  <2> QED BY <2>1, <2>2, <2>3, <2>4, PlanWaits DEF Clips
<1>2. Init => Parsed
  BY DEF Init, Parsed
<1>3. QED BY <1>1, <1>2, ParsedStep, RenderingAlways, PTL DEF Spec

-----------------------------------------------------------------------------
(* The video of the home page                                              *)

\* The clips of the home page are in order, and one starts when the one before it
\* ends.
LEMMA HomeOrder ==
    ASSUME NEW s \in Seq(File), NEW clips, homeLayer(s) = <<clips>>, s # <<>>
    PROVE  /\ clipOrder(clips) = clips
           /\ DOMAIN clips = DOMAIN s /\ \A k \in DOMAIN s : clips[k].id = s[k] /\ clips[k].cut = <<>>
           /\ warnings(clips) = {}
<1>0. Duration \in [File -> Nat]
  BY RenderingAssumption
<1>1. /\ DOMAIN clips = 1..Len(s) /\ clips \in Seq(ToSet(clips)) /\ Len(clips) = Len(s)
      /\ \A i \in 1..Len(s) :
             /\ clips[i].id = s[i] /\ clips[i].cut = <<>>
             /\ clips[i].from = StartTimes(s)[i] /\ StartTimes(s)[i] \in Nat
             /\ clips[i].to = StartTimes(s)[i] + Duration[s[i]]
  <2>1. PICK c :
           /\ homeLayer(s) = <<c>>
           /\ DOMAIN c = 1..Len(s) /\ c \in Seq(ToSet(c)) /\ Len(c) = Len(s)
           /\ \A i \in 1..Len(s) :
                  /\ c[i].id = s[i] /\ c[i].cut = <<>>
                  /\ c[i].from = StartTimes(s)[i] /\ StartTimes(s)[i] \in Nat
                  /\ c[i].to = StartTimes(s)[i] + Duration[s[i]]
    BY <1>0, HomeClips
  <2>2. <<c>>[1] = c /\ <<clips>>[1] = clips
    OBVIOUS
  <2>3. c = clips
    BY <2>1, <2>2
  <2> QED BY <2>1, <2>3
<1>2. Len(s) \in Nat /\ Len(s) # 0 /\ DOMAIN s = 1..Len(s)
  OBVIOUS
<1>3. Timed(clips)
  BY <1>1, <1>2 DEF Timed
<1>4. ASSUME NEW i \in DOMAIN clips, NEW j \in DOMAIN clips, i < j PROVE StartsBefore(clips, i, j)
  <2>1. i \in DOMAIN s /\ j \in DOMAIN s /\ i <= j
    BY <1>1, <1>2, <1>4
  <2>2. StartTimes(s)[i] <= StartTimes(s)[j]
    BY <1>0, <2>1, StartsGrow
  <2>3. clips[i].from \in Nat /\ clips[j].from \in Nat /\ clips[i].from <= clips[j].from
    BY <1>1, <2>2
  <2> QED BY <1>4, <2>3 DEF StartsBefore
<1>5. Sorts(clips, sortedPositions(clips))
  BY <1>3, ClipOrderSorts
<1>6. \A k \in DOMAIN clips : sortedPositions(clips)[k] = k
  BY <1>3, <1>4, <1>5, SortedStays
<1>7. clipOrder(clips) = clips
  <2>1. clips = [k \in DOMAIN clips |-> clips[k]]
    BY <1>1
  <2>2. clipOrder(clips) = [k \in DOMAIN clips |-> clips[k]]
    BY <1>6 DEF clipOrder
  <2> QED BY <2>1, <2>2
<1>8. \A k \in 1..(Len(s) - 1) : clips[k].to = clips[k + 1].from
  <2>1. TAKE k \in 1..(Len(s) - 1)
  <2>2. k \in 1..Len(s) /\ k + 1 \in 1..Len(s) /\ k + 1 # 1 /\ (k + 1) - 1 = k
    BY <1>2
  <2>3. StartTimes(s)[k + 1] = StartOf(s, StartTimes(s), k + 1)
    BY <1>0, <1>2, <2>2, StartTimesDef
  <2>4. StartTimes(s)[k + 1] = StartTimes(s)[k] + Duration[s[k]]
    BY <2>2, <2>3 DEF StartOf
  <2> QED BY <1>1, <2>2, <2>4
<1>9. clips[1].from = 0
  <2>1. 1 \in 1..Len(s)
    BY <1>2
  <2>2. StartTimes(s)[1] = StartOf(s, StartTimes(s), 1)
    BY <1>0, <1>2, <2>1, StartTimesDef
  <2> QED BY <1>1, <2>1, <2>2 DEF StartOf
<1>10. warnings(clips) = {}
  BY <1>1, <1>7, <1>8, <1>9 DEF warnings
<1>11. QED BY <1>1, <1>2, <1>7, <1>10

\* The scene of the home page has the videos of the list, uncut.
LEMMA HomeScene ==
    ASSUME RenderingInv, layers # <<>>, videos # <<>>
    PROVE  /\ clipOrder(Clips) = Clips /\ warnings(Clips) = {}
           /\ DOMAIN Clips = DOMAIN videos
           /\ \A k \in DOMAIN videos : Clips[k].id = videos[k]
           /\ \A id : CutsOf(Clips, id) = {}
<1>1. SceneShape
  BY DEF RenderingInv
<1>2. PICK s \in Seq(File) : s = videos
  BY <1>1 DEF SceneShape
<1>3. layers = homeLayer(s)
  BY <1>1, <1>2 DEF SceneShape
<1>4. PICK clips : homeLayer(s) = <<clips>>
  <2>1. Duration \in [File -> Nat]
    BY RenderingAssumption
  <2> QED BY <2>1, HomeClips
<1>5. Clips = clips
  BY <1>3, <1>4 DEF Clips
<1>6. /\ clipOrder(clips) = clips /\ warnings(clips) = {}
      /\ DOMAIN clips = DOMAIN s /\ \A k \in DOMAIN s : clips[k].id = s[k] /\ clips[k].cut = <<>>
  BY <1>2, <1>4, HomeOrder
<1>7. \A id : CutsOf(clips, id) = {}
  BY <1>6 DEF CutsOf, CutPositions, IsCut
<1>8. QED BY <1>2, <1>5, <1>6, <1>7

\* The last task of its plan splices these videos.
LEMMA HomeSplice ==
    ASSUME RenderingInv, layers # <<>>, videos # <<>>, tasks # <<>>
    PROVE  FileKeys(tasks[Len(tasks)]) = [k \in DOMAIN videos |-> FileKey(videos[k])]
<1>1. IsScene(layers) /\ tasks = createRenderPlan(layers)
  BY DEF RenderingInv, SceneShape
<1>2. PICK clips : clips = Clips
  OBVIOUS
<1>3. PICK count : count = Cardinality(CutPositions(clips))
  OBVIOUS
<1>4. Len(tasks) = count + 1 /\ tasks[count + 1] = SpliceTask(clips)
  BY <1>1, <1>2, <1>3, PlanShape DEF Clips
<1>5. /\ clipOrder(clips) = clips /\ DOMAIN clips = DOMAIN videos
      /\ \A k \in DOMAIN videos : clips[k].id = videos[k]
      /\ \A id : CutsOf(clips, id) = {}
  BY <1>2, HomeScene
<1>6. Timed(clips)
  BY <1>1, <1>2, SceneIsTimed DEF Clips
<1>7. PICK order : order = sortedPositions(clips)
  OBVIOUS
<1>8. FileKeys(SpliceTask(clips)) = [k \in DOMAIN clips |-> KeyOfFile(clips, clips[order[k]].id)]
  BY <1>6, <1>7, SpliceKeys
<1>9. \A k \in DOMAIN clips : clips[order[k]] = clips[k]
  <2>1. clipOrder(clips) = [k \in DOMAIN clips |-> clips[order[k]]]
    BY <1>7 DEF clipOrder
  <2> QED BY <1>5, <2>1
<1>10. \A id : KeyOfFile(clips, id) = FileKey(id)
  BY <1>5 DEF KeyOfFile
<1>11. \A k \in DOMAIN videos : KeyOfFile(clips, clips[order[k]].id) = FileKey(videos[k])
  BY <1>5, <1>9, <1>10
<1>12. QED BY <1>4, <1>5, <1>8, <1>11

\* Every file of the list is seen in the video.
LEMMA HomeVideo ==
    ASSUME RenderingInv, layers # <<>>, videos # <<>>, VideoKey \in DOMAIN storage, NEW i \in DOMAIN videos
    PROVE  \E k \in DOMAIN storage[VideoKey][2] :
               storage[VideoKey][2][k] = <<"source", FileKey(videos[i])>>
<1>1. PICK clips : clips = Clips
  OBVIOUS
<1>2. PICK order : order = sortedPositions(clips)
  OBVIOUS
<1>3. PICK first : first = FirstShown(clips, order)
  OBVIOUS
<1>4. /\ Timed(clips) /\ order \in Bijection(DOMAIN clips, DOMAIN clips)
      /\ storage[VideoKey] = <<"splice", [k \in first |-> FootageOf(clips[order[k]].id)]>>
  BY <1>1, <1>2, <1>3, VideoContent
<1>5. PICK shown : shown = [k \in first |-> FootageOf(clips[order[k]].id)]
  OBVIOUS
<1>6. storage[VideoKey][2] = shown /\ DOMAIN shown = first
      /\ \A k \in first : shown[k] = FootageOf(clips[order[k]].id)
  BY <1>4, <1>5
<1>7. /\ DOMAIN clips = DOMAIN videos /\ clips[i].id = videos[i]
      /\ \A id : CutsOf(clips, id) = {}
  BY <1>1, HomeScene
<1>8. \A id : FootageOf(id) = <<"source", FileKey(id)>>
  BY <1>1, <1>7 DEF FootageOf, CutsOf, CutPositions
<1>9. PICK shows : shows = {k \in DOMAIN clips : clips[order[k]].id = videos[i]}
  OBVIOUS
<1>10. shows # {} /\ shows \subseteq Nat
  <2>1. PICK k \in DOMAIN clips : order[k] = i
    BY <1>4, <1>7 DEF Bijection, Surjection
  <2> QED BY <1>4, <1>7, <1>9, <2>1 DEF Timed
<1>11. PICK k \in shows : \A l \in shows : k <= l
  BY <1>10, LeastNumber
<1>12. k \in first
  <2>1. k \in DOMAIN clips /\ clips[order[k]].id = videos[i]
    BY <1>9
  <2>2. \A j \in 1..(k - 1) : j \in DOMAIN clips /\ ~(k <= j)
    BY <1>4, <2>1 DEF Timed
  <2>3. \A j \in 1..(k - 1) : clips[order[j]].id # videos[i]
    BY <1>9, <1>11, <2>2
  <2> QED BY <1>3, <2>1, <2>3 DEF FirstShown
<1>13. shown[k] = <<"source", FileKey(videos[i])>>
  BY <1>6, <1>8, <1>9, <1>12
<1>14. QED BY <1>6, <1>12, <1>13

\* However the list of the home page is dragged about, and if a file is selected
\* twice: every selection keeps its place in it, the splice gets a key for each in
\* their order, and the video shows every file (home.component.ts, api/src/render,
\* worker/lib/tasks).
THEOREM SelectionAlwaysComesThrough == Spec => []SelectionComesThrough
<1>1. ASSUME RenderingInv, layers # <<>>, videos # <<>> PROVE SelectionComesThrough
  <2>1. Rearranged(selected, videos)
    BY <1>1 DEF RenderingInv, SceneShape
  <2>2. warnings(Clips) = {}
    BY <1>1, HomeScene
  <2>3. tasks # <<>> => FileKeys(tasks[Len(tasks)]) = [k \in DOMAIN videos |-> FileKey(videos[k])]
    BY <1>1, HomeSplice
  <2>4. ASSUME VideoKey \in DOMAIN storage, NEW f \in ToSet(selected)
        PROVE  \E k \in DOMAIN storage[VideoKey][2] : storage[VideoKey][2][k] = <<"source", FileKey(f)>>
    <3>1. PICK l \in DOMAIN selected : selected[l] = f
      BY DEF ToSet
    <3>2. PICK i \in DOMAIN videos : videos[i] = f
      <4>1. PICK place \in Bijection(DOMAIN videos, DOMAIN selected) :
              \A k \in DOMAIN videos : videos[k] = selected[place[k]]
        BY <2>1 DEF Rearranged
      <4>2. PICK k \in DOMAIN videos : place[k] = l
        BY <3>1, Places
      <4> QED BY <3>1, <4>1, <4>2
    <3> QED BY <1>1, <2>4, <3>2, HomeVideo
  <2> QED BY <2>1, <2>2, <2>3, <2>4 DEF SelectionComesThrough
<1>2. RenderingInv => SelectionComesThrough
  BY <1>1 DEF SelectionComesThrough
<1>3. QED BY <1>2, RenderingAlways, PTL
=============================================================================

---------------------------- MODULE PolicyProofs ----------------------------
(***************************************************************************)
(* Proofs about Validate and Evaluate, for any policies and identities.    *)
(*                                                                         *)
(* Three operators of the model are recursive functions or folds: how a    *)
(* pattern is split (Segments), what a pattern means (GlobSpans) and how a *)
(* claim is named (FlatKey).  What they compute is proved by induction:    *)
(* the induction principle for numbers is stated for a set, and so is the  *)
(* existence of each recursive function, which is what makes its defining  *)
(* equation usable.                                                        *)
(***************************************************************************)
EXTENDS Policy, FiniteSetTheorems, SequenceTheorems, WellFoundedInduction, TLAPS

-----------------------------------------------------------------------------
(* Induction.                                                              *)

(* A set of numbers that is not empty has a least one.                     *)
LEMMA Least ==
    ASSUME NEW T, T \subseteq Nat, T # {}
    PROVE  \E m \in T : \A k \in T : m <= k
<1> DEFINE R == OpToRel(<, Nat)
<1>1. R = {ss \in Nat \X Nat : ss[1] < ss[2]}
  BY DEF OpToRel
<1>2. IsWellFoundedOn(R, Nat)
  BY NatLessThanWellFounded
<1> HIDE DEF R
<1>3. PICK m \in T : \A k \in T : ~(<<k, m>> \in R)
  BY <1>2, WFMin
<1>4. ASSUME NEW k \in T PROVE m <= k
  <2>1. k \in Nat /\ m \in Nat /\ <<k, m>> \notin R
    BY <1>3
  <2>2. k < m => <<k, m>> \in R
    BY <1>1, <2>1
  <2> QED
    BY <2>1, <2>2
<1> QED
  BY <1>4

(* Induction on numbers, for a set.                                        *)
LEMMA Induction ==
    ASSUME NEW S, 0 \in S, \A n \in Nat : n \in S => n + 1 \in S
    PROVE  Nat \subseteq S
<1> SUFFICES ASSUME Nat \ S # {} PROVE FALSE
  OBVIOUS
<1>1. PICK x \in Nat \ S : \A y \in Nat \ S : x <= y
  BY Least
<1>2. x - 1 \in Nat /\ x - 1 \in S
  BY <1>1
<1> QED
  BY <1>1, <1>2

-----------------------------------------------------------------------------
(* Segments: what a pattern is split into.                                 *)

(* The folds of the subsets of the first n places of text.                 *)
Folds(g, text, n) ==
    g = [s \in SUBSET (1..n) |->
            IF s = {} THEN << <<>> >> ELSE Split(g[s \ {Max(s)}], text[Max(s)])]

LEMMA MaxIs ==
    ASSUME NEW n \in Nat, NEW s \in SUBSET (1..n), n \in s
    PROVE  Max(s) = n
<1>1. \A x \in s : (\A y \in s : x >= y) => x = n
  OBVIOUS
<1>2. \A y \in s : n >= y
  OBVIOUS
<1> QED
  BY <1>1, <1>2 DEF Max

LEMMA FoldsExist ==
    ASSUME NEW text
    PROVE  \A n \in Nat : \E g : Folds(g, text, n)
<1> DEFINE S == {n \in Nat : \E g : Folds(g, text, n)}
<1>1. 0 \in S
  <2> DEFINE g == [s \in SUBSET (1..0) |-> << <<>> >>]
  <2>1. \A s \in SUBSET (1..0) : s = {}
    OBVIOUS
  <2>2. Folds(g, text, 0)
    BY <2>1 DEF Folds
  <2> QED
    BY <2>2
<1>2. ASSUME NEW n \in Nat, n \in S PROVE n + 1 \in S
  <2>1. PICK f : Folds(f, text, n)
    BY <1>2
  <2> DEFINE g == [s \in SUBSET (1..(n + 1)) |->
                    IF n + 1 \in s THEN Split(f[s \ {n + 1}], text[n + 1]) ELSE f[s]]
  <2>2. \A s \in SUBSET (1..n) : /\ s \in SUBSET (1..(n + 1)) /\ n + 1 \notin s
                                 /\ g[s] = f[s]
    OBVIOUS
  <2>3. ASSUME NEW s \in SUBSET (1..(n + 1))
        PROVE  g[s] = IF s = {} THEN << <<>> >> ELSE Split(g[s \ {Max(s)}], text[Max(s)])
    <3>1. CASE n + 1 \in s
      <4>1. Max(s) = n + 1
        BY <3>1, MaxIs
      <4>2. s \ {n + 1} \in SUBSET (1..n) /\ s # {}
        BY <3>1
      <4>3. g[s \ {n + 1}] = f[s \ {n + 1}]
        BY <2>2, <4>2
      <4>4. g[s] = Split(f[s \ {n + 1}], text[n + 1])
        BY <3>1
      <4> QED
        BY <4>1, <4>2, <4>3, <4>4
    <3>2. CASE n + 1 \notin s
      <4>1. s \in SUBSET (1..n)
        BY <3>2
      <4>2. s \ {Max(s)} \in SUBSET (1..n)
        BY <4>1
      <4>3. g[s] = f[s] /\ g[s \ {Max(s)}] = f[s \ {Max(s)}]
        BY <2>2, <4>1, <4>2
      <4>4. f[s] = IF s = {} THEN << <<>> >> ELSE Split(f[s \ {Max(s)}], text[Max(s)])
        BY <2>1, <4>1 DEF Folds
      <4> HIDE DEF g
      <4> QED
        BY <4>3, <4>4
    <3> QED
      BY <3>1, <3>2
  <2>4. g = [s \in SUBSET (1..(n + 1)) |-> g[s]]
    OBVIOUS
  <2> HIDE DEF g
  <2>5. Folds(g, text, n + 1)
    BY <2>3, <2>4 DEF Folds
  <2> QED
    BY <2>5
<1> HIDE DEF S
<1>3. Nat \subseteq S
  BY <1>1, <1>2, Induction
<1> QED
  BY <1>3 DEF S

(* Segments satisfies its recursion.                                       *)
LEMMA SegmentsIs ==
    ASSUME NEW text \in Seq(STRING)
    PROVE  \E g : Folds(g, text, Len(text)) /\ Segments(text) = g[1..Len(text)]
<1> DEFINE g == CHOOSE g : Folds(g, text, Len(text))
<1>1. Folds(g, text, Len(text))
  BY FoldsExist
<1>2. DOMAIN text = 1..Len(text)
  OBVIOUS
<1>3. Segments(text) = g[1..Len(text)]
  BY <1>2 DEF Segments, FoldLeft, MapThenFoldSet, Folds
<1> QED
  BY <1>1, <1>3

-----------------------------------------------------------------------------
(* Occur: the places where the segments lie in a subject.                  *)

(* The segment t lies in sub, b parts before it.                           *)
Fits(t, sub, b) == b + Len(t) <= Len(sub) /\ \A m \in 1..Len(t) : sub[b + m] = t[m]

(* A star may stand for what lies between the places i and j.              *)
Gap(sub, i, j) == i <= j /\ Unbroken(sub, i, j)

(* The segments occur in sub as Occur says, the last one up to place j.    *)
Places(before, segs, sub, j) ==
   /\ before \in [1..Len(segs) -> 0..Len(sub)]
   /\ before[1] = 0 /\ before[Len(segs)] + Len(segs[Len(segs)]) = j
   /\ \A k \in 1..Len(segs) : Fits(segs[k], sub, before[k])
   /\ \A k \in 1..(Len(segs) - 1) : Gap(sub, before[k] + Len(segs[k]), before[k + 1])

EndsAt(segs, sub, j) == \E before : Places(before, segs, sub, j)

(* The same, as Occur says it.                                             *)
LEMMA FitsIs ==
    ASSUME NEW t \in Seq(STRING), NEW sub \in Seq(STRING), NEW b \in Nat
    PROVE  Fits(t, sub, b) <=>
            b + Len(t) <= Len(sub) /\ SubSeq(sub, b + 1, b + Len(t)) = t
<1> SUFFICES ASSUME b + Len(t) <= Len(sub)
             PROVE  (SubSeq(sub, b + 1, b + Len(t)) = t) <=> \A m \in 1..Len(t) : sub[b + m] = t[m]
  BY DEF Fits
<1> DEFINE n == Len(t)
           u == SubSeq(sub, b + 1, b + n)
<1>1. n \in Nat /\ n = Len(t)
  OBVIOUS
<1>2. \A i \in (b + 1)..(b + n) : sub[i] \in STRING
  BY <1>1
<1>3. u \in Seq(STRING) /\ Len(u) = n /\ \A m \in 1..n : u[m] = sub[b + m]
  <2>1. /\ u \in Seq(STRING)
        /\ Len(u) = IF b + 1 <= b + n THEN (b + n) - (b + 1) + 1 ELSE 0
        /\ \A i \in 1..((b + n) - (b + 1) + 1) : u[i] = sub[(b + 1) + i - 1]
    <3>1. b + 1 \in Int /\ b + n \in Int
      BY <1>1
    <3> HIDE DEF n
    <3> QED
      BY <1>2, <3>1, SubSeqProperties
  <2> HIDE DEF u, n
  <2>2. (b + n) - (b + 1) + 1 = n /\ \A i \in 1..n : (b + 1) + i - 1 = b + i
    BY <1>1
  <2>3. Len(u) = n
    BY <1>1, <2>1
  <2> QED
    BY <2>1, <2>2, <2>3
<1> HIDE DEF u
<1>4. ASSUME \A m \in 1..n : u[m] = t[m] PROVE u = t
  BY <1>3, <1>4, SeqEqual
<1> QED
  BY <1>3, <1>4 DEF u

LEMMA OccurIs ==
    ASSUME NEW segs \in Seq(Seq(STRING)), Len(segs) >= 1, NEW sub \in Seq(STRING)
    PROVE  Occur(segs, sub) <=> EndsAt(segs, sub, Len(sub))
<1> DEFINE F == [1..Len(segs) -> 0..Len(sub)]
           Old(before) ==
             /\ before[1] = 0 /\ before[Len(segs)] + Len(segs[Len(segs)]) = Len(sub)
             /\ \A k \in 1..Len(segs) :
                 /\ before[k] + Len(segs[k]) <= Len(sub)
                 /\ SubSeq(sub, before[k] + 1, before[k] + Len(segs[k])) = segs[k]
                 /\ k < Len(segs) =>
                     /\ before[k] + Len(segs[k]) <= before[k + 1]
                     /\ Unbroken(sub, before[k] + Len(segs[k]), before[k + 1])
<1>1. ASSUME NEW before \in F
      PROVE  Old(before) <=> Places(before, segs, sub, Len(sub))
  <2>1. \A k \in 1..Len(segs) : segs[k] \in Seq(STRING) /\ before[k] \in Nat
    <3>1. \A k \in 1..Len(segs) : segs[k] \in Seq(STRING)
      BY ElementOfSeq
    <3>2. \A i \in 0..Len(sub) : i \in Nat
      OBVIOUS
    <3> QED
      BY <3>1, <3>2, Zenon
  <2>2. \A k \in 1..Len(segs) :
            Fits(segs[k], sub, before[k]) <=>
                /\ before[k] + Len(segs[k]) <= Len(sub)
                /\ SubSeq(sub, before[k] + 1, before[k] + Len(segs[k])) = segs[k]
    BY <2>1, FitsIs
  <2>3. \A k : k \in 1..(Len(segs) - 1) <=> k \in 1..Len(segs) /\ k < Len(segs)
    OBVIOUS
  <2> QED
    BY <2>2, <2>3, Zenon DEF Places, Gap
<1>2. Occur(segs, sub) <=> \E before \in F : Old(before)
  BY Zenon DEF Occur
<1>3. EndsAt(segs, sub, Len(sub)) <=> \E before \in F : Places(before, segs, sub, Len(sub))
  BY Zenon DEF EndsAt, Places
<1> HIDE DEF F, Old
<1> QED
  BY <1>1, <1>2, <1>3

(* Where a pattern ends: with no part, after a star, after a part.         *)
LEMMA EndsAtFirst ==
    ASSUME NEW sub \in Seq(STRING), NEW j \in 0..Len(sub)
    PROVE  EndsAt(<< <<>> >>, sub, j) <=> j = 0
<1> DEFINE segs == << <<>> >>
<1>1. Len(segs) = 1 /\ segs[1] = <<>> /\ Len(segs[1]) = 0
  OBVIOUS
<1> HIDE DEF segs
<1>2. ASSUME NEW before, Places(before, segs, sub, j) PROVE j = 0
  BY <1>1, <1>2 DEF Places
<1>3. Places([k \in 1..1 |-> 0], segs, sub, 0)
  BY <1>1 DEF Places, Fits
<1> QED
  BY <1>2, <1>3 DEF EndsAt, segs

LEMMA EndsAtStar ==
    ASSUME NEW segs \in Seq(Seq(STRING)), Len(segs) >= 1, NEW sub \in Seq(STRING),
           NEW j \in 0..Len(sub)
    PROVE  EndsAt(Append(segs, <<>>), sub, j)
            <=> \E i \in 0..j : EndsAt(segs, sub, i) /\ Unbroken(sub, i, j)
<1> DEFINE more == Append(segs, <<>>)
           K == Len(segs)
<1>1. /\ Len(more) = K + 1 /\ more[K + 1] = <<>> /\ \A k \in 1..K : more[k] = segs[k]
      /\ K \in Nat /\ \A k \in 1..K : Len(segs[k]) \in Nat
  OBVIOUS
<1> HIDE DEF more, K
<1>2. ASSUME NEW b, Places(b, more, sub, j)
      PROVE  \E i \in 0..j : EndsAt(segs, sub, i) /\ Unbroken(sub, i, j)
  <2> DEFINE a == [k \in 1..K |-> b[k]]
             i == b[K] + Len(segs[K])
  <2>1. /\ b \in [1..(K + 1) -> 0..Len(sub)] /\ b[1] = 0 /\ b[K + 1] = j
        /\ \A k \in 1..(K + 1) : Fits(more[k], sub, b[k])
        /\ \A k \in 1..K : Gap(sub, b[k] + Len(more[k]), b[k + 1])
    BY <1>1, <1>2 DEF Places
  <2>2. K >= 1 /\ K \in 1..K
    BY <1>1 DEF K
  <2>3. i \in 0..j /\ Unbroken(sub, i, j)
    <3>1. more[K] = segs[K] /\ Len(segs[K]) \in Nat /\ b[K] \in Nat /\ j \in Nat
      BY <1>1, <2>1, <2>2
    <3>2. b[K] + Len(segs[K]) <= j /\ Unbroken(sub, b[K] + Len(segs[K]), j)
      BY <2>1, <2>2, <3>1 DEF Gap
    <3> QED
      BY <3>1, <3>2
  <2>4. Places(a, segs, sub, i)
    <3>1. a \in [1..K -> 0..Len(sub)] /\ a[1] = 0 /\ a[K] + Len(segs[K]) = i
      BY <1>1, <2>1, <2>2
    <3>2. \A k \in 1..K : Fits(segs[k], sub, a[k])
      BY <1>1, <2>1
    <3>3. ASSUME NEW k \in 1..(K - 1) PROVE Gap(sub, a[k] + Len(segs[k]), a[k + 1])
      <4>1. k \in 1..K /\ k + 1 \in 1..K
        BY <1>1
      <4>2. Gap(sub, b[k] + Len(more[k]), b[k + 1]) /\ more[k] = segs[k]
        BY <1>1, <2>1, <4>1
      <4> QED
        BY <4>1, <4>2
    <3> QED
      BY <3>1, <3>2, <3>3 DEF Places, K
  <2> QED
    BY <2>3, <2>4 DEF EndsAt
<1>3. ASSUME NEW i \in 0..j, Unbroken(sub, i, j), NEW a, Places(a, segs, sub, i)
      PROVE  EndsAt(more, sub, j)
  <2> DEFINE b == [k \in 1..(K + 1) |-> IF k = K + 1 THEN j ELSE a[k]]
  <2>1. /\ a \in [1..K -> 0..Len(sub)] /\ a[1] = 0 /\ a[K] + Len(segs[K]) = i
        /\ \A k \in 1..K : Fits(segs[k], sub, a[k])
        /\ \A k \in 1..(K - 1) : Gap(sub, a[k] + Len(segs[k]), a[k + 1])
    BY <1>3 DEF Places, K
  <2>2. K >= 1 /\ K \in 1..K
    BY <1>1 DEF K
  <2>3. b \in [1..(K + 1) -> 0..Len(sub)] /\ b[1] = 0 /\ b[K + 1] = j
    BY <1>1, <2>1, <2>2
  <2>4. \A k \in 1..K : b[k] = a[k]
    BY <1>1
  <2> HIDE DEF b
  <2>5. ASSUME NEW k \in 1..(K + 1) PROVE Fits(more[k], sub, b[k])
    <3>1. CASE k = K + 1
      BY <1>1, <2>3, <3>1 DEF Fits
    <3>2. CASE k # K + 1
      <4>1. k \in 1..K
        BY <1>1, <3>2
      <4> QED
        BY <1>1, <2>1, <2>4, <4>1
    <3> QED
      BY <3>1, <3>2
  <2>6. ASSUME NEW k \in 1..K PROVE Gap(sub, b[k] + Len(more[k]), b[k + 1])
    <3>1. CASE k = K
      <4>1. b[k] + Len(more[k]) = i /\ b[k + 1] = j
        BY <1>1, <2>1, <2>3, <2>4, <3>1
      <4>2. Gap(sub, i, j)
        BY <1>3 DEF Gap
      <4> QED
        BY <4>1, <4>2
    <3>2. CASE k # K
      <4>1. k \in 1..(K - 1) /\ k + 1 \in 1..K
        BY <1>1, <3>2
      <4> QED
        BY <1>1, <2>1, <2>4, <4>1
    <3> QED
      BY <3>1, <3>2
  <2>7. Places(b, more, sub, j)
    BY <1>1, <2>3, <2>5, <2>6 DEF Places
  <2> QED
    BY <2>7 DEF EndsAt
<1> QED
  BY <1>2, <1>3 DEF EndsAt, more

LEMMA FitsOneMore ==
    ASSUME NEW t \in Seq(STRING), NEW p \in STRING, NEW sub \in Seq(STRING), NEW b \in Nat
    PROVE  Fits(Append(t, p), sub, b) <=>
            /\ Fits(t, sub, b) /\ b + Len(t) + 1 <= Len(sub)
            /\ sub[b + Len(t) + 1] = p
<1> DEFINE u == Append(t, p)
           L == Len(t)
<1>1. L \in Nat /\ Len(u) = L + 1 /\ u[L + 1] = p /\ \A m \in 1..L : u[m] = t[m]
  <2>1. L \in Nat
    OBVIOUS
  <2>2. Len(Append(t, p)) = Len(t) + 1
    BY AppendProperties
  <2>3. Append(t, p)[Len(t) + 1] = p
    BY AppendProperties
  <2>4. \A m \in 1..Len(t) : Append(t, p)[m] = t[m]
    BY AppendProperties
  <2> QED
    BY <2>1, <2>2, <2>3, <2>4, Zenon
<1>2. Len(sub) \in Nat
  OBVIOUS
<1> SUFFICES Fits(u, sub, b) <=>
                /\ Fits(t, sub, b) /\ b + L + 1 <= Len(sub)
                /\ sub[b + L + 1] = p
  OBVIOUS
<1>3. Fits(t, sub, b) <=> b + L <= Len(sub) /\ \A m \in 1..L : sub[b + m] = t[m]
  BY DEF Fits
<1> HIDE DEF u, L
<1>4. ASSUME Fits(u, sub, b)
      PROVE  Fits(t, sub, b) /\ b + L + 1 <= Len(sub) /\ sub[b + L + 1] = p
  <2>1. b + (L + 1) <= Len(sub) /\ \A m \in 1..(L + 1) : sub[b + m] = u[m]
    BY <1>1, <1>4 DEF Fits
  <2>2. sub[b + (L + 1)] = p /\ b + (L + 1) = b + L + 1
    <3>1. L + 1 \in 1..(L + 1) /\ b + (L + 1) = b + L + 1
      BY <1>1
    <3> QED
      BY <1>1, <2>1, <3>1, Zenon
  <2>3. ASSUME NEW m \in 1..L PROVE sub[b + m] = t[m]
    <3>1. m \in 1..(L + 1)
      BY <1>1
    <3> QED
      BY <1>1, <2>1, <3>1
  <2> QED
    <3>1. b + L <= Len(sub) /\ b + L + 1 <= Len(sub)
      BY <1>1, <1>2, <2>1
    <3> QED
      BY <1>3, <2>2, <2>3, <3>1, Zenon
<1>5. ASSUME Fits(t, sub, b), b + L + 1 <= Len(sub), sub[b + L + 1] = p
      PROVE  Fits(u, sub, b)
  <2>1. ASSUME NEW m \in 1..(L + 1) PROVE sub[b + m] = u[m]
    <3>1. CASE m = L + 1
      <4>1. b + m = b + L + 1
        BY <1>1, <3>1
      <4> QED
        BY <1>1, <1>5, <3>1, <4>1
    <3>2. CASE m # L + 1
      <4>1. m \in 1..L
        BY <1>1, <3>2
      <4> QED
        BY <1>1, <1>3, <1>5, <4>1
    <3> QED
      BY <3>1, <3>2
  <2>2. b + (L + 1) <= Len(sub)
    BY <1>1, <1>2, <1>5
  <2> QED
    BY <1>1, <2>1, <2>2 DEF Fits
<1> QED
  BY <1>4, <1>5

LEMMA EndsAtPart ==
    ASSUME NEW segs \in Seq(Seq(STRING)), Len(segs) >= 1, NEW sub \in Seq(STRING),
           NEW p \in STRING, NEW j \in 0..Len(sub)
    PROVE  EndsAt([segs EXCEPT ![Len(segs)] = Append(@, p)], sub, j) <=>
            j >= 1 /\ sub[j] = p /\ EndsAt(segs, sub, j - 1)
<1> DEFINE K == Len(segs)
           t == segs[K]
           more == [segs EXCEPT ![K] = Append(t, p)]
<1>1. /\ K \in Nat /\ K >= 1 /\ K \in 1..K /\ t \in Seq(STRING)
      /\ \A k \in 1..K : Len(segs[k]) \in Nat
  OBVIOUS
<1>2. Append(t, p) \in Seq(STRING) /\ Len(Append(t, p)) = Len(t) + 1 /\ Len(t) \in Nat
  BY <1>1, AppendProperties
<1>3. /\ more \in Seq(Seq(STRING)) /\ Len(more) = K
      /\ more[K] = Append(t, p) /\ \A k \in 1..(K - 1) : more[k] = segs[k]
  <2> DEFINE u == Append(t, p)
  <2>1. u \in Seq(STRING) /\ K \in 1..Len(segs)
    BY <1>1, <1>2
  <2> HIDE DEF u, t
  <2>2. /\ [segs EXCEPT ![K] = u] \in Seq(Seq(STRING))
        /\ Len([segs EXCEPT ![K] = u]) = Len(segs)
        /\ \A k \in 1..Len(segs) :
              [segs EXCEPT ![K] = u][k] = IF k = K THEN u ELSE segs[k]
    <3> HIDE DEF K
    <3> QED
      BY <2>1, ExceptSeq
  <2>3. \A k \in 1..(K - 1) : k \in 1..Len(segs) /\ k # K
    BY <1>1
  <2> QED
    BY <2>1, <2>2, <2>3, Zenon DEF u
<1> HIDE DEF more, K, t
<1>5. ASSUME NEW b \in [1..K -> 0..Len(sub)]
      PROVE  Places(b, more, sub, j) <=> j >= 1 /\ sub[j] = p /\ Places(b, segs, sub, j - 1)
  <2>0. b[K] \in Nat /\ j \in Nat /\ Len(sub) \in Nat /\ j <= Len(sub)
    BY <1>1
  <2>1. Fits(more[K], sub, b[K]) <=>
          /\ Fits(t, sub, b[K]) /\ b[K] + Len(t) + 1 <= Len(sub)
          /\ sub[b[K] + Len(t) + 1] = p
    <3>1. /\ Fits(Append(t, p), sub, b[K]) <=>
              /\ Fits(t, sub, b[K]) /\ b[K] + Len(t) + 1 <= Len(sub)
              /\ sub[b[K] + Len(t) + 1] = p
      BY <1>1, <2>0, FitsOneMore, Zenon
    <3> QED
      BY <1>3, <3>1, Zenon
  <2>2. b[K] + Len(more[K]) = j <=> b[K] + Len(t) = j - 1
    <3> DEFINE n == Len(t)
    <3>1. Len(more[K]) = n + 1 /\ n \in Nat
      BY <1>2, <1>3, Zenon
    <3> HIDE DEF n
    <3>2. \A x, y, z \in Nat : x + (y + 1) = z <=> x + y = z - 1
      OBVIOUS
    <3>3. b[K] + (n + 1) = j <=> b[K] + n = j - 1
      <4> DEFINE x == b[K]
      <4>1. x \in Nat /\ n \in Nat /\ j \in Nat
        BY <2>0, <3>1
      <4> HIDE DEF x
      <4>2. x + (n + 1) = j <=> x + n = j - 1
        BY <3>2, <4>1
      <4> QED
        BY <4>2 DEF x
    <3> QED
      BY <3>1, <3>3, Zenon DEF n
  <2>3. b[K] + Len(t) = j - 1 => b[K] + Len(t) + 1 = j /\ j >= 1 /\ j <= Len(sub)
    <3>1. \A x, y, z, m \in Nat : z <= m /\ x + y = z - 1 => x + y + 1 = z /\ z >= 1
      OBVIOUS
    <3> QED
      BY <1>2, <2>0, <3>1, Zenon
  <2>4. \A k \in 1..K : k = K \/ k \in 1..(K - 1)
    BY <1>1
  <2>5. Places(b, more, sub, j) <=>
            /\ b[1] = 0 /\ b[K] + Len(t) = j - 1
            /\ Fits(more[K], sub, b[K]) /\ \A k \in 1..(K - 1) : Fits(segs[k], sub, b[k])
            /\ \A k \in 1..(K - 1) : Gap(sub, b[k] + Len(segs[k]), b[k + 1])
    <3>1. (\A k \in 1..K : Fits(more[k], sub, b[k])) <=>
            Fits(more[K], sub, b[K]) /\ \A k \in 1..(K - 1) : Fits(segs[k], sub, b[k])
      <4>1. \A k \in 1..(K - 1) : k \in 1..K
        BY <1>1
      <4> QED
        BY <1>1, <1>3, <2>4, <4>1, Zenon
    <3>2. (\A k \in 1..(K - 1) : Gap(sub, b[k] + Len(more[k]), b[k + 1])) <=>
            \A k \in 1..(K - 1) : Gap(sub, b[k] + Len(segs[k]), b[k + 1])
      BY <1>3, Zenon
    <3> QED
      BY <1>3, <2>2, <3>1, <3>2, Zenon DEF Places
  <2>6. Places(b, segs, sub, j - 1) <=>
            /\ b[1] = 0 /\ b[K] + Len(t) = j - 1
            /\ Fits(t, sub, b[K]) /\ \A k \in 1..(K - 1) : Fits(segs[k], sub, b[k])
            /\ \A k \in 1..(K - 1) : Gap(sub, b[k] + Len(segs[k]), b[k + 1])
    <3>1. (\A k \in 1..K : Fits(segs[k], sub, b[k])) <=>
            Fits(t, sub, b[K]) /\ \A k \in 1..(K - 1) : Fits(segs[k], sub, b[k])
      <4>1. \A k \in 1..(K - 1) : k \in 1..K
        BY <1>1
      <4> QED
        BY <1>1, <2>4, <4>1, Zenon DEF t
    <3> QED
      BY <3>1, Zenon DEF Places, K, t
  <2> QED
    BY <2>1, <2>3, <2>5, <2>6
<1>6. \A b : /\ Places(b, more, sub, j) => b \in [1..K -> 0..Len(sub)]
             /\ Places(b, segs, sub, j - 1) => b \in [1..K -> 0..Len(sub)]
  BY <1>3 DEF Places, K
<1>7. EndsAt(more, sub, j) <=> j >= 1 /\ sub[j] = p /\ EndsAt(segs, sub, j - 1)
  BY <1>5, <1>6, Zenon DEF EndsAt
<1> QED
  BY <1>7 DEF more, K, t

-----------------------------------------------------------------------------
(* GlobSpans, and the agreement of the two.                                *)

(* Where the pattern may have matched up to after one more part.           *)
After(E, part, sub) ==
    IF part = "*" THEN {j \in 0..Len(sub) : \E k \in E : k <= j /\ Unbroken(sub, k, j)}
    ELSE {j \in 1..Len(sub) : sub[j] = part /\ j - 1 \in E}

Ends(e, text, sub, n) ==
    e = [i \in 0..n |-> IF i = 0 THEN {0} ELSE After(e[i - 1], text[i], sub)]

LEMMA EndsExist ==
    ASSUME NEW text, NEW sub
    PROVE  \A n \in Nat : \E e : Ends(e, text, sub, n)
<1> DEFINE S == {n \in Nat : \E e : Ends(e, text, sub, n)}
<1>1. 0 \in S
  <2>1. Ends([i \in 0..0 |-> {0}], text, sub, 0)
    BY DEF Ends
  <2> QED
    BY <2>1
<1>2. ASSUME NEW n \in Nat, n \in S PROVE n + 1 \in S
  <2>1. PICK f : Ends(f, text, sub, n)
    BY <1>2
  <2> DEFINE e == [i \in 0..(n + 1) |-> IF i <= n THEN f[i] ELSE After(f[n], text[n + 1], sub)]
  <2>2. \A i \in 0..n : e[i] = f[i]
    OBVIOUS
  <2>3. e[n + 1] = After(f[n], text[n + 1], sub)
    OBVIOUS
  <2>4. ASSUME NEW i \in 0..(n + 1)
        PROVE  e[i] = IF i = 0 THEN {0} ELSE After(e[i - 1], text[i], sub)
    <3>1. CASE i = n + 1
      <4>1. i # 0 /\ i - 1 = n /\ n \in 0..n
        BY <3>1
      <4> QED
        BY <2>2, <2>3, <3>1, <4>1
    <3>2. CASE i # n + 1
      <4>1. i \in 0..n /\ (i # 0 => i - 1 \in 0..n)
        BY <3>2
      <4>2. f[i] = IF i = 0 THEN {0} ELSE After(f[i - 1], text[i], sub)
        BY <2>1, <4>1 DEF Ends
      <4> HIDE DEF e
      <4> QED
        BY <2>2, <4>1, <4>2
    <3> QED
      BY <3>1, <3>2
  <2>5. e = [i \in 0..(n + 1) |-> e[i]]
    OBVIOUS
  <2> HIDE DEF e
  <2>6. Ends(e, text, sub, n + 1)
    BY <2>4, <2>5 DEF Ends
  <2> QED
    BY <2>6
<1> HIDE DEF S
<1>3. Nat \subseteq S
  BY <1>1, <1>2, Induction
<1> QED
  BY <1>3 DEF S

(* GlobSpans satisfies its recursion.                                      *)
LEMMA GlobSpansIs ==
    ASSUME NEW text \in Seq(STRING), NEW sub \in Seq(STRING)
    PROVE  \E e : /\ Ends(e, text, sub, Len(text))
                  /\ GlobSpans(text, sub) <=> Len(sub) \in e[Len(text)]
<1> DEFINE e == CHOOSE e : Ends(e, text, sub, Len(text))
<1>1. Ends(e, text, sub, Len(text))
  BY EndsExist
<1>2. GlobSpans(text, sub) <=> Len(sub) \in e[Len(text)]
  BY DEF GlobSpans, Ends, After
<1> QED
  BY <1>1, <1>2

(* The segments compileSub splits a pattern into occur in a subject if and *)
(* only if the pattern, as a glob, spans it: for every pattern and subject *)
(* (compileSub, subMatches).                                               *)
THEOREM GlobsAgree ==
    ASSUME NEW text \in Seq(STRING), NEW sub \in Seq(STRING)
    PROVE  Occur(Segments(text), sub) <=> GlobSpans(text, sub)
<1>1. PICK g : Folds(g, text, Len(text)) /\ Segments(text) = g[1..Len(text)]
  BY SegmentsIs
<1>2. PICK e : /\ Ends(e, text, sub, Len(text))
               /\ GlobSpans(text, sub) <=> Len(sub) \in e[Len(text)]
  BY GlobSpansIs
<1> DEFINE N == Len(text)
           h(n) == g[1..n]
<1>3. N \in Nat /\ Len(sub) \in Nat /\ \A i \in 1..N : text[i] \in STRING
  OBVIOUS
<1>4. h(0) = << <<>> >> /\ \A n \in 0..(N - 1) : h(n + 1) = Split(h(n), text[n + 1])
  <2>1. \A s \in SUBSET (1..N) :
            g[s] = IF s = {} THEN << <<>> >> ELSE Split(g[s \ {Max(s)}], text[Max(s)])
    BY <1>1 DEF Folds
  <2>2. 1..0 \in SUBSET (1..N) /\ 1..0 = {}
    OBVIOUS
  <2>3. ASSUME NEW n \in 0..(N - 1) PROVE h(n + 1) = Split(h(n), text[n + 1])
    <3>1. /\ 1..(n + 1) \in SUBSET (1..N) /\ n + 1 \in Nat /\ n + 1 \in 1..(n + 1)
          /\ 1..(n + 1) # {} /\ (1..(n + 1)) \ {n + 1} = 1..n
      <4>1. n \in Nat /\ n + 1 <= N
        BY <1>3
      <4>2. \A i : i \in (1..(n + 1)) \ {n + 1} <=> i \in 1..n
        BY <4>1
      <4>3. 1..(n + 1) \in SUBSET (1..N) /\ n + 1 \in Nat /\ n + 1 \in 1..(n + 1)
        BY <1>3, <4>1
      <4> QED
        BY <4>2, <4>3, Zenon
    <3>2. Max(1..(n + 1)) = n + 1
      BY <3>1, MaxIs
    <3> QED
      BY <2>1, <3>1, <3>2
  <2> QED
    BY <2>1, <2>2, <2>3
<1>5. e[0] = {0} /\ \A n \in 0..(N - 1) : e[n + 1] = After(e[n], text[n + 1], sub)
  <2>1. \A i \in 0..N : e[i] = IF i = 0 THEN {0} ELSE After(e[i - 1], text[i], sub)
    BY <1>2 DEF Ends
  <2>2. ASSUME NEW n \in 0..(N - 1) PROVE e[n + 1] = After(e[n], text[n + 1], sub)
    <3>1. n + 1 \in 0..N /\ n + 1 # 0 /\ (n + 1) - 1 = n
      BY <1>3
    <3> QED
      BY <2>1, <3>1
  <2>3. 0 \in 0..N
    BY <1>3
  <2> QED
    BY <2>1, <2>2, <2>3
<1> HIDE DEF h, N
<1> DEFINE Good(n) == /\ h(n) \in Seq(Seq(STRING)) /\ Len(h(n)) >= 1
                      /\ e[n] \subseteq 0..Len(sub)
                      /\ \A j \in 0..Len(sub) : EndsAt(h(n), sub, j) <=> j \in e[n]
           S == {n \in Nat : n <= N => Good(n)}
<1>6. 0 \in S
  <2>1. h(0) \in Seq(Seq(STRING)) /\ Len(h(0)) >= 1
    <3>1. <<>> \in Seq(STRING)
      OBVIOUS
    <3>2. << <<>> >> \in Seq(Seq(STRING)) /\ Len(<< <<>> >>) >= 1
      BY <3>1
    <3> QED
      BY <1>4, <3>2, Zenon
  <2>2. e[0] \subseteq 0..Len(sub)
    BY <1>3, <1>5
  <2>3. \A j \in 0..Len(sub) : EndsAt(h(0), sub, j) <=> j \in e[0]
    BY <1>4, <1>5, EndsAtFirst
  <2> QED
    BY <2>1, <2>2, <2>3
<1>7. ASSUME NEW n \in Nat, n \in S PROVE n + 1 \in S
  <2> SUFFICES ASSUME n + 1 <= N PROVE Good(n + 1)
    BY <1>7
  <2>1. n \in 0..(N - 1) /\ n + 1 \in 1..N /\ Good(n)
    BY <1>3, <1>7
  <2> DEFINE p == text[n + 1]
             a == h(n)
             b == h(n + 1)
             X == e[n]
             Y == e[n + 1]
  <2>2. /\ p \in STRING /\ b = Split(a, p) /\ Y = After(X, p, sub)
        /\ a \in Seq(Seq(STRING)) /\ Len(a) >= 1 /\ X \subseteq 0..Len(sub)
        /\ \A j \in 0..Len(sub) : EndsAt(a, sub, j) <=> j \in X
    BY <1>3, <1>4, <1>5, <2>1
  <2> SUFFICES /\ b \in Seq(Seq(STRING)) /\ Len(b) >= 1
               /\ Y \subseteq 0..Len(sub)
               /\ \A j \in 0..Len(sub) : EndsAt(b, sub, j) <=> j \in Y
    OBVIOUS
  <2> HIDE DEF p, a, b, X, Y, Good, S
  <2>3. Y \subseteq 0..Len(sub)
    BY <1>3, <2>2 DEF After
  <2>4. CASE p = "*"
    <3>1. b = Append(a, <<>>)
      BY <2>2, <2>4 DEF Split
    <3>2. b \in Seq(Seq(STRING)) /\ Len(b) >= 1
      BY <2>2, <3>1
    <3>3. ASSUME NEW j \in 0..Len(sub) PROVE EndsAt(b, sub, j) <=> j \in Y
      <4>1. EndsAt(b, sub, j) <=> \E i \in 0..j : EndsAt(a, sub, i) /\ Unbroken(sub, i, j)
        BY <2>2, <3>1, EndsAtStar
      <4>2. j \in Y <=> \E i \in X : i <= j /\ Unbroken(sub, i, j)
        BY <2>2, <2>4 DEF After
      <4>3. \A i : i \in 0..j <=> i \in 0..Len(sub) /\ i <= j
        BY <1>3
      <4> QED
        BY <2>2, <4>1, <4>2, <4>3, Zenon
    <3> QED
      BY <2>3, <3>2, <3>3
  <2>5. CASE p # "*"
    <3>1. b = [a EXCEPT ![Len(a)] = Append(@, p)]
      BY <2>2, <2>5 DEF Split
    <3>2. b \in Seq(Seq(STRING)) /\ Len(b) >= 1
      <4> DEFINE u == Append(a[Len(a)], p)
      <4>1. Len(a) \in 1..Len(a) /\ a[Len(a)] \in Seq(STRING)
        BY <2>2
      <4>2. u \in Seq(STRING)
        BY <2>2, <4>1, AppendProperties
      <4>3. b = [a EXCEPT ![Len(a)] = u]
        BY <3>1
      <4> HIDE DEF u
      <4> QED
        BY <2>2, <4>1, <4>2, <4>3, ExceptSeq
    <3>3. ASSUME NEW j \in 0..Len(sub) PROVE EndsAt(b, sub, j) <=> j \in Y
      <4>1. EndsAt(b, sub, j) <=> j >= 1 /\ sub[j] = p /\ EndsAt(a, sub, j - 1)
        <5>1. EndsAt([a EXCEPT ![Len(a)] = Append(@, p)], sub, j) <=>
                j >= 1 /\ sub[j] = p /\ EndsAt(a, sub, j - 1)
          BY <2>2, EndsAtPart
        <5> QED
          BY <3>1, <5>1, Zenon
      <4>2. j \in Y <=> j >= 1 /\ sub[j] = p /\ j - 1 \in X
        BY <1>3, <2>2, <2>5 DEF After
      <4>3. j >= 1 => j - 1 \in 0..Len(sub)
        BY <1>3
      <4> QED
        BY <2>2, <4>1, <4>2, <4>3
    <3> QED
      BY <2>3, <3>2, <3>3
  <2> QED
    BY <2>4, <2>5
<1> HIDE DEF S
<1>8. Nat \subseteq S
  BY <1>6, <1>7, Induction
<1>9. Good(N)
  BY <1>3, <1>8 DEF S
<1>10. Occur(h(N), sub) <=> EndsAt(h(N), sub, Len(sub))
  BY <1>9, OccurIs
<1>11. EndsAt(h(N), sub, Len(sub)) <=> Len(sub) \in e[N]
  BY <1>3, <1>9
<1> QED
  BY <1>1, <1>2, <1>10, <1>11 DEF h, N

-----------------------------------------------------------------------------
(* FlatKey and Parse: the leaf behind a claim.                             *)

Join(s, t) == s \o t

(* The sums FlattenSeq(s) is made of.                                      *)
Flattens(f, s, n) ==
    f = [i \in 1..n |-> IF i = 1 THEN s[i] ELSE Join(f[i - 1], s[i])]

LEMMA FlattenExists ==
    ASSUME NEW s
    PROVE  \A n \in Nat : \E f : Flattens(f, s, n)
<1> DEFINE S == {n \in Nat : \E f : Flattens(f, s, n)}
<1>1. 0 \in S
  <2>1. Flattens(<<>>, s, 0)
    BY DEF Flattens
  <2> QED
    BY <2>1
<1>2. ASSUME NEW n \in Nat, n \in S PROVE n + 1 \in S
  <2>1. PICK f : Flattens(f, s, n)
    BY <1>2
  <2> DEFINE last == IF n = 0 THEN s[1] ELSE Join(f[n], s[n + 1])
             g == [i \in 1..(n + 1) |-> IF i <= n THEN f[i] ELSE last]
  <2>2. (\A i \in 1..n : g[i] = f[i]) /\ g[n + 1] = last
    OBVIOUS
  <2>3. ASSUME NEW i \in 1..(n + 1)
        PROVE  g[i] = IF i = 1 THEN s[i] ELSE Join(g[i - 1], s[i])
    <3>1. CASE i = n + 1
      <4>1. i = 1 <=> n = 0
        BY <3>1
      <4>2. n # 0 => i - 1 = n /\ n \in 1..n
        BY <3>1
      <4> QED
        BY <2>2, <3>1, <4>1, <4>2
    <3>2. CASE i # n + 1
      <4>1. i \in 1..n /\ (i # 1 => i - 1 \in 1..n)
        BY <3>2
      <4>2. f[i] = IF i = 1 THEN s[i] ELSE Join(f[i - 1], s[i])
        BY <2>1, <4>1 DEF Flattens
      <4> HIDE DEF g
      <4> QED
        BY <2>2, <4>1, <4>2
    <3> QED
      BY <3>1, <3>2
  <2>4. g = [i \in 1..(n + 1) |-> g[i]]
    OBVIOUS
  <2> HIDE DEF g, last
  <2>5. Flattens(g, s, n + 1)
    BY <2>3, <2>4 DEF Flattens
  <2> QED
    BY <2>5
<1> HIDE DEF S
<1>3. Nat \subseteq S
  BY <1>1, <1>2, Induction
<1> QED
  BY <1>3 DEF S

(* A flattened sequence is at least as long as the sequence, and begins    *)
(* as its first element does.                                              *)
LEMMA FlattenLength ==
    ASSUME NEW P, NEW s \in Seq(Seq(P) \ {<<>>}), s # <<>>
    PROVE  /\ Len(FlattenSeq(s)) >= Len(s) /\ FlattenSeq(s)[1] = s[1][1]
           /\ Len(s) = 1 => FlattenSeq(s) = s[1]
<1> DEFINE N == Len(s)
           f == CHOOSE f : Flattens(f, s, N)
<1>0. N \in Nat /\ N >= 1 /\ \A i \in 1..N : s[i] \in Seq(P) /\ Len(s[i]) \in Nat /\ Len(s[i]) >= 1
  <2>1. N \in Nat /\ N >= 1
    OBVIOUS
  <2>2. ASSUME NEW i \in 1..N PROVE s[i] \in Seq(P) /\ Len(s[i]) \in Nat /\ Len(s[i]) >= 1
    <3>1. s[i] \in Seq(P) /\ s[i] # <<>>
      BY ElementOfSeq
    <3> QED
      BY <3>1, EmptySeq
  <2> QED
    BY <2>1, <2>2
<1>1. FlattenSeq(s) = f[N]
  <2>1. N # 0
    BY <1>0
  <2> QED
    BY <2>1 DEF FlattenSeq, Flattens, Join
<1>2. Flattens(f, s, N)
  BY <1>0, FlattenExists
<1> HIDE DEF f, N
<1>3. f[1] = s[1] /\ \A i \in 1..(N - 1) : f[i + 1] = Join(f[i], s[i + 1])
  <2>1. \A i \in 1..N : f[i] = IF i = 1 THEN s[i] ELSE Join(f[i - 1], s[i])
    BY <1>2 DEF Flattens
  <2>2. 1 \in 1..N
    BY <1>0
  <2>3. ASSUME NEW i \in 1..(N - 1) PROVE f[i + 1] = Join(f[i], s[i + 1])
    <3>1. i + 1 \in 1..N /\ i + 1 # 1 /\ (i + 1) - 1 = i
      BY <1>0
    <3> QED
      BY <2>1, <3>1
  <2> QED
    BY <2>1, <2>2, <2>3
<1> DEFINE S == {n \in Nat : n \in 1..N => /\ f[n] \in Seq(P) /\ Len(f[n]) >= n
                                        /\ f[n][1] = s[1][1]}
<1>4. 0 \in S
  OBVIOUS
<1>5. ASSUME NEW n \in Nat, n \in S PROVE n + 1 \in S
  <2> SUFFICES ASSUME n + 1 \in 1..N
               PROVE  /\ f[n + 1] \in Seq(P) /\ Len(f[n + 1]) >= n + 1
                      /\ f[n + 1][1] = s[1][1]
    BY <1>5
  <2>1. CASE n = 0
    BY <1>0, <1>3, <2>1
  <2>2. CASE n # 0
    <3>1. /\ f[n] \in Seq(P) /\ Len(f[n]) >= n /\ n \in 1..(N - 1)
          /\ f[n][1] = s[1][1]
      BY <1>0, <1>5, <2>2
    <3> DEFINE x == f[n]
               y == s[n + 1]
               z == f[n + 1]
    <3>2. z = Join(x, y)
      BY <1>3, <3>1
    <3>3. y \in Seq(P) /\ Len(y) >= 1 /\ x \in Seq(P) /\ Len(x) >= n
      BY <1>0, <3>1
    <3> HIDE DEF S, x, y, z
    <3>4. z \in Seq(P) /\ Len(z) = Len(x) + Len(y)
      BY <3>2, <3>3, ConcatProperties DEF Join
    <3>5. Len(x) \in Nat /\ Len(y) \in Nat
      BY <3>3
    <3>6. Len(z) >= n + 1
      BY <3>3, <3>4, <3>5
    <3>7. z[1] = x[1]
      <4>1. 1 \in 1..(Len(x) + Len(y)) /\ 1 <= Len(x)
        BY <2>2, <3>3, <3>5
      <4> QED
        BY <3>2, <3>3, <4>1, ConcatProperties DEF Join
    <3> QED
      BY <3>1, <3>4, <3>6, <3>7 DEF x, z
  <2> QED
    BY <2>1, <2>2
<1> HIDE DEF S
<1>6. Nat \subseteq S
  BY <1>4, <1>5, Induction
<1>7. Len(FlattenSeq(s)) >= N /\ FlattenSeq(s)[1] = s[1][1]
  <2>1. N \in S /\ N \in 1..N
    BY <1>0, <1>6
  <2> QED
    BY <1>1, <2>1 DEF S
<1>8. N = 1 => FlattenSeq(s) = s[1]
  BY <1>1, <1>3
<1> QED
  BY <1>7, <1>8 DEF N

(* The leaf behind a claim of a payload.                                   *)
LEMMA ClaimWritten ==
    ASSUME NEW payload, IsFiniteSet(payload), NEW claims \in Parse(payload), NEW c \in claims
    PROVE  \E leaf \in Written(payload) : c = <<FlatKey(leaf), leaf.text>>
<1> DEFINE W == Written(payload)
<1>1. PICK s \in SetToSeqs(W) : claims = LastWrites(s)
  BY DEF Parse, WriteOrders
<1>2. Cardinality(W) \in Nat
  <2>1. W \subseteq payload
    BY DEF Written
  <2> HIDE DEF W
  <2>2. IsFiniteSet(W)
    BY <2>1, FS_Subset
  <2> QED
    BY <2>2, FS_CardinalityType
<1> DEFINE n == Cardinality(W)
<1>3. s \in [1..n -> W]
  BY DEF SetToSeqs
<1> HIDE DEF W, n
<1>4. Len(s) = n
  BY <1>2, <1>3 DEF n
<1>5. PICK i \in 1..Len(s) : c = <<FlatKey(s[i]), s[i].text>>
  BY <1>1 DEF LastWrites
<1>6. s[i] \in W
  BY <1>3, <1>4
<1> QED
  BY <1>5, <1>6 DEF W

(* The name of a top-level claim, as it is written.                        *)
Top(path) == IF path[1] = <<Namespace>> THEN <<awsPrefix>> ELSE path[1]

(* A key begins with the name of the top-level claim it was written from,  *)
(* and is that name if it is a plain one.                                  *)
LEMMA KeyOf ==
    ASSUME NEW leaf, leaf.path # <<>>, leaf.path \in Seq(Seq(STRING) \ {<<>>})
    PROVE  /\ FlatKey(leaf)[1] = Top(leaf.path)[1]
           /\ Len(FlatKey(leaf)) = 1 => Len(leaf.path) = 1 /\ FlatKey(leaf) = Top(leaf.path)
<1> DEFINE P == STRING \cup {awsPrefix}
           T == Seq(P) \ {<<>>}
           path == leaf.path
           top == IF path[1] = <<Namespace>> THEN <<awsPrefix>> ELSE path[1]
           s == <<top>> \o Tail(path)
<1>1. path \in Seq(T) /\ path # <<>> /\ Len(path) \in Nat /\ Len(path) >= 1
  <2>1. path \in Seq(T) /\ path # <<>>
    <3>1. Seq(STRING) \subseteq Seq(P)
      BY SeqMonotonic
    <3>2. Seq(STRING) \ {<<>>} \subseteq T
      BY <3>1
    <3> HIDE DEF T
    <3> QED
      BY <3>2, SeqMonotonic
  <2> HIDE DEF path, T
  <2> QED
    BY <2>1
<1>2. top \in T
  <2>1. path[1] \in T
    <3> HIDE DEF path, T
    <3> QED
      BY <1>1
  <2>2. <<awsPrefix>> \in T
    <3>1. <<awsPrefix>> \in Seq(P) /\ Len(<<awsPrefix>>) = 1
      <4>1. awsPrefix \in P
        OBVIOUS
      <4> HIDE DEF P
      <4> QED
        BY <4>1
    <3>2. Len(<<>>) = 0
      OBVIOUS
    <3> QED
      BY <3>1, <3>2
  <2> QED
    BY <2>1, <2>2
<1>3. FlatKey(leaf) = FlattenSeq(s)
  BY DEF FlatKey
<1> HIDE DEF P, T, path, top
<1>4. /\ Tail(path) \in Seq(T) /\ Len(Tail(path)) = Len(path) - 1
      /\ <<top>> \in Seq(T) /\ Len(<<top>>) = 1 /\ <<top>>[1] = top
  BY <1>1, <1>2
<1>5. s \in Seq(T) /\ Len(s) = Len(path) /\ s[1] = top
  BY <1>1, <1>4, ConcatProperties
<1>6. s # <<>>
  BY <1>1, <1>5
<1> HIDE DEF s
<1>7. /\ Len(FlattenSeq(s)) >= Len(s) /\ FlattenSeq(s)[1] = s[1][1]
      /\ Len(s) = 1 => FlattenSeq(s) = s[1]
  BY <1>5, <1>6, FlattenLength DEF T
<1>8. top = Top(leaf.path)
  BY DEF top, path, Top
<1>9. Len(FlattenSeq(s)) = 1 => Len(path) = 1
  BY <1>1, <1>5, <1>7
<1> QED
  BY <1>3, <1>5, <1>7, <1>8, <1>9 DEF path

(* What a plain claim of an identity stands for.                           *)
LEMMA PlainClaim ==
    ASSUME NEW id \in Identities, NEW c \in id.claims, Len(c[1]) = 1
    PROVE  /\ c[1][1] \notin reserved
           /\ \E leaf \in id.payload :
                /\ leaf.text = c[2]
                /\ leaf.path \in {<<c[1]>>} \cup
                                 (IF c[1] = <<awsPrefix>> THEN {<< <<Namespace>> >>} ELSE {})
<1>1. id.claims \in Parse(id.payload) /\ IsFiniteSet(id.payload)
  BY IdentityAssumption
<1>2. PICK leaf \in Written(id.payload) : c = <<FlatKey(leaf), leaf.text>>
  BY <1>1, ClaimWritten
<1> DEFINE path == leaf.path
           key == FlatKey(leaf)
<1>3. leaf \in id.payload /\ path[1] \notin {<<k>> : k \in reserved}
  BY DEF Written
<1>4. path # <<>> /\ path \in Seq(Seq(STRING) \ {<<>>})
  BY <1>3, IdentityAssumption
<1>5. c[1] = key /\ c[2] = leaf.text
  BY <1>2
<1>6. Len(path) = 1 /\ key = IF path[1] = <<Namespace>> THEN <<awsPrefix>> ELSE path[1]
  BY <1>4, <1>5, KeyOf DEF Top
<1> HIDE DEF path, key
<1>7. path = <<path[1]>> /\ path[1] \in Seq(STRING)
  BY <1>4, <1>6
<1>8. CASE path[1] = <<Namespace>>
  <2>1. key = <<awsPrefix>> /\ key[1] = "aws"
    BY <1>6, <1>8 DEF awsPrefix
  <2>2. key[1] \notin reserved
    BY <2>1 DEF reserved
  <2>3. path = << <<Namespace>> >>
    BY <1>7, <1>8
  <2> QED
    BY <1>3, <1>5, <2>1, <2>2, <2>3 DEF path
<1>9. CASE path[1] # <<Namespace>>
  <2>1. key = path[1] /\ Len(key) = 1 /\ key \in Seq(STRING)
    BY <1>5, <1>6, <1>7, <1>9
  <2>2. key = <<key[1]>>
    BY <2>1
  <2>3. key[1] \notin reserved
    BY <1>3, <2>1, <2>2
  <2>4. path = <<key>>
    BY <1>7, <2>1
  <2> QED
    BY <1>3, <1>5, <2>3, <2>4 DEF path
<1> QED
  BY <1>8, <1>9

(* An "aws." claim comes from the namespace if no top-level claim is named *)
(* alike.                                                                  *)
LEMMA AWSClaim ==
    ASSUME NEW id \in Identities, NEW c \in id.claims, c[1][1] = awsPrefix,
           \A leaf \in id.payload : leaf.path[1][1] # awsPrefix
    PROVE  FromNamespace(c, id.payload)
<1>1. id.claims \in Parse(id.payload) /\ IsFiniteSet(id.payload)
  BY IdentityAssumption
<1>2. PICK leaf \in Written(id.payload) : c = <<FlatKey(leaf), leaf.text>>
  BY <1>1, ClaimWritten
<1>3. leaf \in id.payload
  BY DEF Written
<1>4. FlatKey(leaf)[1] = Top(leaf.path)[1]
  BY <1>3, IdentityAssumption, KeyOf
<1>5. c[1] = FlatKey(leaf) /\ c[2] = leaf.text
  BY <1>2
<1>6. Top(leaf.path)[1] = awsPrefix
  BY <1>4, <1>5
<1>7. leaf.path[1] = <<Namespace>>
  BY <1>3, <1>6 DEF Top
<1> QED
  BY <1>3, <1>5, <1>7 DEF FromNamespace

-----------------------------------------------------------------------------
(* The inductive invariant.                                                *)

(* Validate has accepted rule i and compiled what it has.                  *)
Compiled(i) ==
    /\ RuleAccepted(rules[i])
    /\ matcher[i] = compileSub(rules[i].sub)
    /\ program[i] = rules[i].expr

Shape ==
    /\ rules \in Policies /\ at \in 0..Len(rules) /\ validated \in BOOLEAN
    /\ DOMAIN matcher = DOMAIN rules /\ DOMAIN program = DOMAIN rules
    /\ \A i \in DOMAIN rules : program[i] \in {"", rules[i].expr}

(* The rules Validate has passed are compiled, and all are once it is      *)
(* through; a program is never that of another rule.                       *)
Progress ==
    /\ at > 0 => \A i \in 1..(at - 1) : Compiled(i)
    /\ validated => Len(rules) > 0 /\ \A i \in DOMAIN rules : Compiled(i)

IndInv == Shape /\ Progress

LEMMA InitInv == Init => IndInv
<1> SUFFICES ASSUME Init PROVE IndInv
  OBVIOUS
<1>0. at = 0 /\ validated = FALSE
  BY DEF Init
<1>1. rules \in Policies /\ Len(rules) \in Nat
  BY PolicyAssumption DEF Init
<1>2. at \in 0..Len(rules)
  BY <1>0, <1>1
<1>3. Shape
  BY <1>1, <1>2 DEF Init, Shape
<1>4. Progress
  BY <1>0 DEF Progress
<1> QED
  BY <1>3, <1>4 DEF IndInv

LEMMA RulesFacts ==
    ASSUME IndInv
    PROVE  /\ Len(rules) \in Nat /\ DOMAIN rules = 1..Len(rules) /\ at \in Int
           /\ \A i \in DOMAIN rules : rules[i].sub.form \in {"none", "glob", "regex"}
<1>1. rules \in Policies /\ at \in 0..Len(rules)
  BY DEF IndInv, Shape
<1>2. Len(rules) \in Nat /\ DOMAIN rules = 1..Len(rules)
  BY <1>1, PolicyAssumption
<1>3. \A i \in DOMAIN rules : rules[i].sub.form \in {"none", "glob", "regex"}
  BY <1>1, PolicyAssumption
<1>4. at \in Int
  BY <1>1, <1>2
<1> QED
  BY <1>2, <1>3, <1>4

LEMMA ValidateRuleOK ==
    ASSUME IndInv, ValidateRule
    PROVE  IndInv'
<1> DEFINE r == rules[at]
           m == compileSub(r.sub)
           subOK  == r.account # "" /\ CompileSub(r.sub)
           exprOK == subOK /\ r.expr # "" /\ r.allowBroad /\ compileCELProgram(r.expr)
<1>1. /\ at > 0 /\ at \in DOMAIN rules /\ rules' = rules
      /\ matcher' = IF subOK THEN [matcher EXCEPT ![at] = m] ELSE matcher
      /\ program' = IF exprOK THEN [program EXCEPT ![at] = r.expr] ELSE program
      /\ at' = IF RuleAccepted(r) /\ at < Len(rules) THEN at + 1 ELSE 0
      /\ validated' = (validated \/ (RuleAccepted(r) /\ at = Len(rules)))
  <2>1. at > 0 /\ at \in 0..Len(rules)
    BY DEF ValidateRule, IndInv, Shape
  <2>2. at \in DOMAIN rules
    BY <2>1, RulesFacts
  <2> QED
    BY <2>1, <2>2 DEF ValidateRule
<1>2. RuleAccepted(r) => subOK /\ (exprOK \/ r.expr = "")
  BY DEF RuleAccepted
<1> HIDE DEF subOK, exprOK
<1>3. /\ matcher'[at] = IF subOK THEN m ELSE matcher[at]
      /\ \A i \in DOMAIN rules : i # at => matcher'[i] = matcher[i]
      /\ DOMAIN matcher' = DOMAIN rules
  BY <1>1 DEF IndInv, Shape
<1>4. /\ DOMAIN program' = DOMAIN rules
      /\ program'[at] = IF exprOK THEN r.expr ELSE program[at]
      /\ \A i \in DOMAIN rules : i # at => program'[i] = program[i]
  BY <1>1 DEF IndInv, Shape
<1>5. \A i \in DOMAIN rules : program'[i] \in {"", rules[i].expr}
  BY <1>1, <1>4 DEF IndInv, Shape
<1>6. Shape'
  <2>1. at' \in 0..Len(rules)
    BY <1>1, RulesFacts
  <2>2. validated' \in BOOLEAN
    BY <1>1
  <2> QED
    BY <1>1, <1>3, <1>4, <1>5, <2>1, <2>2 DEF IndInv, Shape
<1>7. ASSUME NEW i \in DOMAIN rules, Compiled(i) PROVE Compiled(i)'
  <2>1. CASE i = at
    BY <1>1, <1>3, <1>4, <1>7, <2>1 DEF Compiled
  <2>2. CASE i # at
    BY <1>1, <1>3, <1>4, <1>7, <2>2 DEF Compiled
  <2> QED
    BY <2>1, <2>2
<1>8. ASSUME NEW k \in DOMAIN rules, k = at, RuleAccepted(r) PROVE Compiled(k)'
  <2>1. program[at] \in {"", r.expr}
    BY <1>1 DEF IndInv, Shape
  <2>2. matcher'[at] = m /\ program'[at] = r.expr
    BY <1>2, <1>3, <1>4, <1>8, <2>1
  <2> QED
    BY <1>1, <1>8, <2>2 DEF Compiled
<1>9. Progress'
  <2>1. \A i \in 1..(at - 1) : i \in DOMAIN rules /\ Compiled(i)
    BY <1>1, RulesFacts DEF IndInv, Progress
  <2>2. at' > 0 => RuleAccepted(r) /\ at' = at + 1
    BY <1>1
  <2>3. at' > 0 => \A i \in 1..(at' - 1) : Compiled(i)'
    <3> SUFFICES ASSUME at' > 0, NEW i \in 1..(at' - 1) PROVE Compiled(i)'
      OBVIOUS
    <3>1. i = at \/ i \in 1..(at - 1)
      BY <2>2, RulesFacts
    <3> QED
      BY <1>1, <1>7, <1>8, <2>1, <2>2, <3>1
  <2>4. validated' => Len(rules) > 0 /\ \A i \in DOMAIN rules : Compiled(i)'
    <3>1. CASE validated
      BY <1>7, <3>1 DEF IndInv, Progress
    <3>2. CASE RuleAccepted(r) /\ at = Len(rules)
      <4>1. \A i \in DOMAIN rules : i = at \/ i \in 1..(at - 1)
        BY <3>2, RulesFacts
      <4> QED
        BY <1>1, <1>7, <1>8, <2>1, <3>2, <4>1, RulesFacts
    <3> QED
      BY <1>1, <3>1, <3>2
  <2> QED
    BY <1>1, <2>3, <2>4 DEF Progress
<1> QED
  BY <1>6, <1>9 DEF IndInv

LEMMA StepInv == IndInv /\ [Next]_vars => IndInv'
<1> SUFFICES ASSUME IndInv, [Next]_vars PROVE IndInv'
  OBVIOUS
<1>1. CASE ValidateBegins
  <2>1. at' \in 0..Len(rules) /\ at' = 1
    BY <1>1, RulesFacts DEF ValidateBegins
  <2>2. \A i \in 1..(at' - 1) : FALSE
    BY <2>1
  <2> QED
    BY <1>1, <2>1, <2>2 DEF ValidateBegins, IndInv, Shape, Progress, Compiled
<1>2. CASE UNCHANGED <<rules, matcher, program, validated, at>>
  BY <1>2 DEF IndInv, Shape, Progress, Compiled
<1> QED
  BY <1>1, <1>2, ValidateRuleOK DEF Next, Evaluate, vars

(* The invariant the other theorems rest on.                               *)
THEOREM Invariance == Spec => []IndInv
BY InitInv, StepInv, PTL DEF Spec

-----------------------------------------------------------------------------
(* The theorems.                                                           *)

(* A policy is validated only when each of its rules is, whatever order    *)
(* they fail in and however often Validate runs, and then each pattern and *)
(* expression is compiled (Policy.Validate).                               *)
THEOREM ValidatedCompiled == Spec => []ValidatedIsCompiled
<1>1. IndInv => ValidatedIsCompiled
  <2> SUFFICES ASSUME IndInv, validated PROVE ValidatedIsCompiled
    BY DEF ValidatedIsCompiled
  <2>1. Len(rules) > 0 /\ \A i \in DOMAIN rules : Compiled(i)
    BY DEF IndInv, Progress
  <2>2. PolicyValid(rules)
    BY <2>1, RulesFacts DEF Compiled, RuleAccepted, compileCELProgram, PolicyValid
  <2>3. ASSUME NEW i \in DOMAIN rules
        PROVE  (matcher[i] = nil) = (rules[i].sub.form = "none")
    <3>1. matcher[i] = compileSub(rules[i].sub)
      BY <2>1 DEF Compiled
    <3> DEFINE p == rules[i].sub
    <3>2. p.form \in {"none", "glob", "regex"}
      BY RulesFacts
    <3> HIDE DEF p
    <3>3. nil.kind = "nil"
      BY DEF nil
    <3>4. CASE p.form = "none"
      BY <3>1, <3>4 DEF compileSub, p
    <3>5. CASE p.form # "none"
      <4>1. compileSub(p).kind # "nil"
        BY <3>2, <3>5 DEF compileSub
      <4> QED
        BY <3>1, <3>3, <3>5, <4>1 DEF p
    <3> QED
      BY <3>4, <3>5
  <2>4. \A i \in DOMAIN rules : program[i] = rules[i].expr
    BY <2>1 DEF Compiled
  <2> QED
    BY <2>2, <2>3, <2>4 DEF ValidatedIsCompiled
<1> QED
  BY <1>1, Invariance, PTL

-----------------------------------------------------------------------------
(* Evaluate.                                                               *)

(* What was compiled of a rule matches as the rule does.                   *)
LEMMA MatchesMeant ==
    ASSUME IndInv, validated, NEW id \in Identities, NEW i \in DOMAIN rules
    PROVE  matches(i, id) <=> RuleMatches(rules[i], id, Now)
<1> DEFINE p == rules[i].sub
<1>1. matcher[i] = compileSub(p) /\ program[i] = rules[i].expr
  BY DEF IndInv, Progress, Compiled
<1>2. p.form \in {"none", "glob", "regex"}
  BY RulesFacts
<1>3. p.form = "glob" => (Occur(Segments(p.text), id.sub) <=> GlobSpans(p.text, id.sub))
  <2>1. p.text \in Seq(STRING)
    BY PolicyAssumption DEF IndInv, Shape
  <2>2. id.sub \in Seq(STRING)
    BY IdentityAssumption
  <2> QED
    BY <2>1, <2>2, GlobsAgree
<1> HIDE DEF p
<1>4. subMatches(compileSub(p), id.sub) <=> SubMatches(p, id.sub)
  <2>1. CASE p.form = "none"
    BY <2>1 DEF compileSub, nil, subMatches, SubMatches
  <2>2. CASE p.form = "glob"
    <3>1. compileSub(p) = [kind |-> "glob", segs |-> Segments(p.text)]
      BY <2>2 DEF compileSub
    <3>2. compileSub(p).kind = "glob" /\ compileSub(p).segs = Segments(p.text)
      BY <3>1
    <3>3. subMatches(compileSub(p), id.sub) <=> Occur(Segments(p.text), id.sub)
      BY <3>2 DEF subMatches
    <3>4. SubMatches(p, id.sub) <=> GlobSpans(p.text, id.sub)
      BY <2>2 DEF SubMatches
    <3> QED
      BY <1>3, <2>2, <3>3, <3>4
  <2>3. CASE p.form = "regex"
    <3>1. compileSub(p) = [kind |-> "regex", spans |-> p.spans]
      BY <2>3 DEF compileSub
    <3>2. compileSub(p).kind = "regex" /\ compileSub(p).spans = p.spans
      BY <3>1
    <3> QED
      BY <2>3, <3>2 DEF subMatches, SubMatches
  <2> QED
    BY <1>2, <2>1, <2>2, <2>3
<1>5. subMatches(matcher[i], id.sub) <=> SubMatches(rules[i].sub, id.sub)
  BY <1>1, <1>4 DEF p
<1> QED
  BY <1>1, <1>5 DEF matches, RuleMatches, evalCEL

(* What Evaluate returns.                                                  *)
LEMMA EvaluateDecides ==
    ASSUME IndInv, NEW id \in Identities, Evaluate(id)
    PROVE  /\ decision' # 0 =>
                /\ validated /\ RuleMatches(rules[decision'], id, Now)
                /\ \A j \in 1..(decision' - 1) : ~RuleMatches(rules[j], id, Now)
           /\ validated /\ decision' = 0 =>
                \A i \in DOMAIN rules : ~RuleMatches(rules[i], id, Now)
<1> DEFINE First(i) == matches(i, id) /\ \A j \in 1..(i - 1) : ~matches(j, id)
           T == {i \in DOMAIN rules : matches(i, id)}
           d == CHOOSE i \in DOMAIN rules : First(i)
<1>1. decision' = IF validated /\ \E i \in DOMAIN rules : matches(i, id) THEN d ELSE 0
  BY DEF Evaluate
<1>2. CASE validated /\ \E i \in DOMAIN rules : matches(i, id)
  <2>1. T \subseteq Nat /\ T # {}
    BY <1>2, RulesFacts
  <2>2. PICK m \in T : \A k \in T : m <= k
    BY <2>1, Least
  <2>3. m \in DOMAIN rules /\ First(m)
    <3>1. ASSUME NEW j \in 1..(m - 1) PROVE ~matches(j, id)
      <4>1. j \in DOMAIN rules /\ ~(m <= j)
        BY RulesFacts
      <4> QED
        BY <2>2, <4>1
    <3> QED
      BY <3>1
  <2>4. d \in DOMAIN rules /\ First(d)
    <3> HIDE DEF First
    <3> QED
      BY <2>3
  <2> HIDE DEF d
  <2>5. d \in Nat /\ d # 0
    BY <2>4, RulesFacts
  <2>6. RuleMatches(rules[d], id, Now)
    BY <1>2, <2>4, MatchesMeant
  <2>7. ASSUME NEW j \in 1..(d - 1) PROVE ~RuleMatches(rules[j], id, Now)
    <3>1. j \in DOMAIN rules
      BY <2>4, RulesFacts
    <3> QED
      BY <1>2, <2>4, <3>1, MatchesMeant
  <2> QED
    BY <1>1, <1>2, <2>5, <2>6, <2>7
<1>3. CASE ~(validated /\ \E i \in DOMAIN rules : matches(i, id))
  <2>1. decision' = 0
    BY <1>1, <1>3
  <2> QED
    BY <1>3, <2>1, MatchesMeant
<1> QED
  BY <1>2, <1>3

(* Evaluate grants by the first rule that matches, of a policy that is     *)
(* valid as a whole, and never on one whose Validate stopped half way      *)
(* (Evaluate, matches).                                                    *)
THEOREM GrantsMeant == Spec => []GrantsByMeaning
<1>1. Init => GrantsByMeaning
  BY DEF Init, GrantsByMeaning
<1>2. IndInv /\ ValidatedIsCompiled /\ GrantsByMeaning /\ [Next]_vars
        => GrantsByMeaning'
  <2> SUFFICES ASSUME IndInv, ValidatedIsCompiled, GrantsByMeaning, [Next]_vars
               PROVE  GrantsByMeaning'
    OBVIOUS
  <2>1. ASSUME NEW id \in Identities, Evaluate(id) PROVE GrantsByMeaning'
    <3>1. asked' = id /\ rules' = rules
      BY <2>1 DEF Evaluate
    <3> QED
      BY <2>1, <3>1, EvaluateDecides DEF ValidatedIsCompiled, GrantsByMeaning
  <2>2. CASE UNCHANGED <<rules, asked, decision>>
    BY <2>2 DEF GrantsByMeaning
  <2> QED
    BY <2>1, <2>2 DEF Next, ValidateBegins, ValidateRule, vars
<1> QED
  BY <1>1, <1>2, Invariance, ValidatedCompiled, PTL DEF Spec

(* A validated policy denies only an identity that none of its rules       *)
(* matches, also while it is validated again (Evaluate).                   *)
THEOREM DenialsMeant == Spec => DeniesByMeaning
<1>1. IndInv /\ [Next]_vars
        => [Evaluate(asked') /\ validated /\ decision' = 0 =>
                \A i \in DOMAIN rules : ~RuleMatches(rules[i], asked', Now)]_vars
  <2> SUFFICES ASSUME IndInv, Next, Evaluate(asked'), validated, decision' = 0
               PROVE  \A i \in DOMAIN rules : ~RuleMatches(rules[i], asked', Now)
    OBVIOUS
  <2>1. at = 0 /\ at' = at
    BY DEF Evaluate
  <2>2. PICK id \in Identities : Evaluate(id)
    BY <2>1 DEF Next, ValidateBegins, ValidateRule
  <2>3. asked' = id
    BY <2>2 DEF Evaluate
  <2> QED
    BY <2>2, <2>3, EvaluateDecides
<1> QED
  BY <1>1, Invariance, PTL DEF Spec, DeniesByMeaning

(* A plain claim a rule asks for was a top-level claim of the payload, of  *)
(* any payload, and never a registered one; an "aws." claim was one of the *)
(* AWS namespace, in any payload without a top-level claim named alike     *)
(* (Parse, flatten, Evaluate).                                             *)
THEOREM ClaimsApart == Spec => []NamespacesApart
<1> DEFINE Known == decision # 0 => asked \in Identities
           Plain(c) ==
             Len(c[1]) = 1 =>
                /\ c[1][1] \notin reserved
                /\ \E leaf \in asked.payload :
                    /\ leaf.text = c[2]
                    /\ leaf.path \in {<<c[1]>>} \cup
                                     (IF c[1] = <<awsPrefix>> THEN {<< <<Namespace>> >>} ELSE {})
           Nested(c) ==
             c[1][1] = awsPrefix /\ (\A leaf \in asked.payload : leaf.path[1][1] # awsPrefix)
                => FromNamespace(c, asked.payload)
<1>1. Init => Known
  BY DEF Init
<1>2. Known /\ [Next]_vars => Known'
  BY DEF Next, ValidateBegins, ValidateRule, Evaluate, vars
<1>3. GrantsByMeaning /\ Known => NamespacesApart
  <2> SUFFICES ASSUME GrantsByMeaning, Known, decision # 0, NEW c \in rules[decision].claims
               PROVE  Plain(c) /\ Nested(c)
    BY Zenon DEF NamespacesApart
  <2>1. c \in asked.claims /\ asked \in Identities
    BY DEF GrantsByMeaning, RuleMatches
  <2>2. Plain(c)
    BY <2>1, PlainClaim
  <2>3. Nested(c)
    BY <2>1, AWSClaim
  <2> QED
    BY <2>2, <2>3
<1> QED
  BY <1>1, <1>2, <1>3, GrantsMeant, PTL DEF Spec
=============================================================================

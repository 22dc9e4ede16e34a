--------------------------- MODULE SequenceLemmas ---------------------------
(* What the operations on a queue do to the set of its elements, and prefixes. *)
EXTENDS SequencesExt, SequenceTheorems, TLAPS

\* Appending an element adds it to the set.
LEMMA ToSetAppend ==
  ASSUME NEW S, NEW s \in Seq(S), NEW e \in S
  PROVE  Append(s, e) \in Seq(S) /\ ToSet(Append(s, e)) = ToSet(s) \cup {e}
<1>1. /\ Append(s, e) \in Seq(S)
      /\ Len(Append(s, e)) = Len(s) + 1
      /\ \A i \in 1..Len(s) : Append(s, e)[i] = s[i]
      /\ Append(s, e)[Len(s) + 1] = e
  BY AppendProperties
<1>2. /\ ToSet(s) = {s[i] : i \in 1..Len(s)}
      /\ ToSet(Append(s, e)) = {Append(s, e)[i] : i \in 1..Len(s) + 1}
  BY <1>1, LenProperties DEF ToSet
<1> QED
  BY <1>1, <1>2, LenProperties

\* The head and the tail share the elements out.
LEMMA ToSetHeadTail ==
  ASSUME NEW S, NEW s \in Seq(S), s # <<>>
  PROVE  /\ Head(s) \in S
         /\ Tail(s) \in Seq(S)
         /\ ToSet(s) = {Head(s)} \cup ToSet(Tail(s))
<1>1. /\ Head(s) \in S /\ Tail(s) \in Seq(S)
      /\ Len(s) \in Nat \ {0}
      /\ Len(Tail(s)) = Len(s) - 1
      /\ Head(s) = s[1]
      /\ \A i \in 1..Len(Tail(s)) : Tail(s)[i] = s[i + 1]
  BY HeadTailProperties, LenProperties, EmptySeq
<1>2. /\ ToSet(s) = {s[i] : i \in 1..Len(s)}
      /\ ToSet(Tail(s)) = {Tail(s)[i] : i \in 1..Len(Tail(s))}
  BY <1>1, LenProperties DEF ToSet
<1>3. ASSUME NEW x \in ToSet(s) PROVE x \in {Head(s)} \cup ToSet(Tail(s))
  <2>1. PICK i \in 1..Len(s) : x = s[i]
    BY <1>2
  <2>2. CASE i = 1
    BY <1>1, <2>1, <2>2
  <2>3. CASE i # 1
    <3>1. i - 1 \in 1..Len(Tail(s)) /\ Tail(s)[i - 1] = x
      BY <1>1, <2>1, <2>3
    <3> QED
      BY <1>2, <3>1
  <2> QED
    BY <2>2, <2>3
<1>4. ASSUME NEW x \in {Head(s)} \cup ToSet(Tail(s)) PROVE x \in ToSet(s)
  <2>1. CASE x = Head(s)
    BY <1>1, <1>2, <2>1
  <2>2. CASE x \in ToSet(Tail(s))
    <3>1. PICK i \in 1..Len(Tail(s)) : x = Tail(s)[i]
      BY <1>2, <2>2
    <3>2. i + 1 \in 1..Len(s) /\ s[i + 1] = x
      BY <1>1, <3>1
    <3> QED
      BY <1>2, <3>2
  <2> QED
    BY <2>1, <2>2
<1> QED
  BY <1>1, <1>3, <1>4

\* A prefix has no element of its own.
LEMMA ToSetPrefix ==
  ASSUME NEW S, NEW s \in Seq(S), NEW k \in 0..Len(s)
  PROVE  /\ SubSeq(s, 1, k) \in Seq(S)
         /\ ToSet(SubSeq(s, 1, k)) \subseteq ToSet(s)
<1>1. k \in Nat /\ Len(s) \in Nat
  BY LenProperties
<1>2. \A i \in 1..k : s[i] \in S /\ i \in 1..Len(s)
  BY <1>1, ElementOfSeq
<1>3. /\ SubSeq(s, 1, k) \in Seq(S)
      /\ Len(SubSeq(s, 1, k)) = k
      /\ \A i \in 1..k : SubSeq(s, 1, k)[i] = s[i]
  BY <1>1, <1>2, SubSeqProperties
<1>4. /\ ToSet(s) = {s[i] : i \in 1..Len(s)}
      /\ ToSet(SubSeq(s, 1, k)) = {SubSeq(s, 1, k)[i] : i \in 1..k}
  BY <1>3, LenProperties DEF ToSet
<1> QED
  BY <1>2, <1>3, <1>4

LEMMA ToSetEmpty == ToSet(<<>>) = {}
BY DEF ToSet

-----------------------------------------------------------------------------
(* Prefixes *)

\* The first k elements.
LEMMA PrefixProperties ==
  ASSUME NEW S, NEW s \in Seq(S), NEW k \in 0..Len(s)
  PROVE  /\ SubSeq(s, 1, k) \in Seq(S) /\ Len(SubSeq(s, 1, k)) = k
         /\ \A i \in 1..k : SubSeq(s, 1, k)[i] = s[i]
<1>1. k \in Nat /\ Len(s) \in Nat
  BY LenProperties
<1>2. \A i \in 1..k : s[i] \in S
  BY <1>1, ElementOfSeq
<1> QED
  BY <1>1, <1>2, SubSeqProperties

\* What is behind the first k elements.
LEMMA SuffixProperties ==
  ASSUME NEW S, NEW s \in Seq(S), NEW k \in 0..Len(s)
  PROVE  /\ SubSeq(s, k + 1, Len(s)) \in Seq(S)
         /\ Len(SubSeq(s, k + 1, Len(s))) = Len(s) - k
         /\ \A i \in 1..(Len(s) - k) : SubSeq(s, k + 1, Len(s))[i] = s[k + i]
<1>1. k \in Nat /\ Len(s) \in Nat /\ k <= Len(s)
  BY LenProperties
<1>2. \A i \in (k + 1)..Len(s) : s[i] \in S
  BY <1>1, ElementOfSeq
<1>3. /\ SubSeq(s, k + 1, Len(s)) \in Seq(S)
      /\ Len(SubSeq(s, k + 1, Len(s))) =
           IF k + 1 <= Len(s) THEN Len(s) - (k + 1) + 1 ELSE 0
      /\ \A i \in 1..(Len(s) - (k + 1) + 1) :
           SubSeq(s, k + 1, Len(s))[i] = s[k + 1 + i - 1]
  BY <1>1, <1>2, SubSeqProperties
<1> QED
  BY <1>1, <1>3

\* A sequence cut behind its element k: the two parts have its elements.
LEMMA CutToSet ==
  ASSUME NEW S, NEW s \in Seq(S), NEW k \in 0..Len(s)
  PROVE  ToSet(s) = ToSet(SubSeq(s, 1, k)) \cup ToSet(SubSeq(s, k + 1, Len(s)))
<1>1. PICK n \in Nat : n = Len(s)
  BY LenProperties
<1> DEFINE front == SubSeq(s, 1, k)
           back == SubSeq(s, k + 1, Len(s))
<1>2. k \in Nat /\ k <= n
  BY <1>1
<1>3. front \in Seq(S) /\ Len(front) = k /\ \A i \in 1..k : front[i] = s[i]
  BY PrefixProperties
<1>4. /\ back \in Seq(S) /\ Len(back) = n - k
      /\ \A i \in 1..(n - k) : back[i] = s[k + i]
  BY <1>1, SuffixProperties
<1> HIDE DEF front, back
<1>5. /\ DOMAIN s = 1..n
      /\ DOMAIN front = 1..k
      /\ DOMAIN back = 1..(n - k)
  BY <1>1, <1>3, <1>4
<1>6. ASSUME NEW i \in 1..n PROVE s[i] \in ToSet(front) \cup ToSet(back)
  <2>1. CASE i <= k
    BY <1>2, <1>3, <1>5, <2>1 DEF ToSet
  <2>2. CASE i > k
    <3>1. i - k \in 1..(n - k) /\ k + (i - k) = i
      BY <1>2, <2>2
    <3>2. s[i] = back[i - k]
      BY <1>4, <3>1
    <3> QED
      BY <1>5, <3>1, <3>2 DEF ToSet
  <2> QED
    BY <1>2, <2>1, <2>2
<1>7. ASSUME NEW i \in 1..k PROVE front[i] \in ToSet(s)
  BY <1>2, <1>3, <1>5 DEF ToSet
<1>8. ASSUME NEW i \in 1..(n - k) PROVE back[i] \in ToSet(s)
  <2>1. k + i \in 1..n
    BY <1>2
  <2> QED
    BY <1>4, <1>5, <2>1 DEF ToSet
<1>9. ToSet(s) = ToSet(front) \cup ToSet(back)
  BY <1>5, <1>6, <1>7, <1>8 DEF ToSet
<1> QED
  BY <1>9 DEF front, back

\* Where no element occurs twice, the two parts share none.
LEMMA CutApart ==
  ASSUME NEW S, NEW s \in Seq(S), NEW k \in 0..Len(s),
         \A i, j \in 1..Len(s) : s[i] = s[j] => i = j
  PROVE  ToSet(SubSeq(s, 1, k)) \cap ToSet(SubSeq(s, k + 1, Len(s))) = {}
<1>1. PICK n \in Nat : n = Len(s)
  BY LenProperties
<1> DEFINE front == SubSeq(s, 1, k)
           back == SubSeq(s, k + 1, Len(s))
<1>2. k \in Nat /\ k <= n
  BY <1>1
<1>3. front \in Seq(S) /\ Len(front) = k /\ \A i \in 1..k : front[i] = s[i]
  BY PrefixProperties
<1>4. /\ back \in Seq(S) /\ Len(back) = n - k
      /\ \A i \in 1..(n - k) : back[i] = s[k + i]
  BY <1>1, SuffixProperties
<1> HIDE DEF front, back
<1>5. DOMAIN front = 1..k /\ DOMAIN back = 1..(n - k)
  BY <1>1, <1>3, <1>4
<1>6. ASSUME NEW i \in 1..k, NEW j \in 1..(n - k), front[i] = back[j]
      PROVE  FALSE
  <2>1. i \in 1..n /\ k + j \in 1..n /\ i # k + j
    BY <1>2
  <2>2. s[i] = s[k + j]
    BY <1>3, <1>4, <1>6
  <2> QED
    BY <1>1, <2>1, <2>2
<1>7. ToSet(front) \cap ToSet(back) = {}
  BY <1>5, <1>6 DEF ToSet
<1> QED
  BY <1>7 DEF front, back

\* A concatenation falls apart into its parts.
LEMMA SplitConcat ==
  ASSUME NEW S, NEW s \in Seq(S), NEW t \in Seq(S)
  PROVE  /\ SubSeq(s \o t, 1, Len(s)) = s
         /\ SubSeq(s \o t, Len(s) + 1, Len(s \o t)) = t
<1>1. /\ s \o t \in Seq(S) /\ Len(s \o t) = Len(s) + Len(t)
      /\ \A i \in 1..(Len(s) + Len(t)) :
           (s \o t)[i] = IF i <= Len(s) THEN s[i] ELSE t[i - Len(s)]
  BY ConcatProperties
<1>2. Len(s) \in Nat /\ Len(t) \in Nat /\ Len(s) \in 0..Len(s \o t)
  BY <1>1, LenProperties
<1>3. /\ SubSeq(s \o t, 1, Len(s)) \in Seq(S)
      /\ Len(SubSeq(s \o t, 1, Len(s))) = Len(s)
      /\ \A i \in 1..Len(s) : SubSeq(s \o t, 1, Len(s))[i] = (s \o t)[i]
  BY <1>1, <1>2, PrefixProperties
<1>4. /\ SubSeq(s \o t, Len(s) + 1, Len(s \o t)) \in Seq(S)
      /\ Len(SubSeq(s \o t, Len(s) + 1, Len(s \o t))) = Len(t)
      /\ \A i \in 1..Len(t) :
           SubSeq(s \o t, Len(s) + 1, Len(s \o t))[i] = (s \o t)[Len(s) + i]
  <2>1. Len(s \o t) - Len(s) = Len(t)
    BY <1>1, <1>2
  <2> QED
    BY <1>1, <1>2, <2>1, SuffixProperties
<1>5. \A i \in 1..Len(s) : SubSeq(s \o t, 1, Len(s))[i] = s[i]
  BY <1>1, <1>2, <1>3
<1>6. \A i \in 1..Len(t) : SubSeq(s \o t, Len(s) + 1, Len(s \o t))[i] = t[i]
  BY <1>1, <1>2, <1>4
<1>7. SubSeq(s \o t, 1, Len(s)) = s
  BY <1>3, <1>5, SeqEqual
<1>8. SubSeq(s \o t, Len(s) + 1, Len(s \o t)) = t
  BY <1>4, <1>6, SeqEqual
<1> QED
  BY <1>7, <1>8

\* A prefix of a concatenation ends in the first part or in the second.
LEMMA PrefixOfConcat ==
  ASSUME NEW S, NEW s \in Seq(S), NEW t \in Seq(S), NEW k \in 0..Len(s \o t)
  PROVE  /\ Len(s \o t) = Len(s) + Len(t)
         /\ k <= Len(s) => SubSeq(s \o t, 1, k) = SubSeq(s, 1, k)
         /\ k >= Len(s) =>
              SubSeq(s \o t, 1, k) = s \o SubSeq(t, 1, k - Len(s))
<1>1. /\ s \o t \in Seq(S) /\ Len(s \o t) = Len(s) + Len(t)
      /\ \A i \in 1..(Len(s) + Len(t)) :
           (s \o t)[i] = IF i <= Len(s) THEN s[i] ELSE t[i - Len(s)]
  BY ConcatProperties
<1>2. Len(s) \in Nat /\ Len(t) \in Nat /\ k \in Nat /\ k <= Len(s) + Len(t)
  BY <1>1, LenProperties
<1>3. /\ SubSeq(s \o t, 1, k) \in Seq(S) /\ Len(SubSeq(s \o t, 1, k)) = k
      /\ \A i \in 1..k : SubSeq(s \o t, 1, k)[i] = (s \o t)[i]
  BY <1>1, PrefixProperties
<1>4. ASSUME k <= Len(s) PROVE SubSeq(s \o t, 1, k) = SubSeq(s, 1, k)
  <2>1. /\ SubSeq(s, 1, k) \in Seq(S) /\ Len(SubSeq(s, 1, k)) = k
        /\ \A i \in 1..k : SubSeq(s, 1, k)[i] = s[i]
    BY <1>2, <1>4, PrefixProperties
  <2>2. \A i \in 1..k : SubSeq(s \o t, 1, k)[i] = SubSeq(s, 1, k)[i]
    BY <1>1, <1>2, <1>3, <1>4, <2>1
  <2> QED
    BY <1>3, <2>1, <2>2, SeqEqual
<1>5. ASSUME k >= Len(s)
      PROVE  SubSeq(s \o t, 1, k) = s \o SubSeq(t, 1, k - Len(s))
  <2> DEFINE u == SubSeq(t, 1, k - Len(s))
  <2>1. /\ u \in Seq(S) /\ Len(u) = k - Len(s)
        /\ \A i \in 1..(k - Len(s)) : u[i] = t[i]
    <3>1. k - Len(s) \in 0..Len(t)
      BY <1>2, <1>5
    <3> QED
      BY <3>1, PrefixProperties
  <2> HIDE DEF u
  <2>2. /\ s \o u \in Seq(S) /\ Len(s \o u) = k
        /\ \A i \in 1..k : (s \o u)[i] = IF i <= Len(s) THEN s[i] ELSE u[i - Len(s)]
    <3>1. Len(s) + Len(u) = k
      BY <1>2, <2>1
    <3> QED
      BY <2>1, <3>1, ConcatProperties
  <2>3. \A i \in 1..k : SubSeq(s \o t, 1, k)[i] = (s \o u)[i]
    BY <1>1, <1>2, <1>3, <1>5, <2>1, <2>2
  <2>4. SubSeq(s \o t, 1, k) = s \o u
    BY <1>3, <2>2, <2>3, SeqEqual
  <2> QED
    BY <2>4 DEF u
<1> QED
  BY <1>1, <1>4, <1>5
=============================================================================

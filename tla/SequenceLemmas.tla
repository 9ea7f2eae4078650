--------------------------- MODULE SequenceLemmas ---------------------------
(***************************************************************************)
(* The elements of the queues of the gateway, and what the operations on   *)
(* queues do to them.                                                      *)
(***************************************************************************)
EXTENDS Naturals, Sequences, SequenceTheorems, TLAPS

Elements(seq) == {seq[i] : i \in 1..Len(seq)}

\* No element occurs twice.
Distinct(seq) == \A i, j \in 1..Len(seq) : i # j => seq[i] # seq[j]

\* A sequence without its i-th element.
Remove(seq, i) == SubSeq(seq, 1, i - 1) \o SubSeq(seq, i + 1, Len(seq))

\* The elements have the type of the sequence.
LEMMA ElementsType ==
  ASSUME NEW S, NEW seq \in Seq(S)
  PROVE  Elements(seq) \subseteq S
BY DEF Elements

\* Nothing is in the empty sequence.
LEMMA EmptyElements == Elements(<<>>) = {} /\ Distinct(<<>>)
BY DEF Elements, Distinct

\* An append adds an element.
LEMMA AppendsOne ==
  ASSUME NEW S, NEW seq \in Seq(S), NEW e \in S
  PROVE  /\ Append(seq, e) \in Seq(S)
         /\ Elements(Append(seq, e)) = Elements(seq) \cup {e}
         /\ Distinct(seq) /\ e \notin Elements(seq) => Distinct(Append(seq, e))
<1> DEFINE t == Append(seq, e)
<1>1. /\ t \in Seq(S) /\ Len(seq) \in Nat /\ Len(t) = Len(seq) + 1
      /\ t[Len(seq) + 1] = e /\ \A i \in 1..Len(seq) : t[i] = seq[i]
  OBVIOUS
<1> HIDE DEF t
<1>2. Elements(t) = Elements(seq) \cup {e}
  <2>1. \A i \in 1..Len(t) : i \in 1..Len(seq) \/ i = Len(seq) + 1
    BY <1>1
  <2>2. \A i \in 1..Len(seq) : i \in 1..Len(t)
    BY <1>1
  <2>3. Len(seq) + 1 \in 1..Len(t)
    BY <1>1
  <2>4. Elements(t) \subseteq Elements(seq) \cup {e}
    BY <1>1, <2>1 DEF Elements
  <2>5. Elements(seq) \cup {e} \subseteq Elements(t)
    BY <1>1, <2>2, <2>3 DEF Elements
  <2> QED
    BY <2>4, <2>5
<1>3. Distinct(seq) /\ e \notin Elements(seq) => Distinct(t)
  BY <1>1 DEF Distinct, Elements
<1> QED
  BY <1>1, <1>2, <1>3 DEF t

\* A queue is its head and its tail.
LEMMA TakesHead ==
  ASSUME NEW S, NEW seq \in Seq(S), seq # <<>>
  PROVE  /\ Head(seq) \in S /\ Tail(seq) \in Seq(S)
         /\ Elements(seq) = {Head(seq)} \cup Elements(Tail(seq))
         /\ Distinct(seq)
              => Distinct(Tail(seq)) /\ Head(seq) \notin Elements(Tail(seq))
<1> DEFINE t == Tail(seq)
<1>1. /\ Head(seq) \in S /\ t \in Seq(S) /\ Len(seq) \in Nat \ {0}
      /\ Len(t) = Len(seq) - 1 /\ Head(seq) = seq[1]
      /\ \A i \in 1..Len(t) : t[i] = seq[i + 1]
  BY HeadTailProperties, EmptySeq
<1> HIDE DEF t
<1>2. Elements(seq) = {Head(seq)} \cup Elements(t)
  <2>1. \A i \in 1..Len(seq) : i = 1 \/ (i - 1 \in 1..Len(t) /\ t[i - 1] = seq[i])
    BY <1>1
  <2>2. \A i \in 1..Len(t) : i + 1 \in 1..Len(seq)
    BY <1>1
  <2>3. 1 \in 1..Len(seq)
    BY <1>1
  <2>4. Elements(seq) \subseteq {Head(seq)} \cup Elements(t)
    <3> SUFFICES ASSUME NEW i \in 1..Len(seq), i # 1
                 PROVE  seq[i] \in Elements(t)
      BY <1>1 DEF Elements
    <3> QED
      BY <2>1 DEF Elements
  <2>5. {Head(seq)} \cup Elements(t) \subseteq Elements(seq)
    BY <1>1, <2>2, <2>3 DEF Elements
  <2> QED
    BY <2>4, <2>5
<1>3. ASSUME Distinct(seq)
      PROVE  Distinct(t) /\ Head(seq) \notin Elements(t)
  <2>1. \A i \in 1..Len(t) : i + 1 \in 1..Len(seq) /\ i + 1 # 1
    BY <1>1
  <2>2. 1 \in 1..Len(seq)
    BY <1>1
  <2>3. Distinct(t)
    BY <1>1, <1>3, <2>1 DEF Distinct
  <2>4. \A i \in 1..Len(t) : t[i] # seq[1]
    BY <1>1, <1>3, <2>1, <2>2 DEF Distinct
  <2>5. Head(seq) \notin Elements(t)
    BY <1>1, <2>4 DEF Elements
  <2> QED
    BY <2>3, <2>5
<1> QED
  BY <1>1, <1>2, <1>3 DEF t

\* The elements that stay move up.
LEMMA RemoveProperties ==
  ASSUME NEW S, NEW seq \in Seq(S), NEW i \in 1..Len(seq)
  PROVE  /\ Remove(seq, i) \in Seq(S)
         /\ Len(Remove(seq, i)) = Len(seq) - 1
         /\ \A j \in 1..(Len(seq) - 1) :
              Remove(seq, i)[j] = IF j < i THEN seq[j] ELSE seq[j + 1]
<1> DEFINE a == SubSeq(seq, 1, i - 1)
           b == SubSeq(seq, i + 1, Len(seq))
<1>0. Len(seq) \in Nat /\ i \in Nat
  OBVIOUS
<1>1. a \in Seq(S) /\ Len(a) = i - 1 /\ \A j \in 1..(i - 1) : a[j] = seq[j]
  <2>1. \A j \in 1..(i - 1) : seq[j] \in S
    OBVIOUS
  <2> QED
    BY <2>1, SubSeqProperties
<1>2. /\ b \in Seq(S) /\ Len(b) = Len(seq) - i
      /\ \A j \in 1..(Len(seq) - i) : b[j] = seq[i + j]
  <2>1. \A j \in (i + 1)..Len(seq) : seq[j] \in S
    OBVIOUS
  <2>2. /\ b \in Seq(S)
        /\ Len(b) = IF i + 1 <= Len(seq) THEN Len(seq) - (i + 1) + 1 ELSE 0
        /\ \A j \in 1..Len(b) : b[j] = seq[i + 1 + j - 1]
    BY <2>1, SubSeqProperties
  <2>3. Len(b) = Len(seq) - i
    BY <1>0, <2>2
  <2>4. \A j \in 1..Len(b) : i + 1 + j - 1 = i + j
    BY <1>0, <2>3
  <2> QED
    BY <2>2, <2>3, <2>4
<1> HIDE DEF a, b
<1>3. /\ a \o b \in Seq(S) /\ Len(a \o b) = Len(a) + Len(b)
      /\ \A j \in 1..(Len(a) + Len(b)) :
           (a \o b)[j] = IF j <= Len(a) THEN a[j] ELSE b[j - Len(a)]
  BY <1>1, <1>2, ConcatProperties
<1>4. ASSUME NEW j \in 1..(Len(seq) - 1)
      PROVE  (a \o b)[j] = IF j < i THEN seq[j] ELSE seq[j + 1]
  <2>1. CASE j < i
    BY <1>0, <1>1, <1>2, <1>3, <2>1
  <2>2. CASE ~(j < i)
    <3>1. /\ (a \o b)[j] = b[j - (i - 1)]
          /\ j - (i - 1) \in 1..(Len(seq) - i)
          /\ i + (j - (i - 1)) = j + 1
      BY <1>0, <1>1, <1>2, <1>3, <2>2
    <3>2. b[j - (i - 1)] = seq[i + (j - (i - 1))]
      BY <1>2, <3>1
    <3> QED
      BY <2>2, <3>1, <3>2
  <2> QED
    BY <2>1, <2>2
<1>5. Len(a) + Len(b) = Len(seq) - 1
  BY <1>0, <1>1, <1>2
<1>6. Remove(seq, i) = a \o b
  BY DEF Remove, a, b
<1> QED
  BY <1>3, <1>4, <1>5, <1>6

\* One element is gone from a sequence without duplicates, and only that one.
LEMMA RemovesOne ==
  ASSUME NEW S, NEW seq \in Seq(S), NEW i \in 1..Len(seq), Distinct(seq)
  PROVE  /\ Elements(Remove(seq, i)) = Elements(seq) \ {seq[i]}
         /\ Distinct(Remove(seq, i))
<1> DEFINE t == Remove(seq, i)
<1>1. /\ Len(seq) \in Nat /\ i \in Nat /\ Len(t) = Len(seq) - 1
      /\ \A j \in 1..Len(t) : t[j] = IF j < i THEN seq[j] ELSE seq[j + 1]
  BY RemoveProperties
<1> HIDE DEF t
<1>2. \A j \in 1..Len(t) : j \in 1..Len(seq) /\ j + 1 \in 1..Len(seq)
  BY <1>1
<1>3. Elements(t) \subseteq Elements(seq) \ {seq[i]}
  <2>1. \A j \in 1..Len(t) : \E k \in 1..Len(seq) : k # i /\ t[j] = seq[k]
    BY <1>1, <1>2
  <2> QED
    BY <2>1 DEF Elements, Distinct
<1>4. Elements(seq) \ {seq[i]} \subseteq Elements(t)
  <2>1. ASSUME NEW k \in 1..Len(seq), k # i
        PROVE  \E j \in 1..Len(t) : t[j] = seq[k]
    <3>1. CASE k < i
      <4>1. k \in 1..Len(t) /\ t[k] = seq[k]
        BY <1>1, <3>1
      <4> QED
        BY <4>1
    <3>2. CASE k > i
      <4>1. k - 1 \in 1..Len(t) /\ ~(k - 1 < i) /\ (k - 1) + 1 = k
        BY <1>1, <3>2
      <4>2. t[k - 1] = seq[(k - 1) + 1]
        BY <1>1, <4>1
      <4> QED
        BY <4>1, <4>2
    <3> QED
      BY <1>1, <2>1, <3>1, <3>2
  <2> QED
    BY <2>1 DEF Elements
<1>5. Distinct(t)
  <2> SUFFICES ASSUME NEW j \in 1..Len(t), NEW k \in 1..Len(t), j < k
               PROVE  t[j] # t[k]
    BY <1>1 DEF Distinct
  <2>1. PICK m \in 1..Len(seq), n \in 1..Len(seq) :
          m # n /\ t[j] = seq[m] /\ t[k] = seq[n]
    <3>1. CASE k < i
      BY <1>1, <1>2, <3>1
    <3>2. CASE j < i /\ ~(k < i)
      <4>1. j # k + 1 /\ t[j] = seq[j] /\ t[k] = seq[k + 1]
        BY <1>1, <3>2
      <4> QED
        BY <1>2, <4>1
    <3>3. CASE ~(j < i)
      <4>1. j + 1 # k + 1 /\ t[j] = seq[j + 1] /\ t[k] = seq[k + 1]
        BY <1>1, <3>3
      <4> QED
        BY <1>2, <4>1
    <3> QED
      BY <1>1, <3>1, <3>2, <3>3
  <2> QED
    BY <2>1 DEF Distinct
<1> QED
  BY <1>3, <1>4, <1>5 DEF t

\* A push in front adds an element.
LEMMA PushesOne ==
  ASSUME NEW S, NEW seq \in Seq(S), NEW e \in S
  PROVE  /\ <<e>> \o seq \in Seq(S)
         /\ Len(<<e>> \o seq) = Len(seq) + 1
         /\ Elements(<<e>> \o seq) = {e} \cup Elements(seq)
<1> DEFINE t == <<e>> \o seq
<1>1. <<e>> \in Seq(S) /\ Len(<<e>>) = 1 /\ <<e>>[1] = e /\ Len(seq) \in Nat
  OBVIOUS
<1>2. /\ t \in Seq(S) /\ Len(t) = 1 + Len(seq)
      /\ \A i \in 1..(1 + Len(seq)) : t[i] = IF i <= 1 THEN <<e>>[i] ELSE seq[i - 1]
  BY <1>1, ConcatProperties
<1> HIDE DEF t
<1>3. t[1] = e /\ 1 \in 1..Len(t)
  BY <1>1, <1>2
<1>4. \A i \in 1..Len(seq) : i + 1 \in 1..Len(t) /\ t[i + 1] = seq[i]
  BY <1>1, <1>2
<1>5. \A i \in 1..Len(t) : i = 1 \/ (i - 1 \in 1..Len(seq) /\ t[i] = seq[i - 1])
  BY <1>1, <1>2
<1>6. {e} \cup Elements(seq) \subseteq Elements(t)
  <2>1. e \in Elements(t)
    BY <1>3 DEF Elements
  <2>2. \A i \in 1..Len(seq) : seq[i] \in Elements(t)
    BY <1>4 DEF Elements
  <2> QED
    BY <2>1, <2>2 DEF Elements
<1>7. Elements(t) \subseteq {e} \cup Elements(seq)
  <2> SUFFICES ASSUME NEW i \in 1..Len(t), i # 1
               PROVE  t[i] \in Elements(seq)
    BY <1>3 DEF Elements
  <2> QED
    BY <1>5 DEF Elements
<1> QED
  BY <1>1, <1>2, <1>6, <1>7 DEF t

\* An element in front of a queue is its head.
LEMMA PushedIsHead ==
  ASSUME NEW S, NEW seq \in Seq(S), NEW e \in S
  PROVE  /\ <<e>> \o seq \in Seq(S) /\ <<e>> \o seq # <<>>
         /\ Head(<<e>> \o seq) = e /\ Tail(<<e>> \o seq) = seq
OBVIOUS

\* A queue is its head in front of its tail.
LEMMA HeadInFront ==
  ASSUME NEW S, NEW seq \in Seq(S), seq # <<>>
  PROVE  <<Head(seq)>> \o Tail(seq) = seq
OBVIOUS

\* An append goes to the end of a concatenation.
LEMMA AppendAfter ==
  ASSUME NEW S, NEW a \in Seq(S), NEW b \in Seq(S), NEW e \in S
  PROVE  a \o Append(b, e) = Append(a \o b, e)
OBVIOUS
=============================================================================

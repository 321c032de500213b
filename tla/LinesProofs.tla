----------------------------- MODULE LinesProofs -----------------------------
(***************************************************************************)
(* Theorems about Lines.                                                   *)
(***************************************************************************)
EXTENDS Lines, SharedLemmas, SequenceTheorems

-----------------------------------------------------------------------------
(* Texts put together: where each part begins, and what stands there.       *)

\* off[k] characters of the text t stand up to the end of part k.
PlacedAt(T, t, off) ==
  /\ off \in [0..Len(T) -> Nat] /\ off[0] = 0 /\ off[Len(T)] = Len(t)
  /\ \A k \in 1..Len(T) :
       /\ off[k] = off[k - 1] + Len(T[k])
       /\ \A j \in 1..Len(T[k]) : t[off[k - 1] + j] = T[k][j]
  /\ \A k, l \in 0..Len(T) : k =< l => off[k] =< off[l]

LEMMA EmptyFlat == FlattenSeq(<< >>) = << >>
<1>1. Len(<< >>) = 0
  OBVIOUS
<1>2. QED
  BY <1>1 DEF FlattenSeq

Grows(g, T, n) == g[1] = T[1] /\ \A i \in 1..n : i # 1 => g[i] = g[i - 1] \o T[i]

BeginsWith(t, u) == Len(u) =< Len(t) /\ \A j \in 1..Len(u) : t[j] = u[j]

LEMMA PiecewiseFlat ==
  ASSUME NEW S, NEW T \in Seq(Seq(S)), T # << >>
  PROVE  \E g \in [1..Len(T) -> Seq(S)] : Grows(g, T, Len(T)) /\ FlattenSeq(T) = g[Len(T)]
<1>1. Len(T) # 0
  BY EmptySeq
<1>2. FlattenSeq(T) = Flattened(T)
  BY <1>1 DEF FlattenSeq, Flattened, IsFlatten
<1>3. QED
  <2>1. PICK g \in [1..Len(T) -> Seq(S)] :
          /\ g[1] = T[1] /\ \A i \in 1..Len(T) : i # 1 => g[i] = g[i - 1] \o T[i]
          /\ Flattened(T) = g[Len(T)]
    BY FlattenedSteps, Zenon
  <2>2. Grows(g, T, Len(T))
    BY <2>1, Zenon DEF Grows
  <2>3. QED
    BY <1>2, <2>1, <2>2, Zenon

LEMMA GrowingPrefixes ==
  ASSUME NEW S, NEW n \in Nat \ {0}, NEW T \in [1..n -> Seq(S)], NEW g \in [1..n -> Seq(S)],
         Grows(g, T, n)
  PROVE  \A k, m \in 1..n : k =< m => BeginsWith(g[m], g[k])
<1> TAKE k \in 1..n
<1> DEFINE bad == {m \in 1..n : k =< m /\ ~BeginsWith(g[m], g[k])}
<1> SUFFICES ASSUME bad # {} PROVE FALSE
  OBVIOUS
<1>1. PICK m \in bad : \A x \in bad : m =< x
  <2>1. bad \subseteq Nat
    OBVIOUS
  <2> HIDE DEF bad
  <2>2. QED
    BY <2>1, MinExists
<1>2. \A i \in 1..n : Len(g[i]) \in Nat
  BY LenProperties
<1>3. m # k
  BY <1>1, <1>2 DEF BeginsWith
<1>4. k =< m - 1 /\ m - 1 \in 1..n /\ m \in 1..n /\ m # 1 /\ ~(m =< m - 1)
  BY <1>1, <1>3
<1>5. BeginsWith(g[m - 1], g[k])
  BY <1>1, <1>4
<1>6. g[m] = g[m - 1] \o T[m] /\ g[m - 1] \in Seq(S) /\ T[m] \in Seq(S)
  BY <1>4 DEF Grows
<1>7. /\ Len(g[m]) = Len(g[m - 1]) + Len(T[m]) /\ Len(T[m]) \in Nat
      /\ \A j \in 1..(Len(g[m - 1]) + Len(T[m])) : j =< Len(g[m - 1]) => g[m][j] = g[m - 1][j]
  BY <1>6, ConcatProperties, LenProperties
<1>8. BeginsWith(g[m], g[k])
  <2>1. Len(g[k]) \in Nat /\ Len(g[m - 1]) \in Nat
    BY <1>2, <1>4
  <2>2. Len(g[k]) =< Len(g[m - 1]) /\ \A j \in 1..Len(g[k]) : g[m - 1][j] = g[k][j]
    BY <1>5 DEF BeginsWith
  <2>3. ASSUME NEW j \in 1..Len(g[k])
        PROVE  g[m][j] = g[k][j]
    <3>0. PICK a \in Nat, b \in Nat, c \in Nat :
            a = Len(g[k]) /\ b = Len(g[m - 1]) /\ c = Len(T[m]) /\ a =< b
      BY <1>7, <2>1, <2>2
    <3>1. j \in 1..(Len(g[m - 1]) + Len(T[m])) /\ j =< Len(g[m - 1])
      <4>1. j \in 1..a
        BY <3>0
      <4>2. a =< b
        BY <3>0
      <4>3. j \in 1..(b + c) /\ j =< b
        BY <4>1, <4>2
      <4>4. QED
        BY <3>0, <4>3
    <3>2. QED
      BY <1>7, <2>2, <3>1, Zenon
  <2>4. QED
    BY <1>7, <2>1, <2>2, <2>3 DEF BeginsWith
<1>9. QED
  BY <1>1, <1>8

LEMMA Places ==
  ASSUME NEW S, NEW T \in Seq(Seq(S))
  PROVE  FlattenSeq(T) \in Seq(S) /\ \E off : PlacedAt(T, FlattenSeq(T), off)
<1> DEFINE n == Len(T)
           t == FlattenSeq(T)
<1>1. n \in Nat /\ T \in [1..n -> Seq(S)]
  BY LenProperties
<1>2. CASE T = << >>
  <2>0. t = << >> /\ n = 0
    BY <1>2, EmptyFlat, EmptySeq
  <2>1. t = << >> /\ n = 0 /\ t \in Seq(S) /\ Len(t) = 0
    BY <2>0, EmptySeq
  <2>2. PlacedAt(T, t, [k \in 0..n |-> 0])
    BY <2>1 DEF PlacedAt
  <2>3. QED
    BY <2>1, <2>2
<1>3. CASE T # << >>
  <2>1. n \in Nat \ {0}
    BY <1>3, EmptySeq
  <2>2. PICK g \in [1..n -> Seq(S)] :
          Grows(g, T, n) /\ t = g[n]
    BY <1>3, PiecewiseFlat
  <2> HIDE DEF t
  <2> DEFINE off == [k \in 0..n |-> IF k = 0 THEN 0 ELSE Len(g[k])]
  <2>3. \A k \in 1..n : Len(g[k]) \in Nat /\ Len(T[k]) \in Nat
    BY <1>1, LenProperties
  <2>4. off \in [0..n -> Nat] /\ off[0] = 0 /\ off[n] = Len(t) /\ \A k \in 1..n : off[k] = Len(g[k])
    BY <2>1, <2>2, <2>3
  <2>5. \A k, m \in 1..n : k =< m => BeginsWith(g[m], g[k])
    BY <1>1, <2>1, <2>2, GrowingPrefixes
  <2> HIDE DEF off
  <2>6. ASSUME NEW k \in 1..n
        PROVE  off[k] = off[k - 1] + Len(T[k]) /\ \A j \in 1..Len(T[k]) : t[off[k - 1] + j] = T[k][j]
    <3>0. n \in 1..n /\ k =< n
      BY <2>1
    <3>1. \A j \in 1..Len(g[k]) : t[j] = g[k][j]
      BY <2>2, <2>5, <3>0 DEF BeginsWith
    <3>2. CASE k = 1
      <4>1. k - 1 = 0 /\ off[k - 1] = 0 /\ off[k] = Len(T[k]) /\ Len(T[k]) \in Nat /\ g[k] = T[k]
        BY <2>1, <2>2, <2>3, <2>4, <3>2 DEF Grows
      <4>2. \A j \in 1..Len(T[k]) : off[k - 1] + j = j /\ t[j] = T[k][j]
        BY <3>1, <4>1
      <4>3. QED
        BY <4>1, <4>2
    <3>3. CASE k # 1
      <4>0. k - 1 \in 1..n /\ g[k] = g[k - 1] \o T[k]
        <5>1. k - 1 \in 1..n
          BY <2>1, <3>3
        <5>2. QED
          BY <2>2, <3>3, <5>1 DEF Grows
      <4>1. k - 1 \in 1..n /\ g[k] = g[k - 1] \o T[k] /\ g[k - 1] \in Seq(S) /\ T[k] \in Seq(S)
        BY <1>1, <4>0
      <4>2. /\ Len(g[k]) = Len(g[k - 1]) + Len(T[k])
            /\ \A j \in 1..(Len(g[k - 1]) + Len(T[k])) :
                 g[k][j] = IF j =< Len(g[k - 1]) THEN g[k - 1][j] ELSE T[k][j - Len(g[k - 1])]
        <5>1. PICK a \in Seq(S), b \in Seq(S) : a = g[k - 1] /\ b = T[k]
          BY <4>1
        <5>2. /\ Len(a \o b) = Len(a) + Len(b)
              /\ \A j \in 1..(Len(a) + Len(b)) :
                   (a \o b)[j] = IF j =< Len(a) THEN a[j] ELSE b[j - Len(a)]
          BY ConcatProperties, Zenon
        <5>3. PICK c : c = g[k]
          OBVIOUS
        <5>4. c = a \o b
          BY <4>1, <5>1, <5>3
        <5>5. /\ Len(c) = Len(a) + Len(b)
              /\ \A j \in 1..(Len(a) + Len(b)) : c[j] = IF j =< Len(a) THEN a[j] ELSE b[j - Len(a)]
          BY <5>2, <5>4, Zenon
        <5>6. QED
          BY <5>1, <5>3, <5>5, Zenon
      <4>3. off[k] = Len(g[k]) /\ off[k - 1] = Len(g[k - 1])
        BY <2>4, <4>1
      <4>4. ASSUME NEW j \in 1..Len(T[k])
            PROVE  t[Len(g[k - 1]) + j] = T[k][j]
        <5>1. Len(g[k - 1]) + j \in 1..Len(g[k]) /\ ~(Len(g[k - 1]) + j =< Len(g[k - 1]))
              /\ (Len(g[k - 1]) + j) - Len(g[k - 1]) = j
          BY <2>3, <4>1, <4>2
        <5>2. QED
          BY <3>1, <4>2, <5>1
      <4>5. QED
        BY <4>2, <4>3, <4>4
    <3>4. QED
      BY <3>2, <3>3
  <2>7. ASSUME NEW k \in 0..n, NEW l \in 0..n, k =< l
        PROVE  off[k] =< off[l]
    <3>1. CASE k = 0
      BY <2>4, <3>1
    <3>2. CASE k # 0
      <4>1. k \in 1..n /\ l \in 1..n /\ k =< l
        BY <2>1, <2>7, <3>2
      <4>2. QED
        BY <2>4, <2>5, <4>1 DEF BeginsWith
    <3>3. QED
      BY <3>1, <3>2
  <2>8. PlacedAt(T, t, off)
    BY <2>4, <2>6, <2>7 DEF PlacedAt
  <2>9. t \in Seq(S)
    <3>1. n \in 1..n
      BY <2>1
    <3>2. QED
      BY <2>2, <3>1
  <2>10. QED
    BY <2>8, <2>9 DEF t
<1>4. QED
  BY <1>2, <1>3

\* The characters up to the end of the first k parts.
Off(T) == CHOOSE off : PlacedAt(T, FlattenSeq(T), off)

LEMMA OffPlaces ==
  ASSUME NEW S, NEW T \in Seq(Seq(S))
  PROVE  FlattenSeq(T) \in Seq(S) /\ PlacedAt(T, FlattenSeq(T), Off(T))
BY Places DEF Off

-----------------------------------------------------------------------------
(* Fields as they are written, and where in them the characters they stand   *)
(* for are.                                                                  *)

LEMMA SingleSeq == ASSUME NEW S, NEW c \in S
                   PROVE  <<c>> \in Seq(S) /\ Len(<<c>>) = 1 /\ <<c>>[1] = c
OBVIOUS

LEMMA PairSeq == ASSUME NEW S, NEW c \in S, NEW d \in S
                 PROVE  <<c, d>> \in Seq(S) /\ Len(<<c, d>>) = 2 /\ <<c, d>>[1] = c /\ <<c, d>>[2] = d
OBVIOUS

LEMMA MarksAreCharacters == {Separator, Quote, NewLine, Comment, Opening, Closing} \subseteq Characters
BY InputAssumption

LEMMA DoubledIs ==
  ASSUME NEW text \in Seq(Characters)
  PROVE  /\ Doubled(text) \in Seq(Seq(Characters)) /\ Len(Doubled(text)) = Len(text)
         /\ \A j \in 1..Len(text) :
              IF text[j] = Quote
              THEN /\ Len(Doubled(text)[j]) = 2
                   /\ Doubled(text)[j][1] = Quote /\ Doubled(text)[j][2] = Quote
              ELSE Len(Doubled(text)[j]) = 1 /\ Doubled(text)[j][1] = text[j]
<1> DEFINE n == Len(text)
           c(j) == IF text[j] = Quote THEN <<Quote, Quote>> ELSE <<text[j]>>
           d == [j \in 1..n |-> c(j)]
<1>1. n \in Nat /\ DOMAIN text = 1..n /\ \A j \in 1..n : text[j] \in Characters
  BY LenProperties, ElementOfSeq
<1>2. Quote \in Characters
  BY MarksAreCharacters
<1>3. Doubled(text) = d
  BY <1>1 DEF Doubled
<1>4. ASSUME NEW j \in 1..n
      PROVE  /\ c(j) \in Seq(Characters)
             /\ IF text[j] = Quote THEN Len(c(j)) = 2 /\ c(j)[1] = Quote /\ c(j)[2] = Quote
                ELSE Len(c(j)) = 1 /\ c(j)[1] = text[j]
  <2>1. CASE text[j] = Quote
    <3>1. c(j) = <<Quote, Quote>>
      BY <2>1
    <3>2. QED
      BY <1>2, <2>1, <3>1, PairSeq
  <2>2. CASE text[j] # Quote
    <3>1. c(j) = <<text[j]>>
      BY <2>2
    <3>2. PICK x \in Characters : x = text[j]
      BY <1>1
    <3>3. QED
      BY <2>2, <3>1, <3>2, SingleSeq
  <2>3. QED
    BY <2>1, <2>2
<1>5. d \in Seq(Seq(Characters)) /\ Len(d) = n /\ \A j \in 1..n : d[j] = c(j)
  BY <1>1, <1>4
<1> HIDE DEF c, d
<1>6. QED
  BY <1>3, <1>4, <1>5

LEMMA ConcatAt ==
  ASSUME NEW S, NEW a \in Seq(S), NEW b \in Seq(S)
  PROVE  /\ a \o b \in Seq(S) /\ Len(a \o b) = Len(a) + Len(b)
         /\ \A j \in 1..Len(a) : (a \o b)[j] = a[j]
         /\ \A j \in 1..Len(b) : (a \o b)[Len(a) + j] = b[j]
<1>1. /\ a \o b \in Seq(S) /\ Len(a \o b) = Len(a) + Len(b)
      /\ \A i \in 1..(Len(a) + Len(b)) : (a \o b)[i] = IF i =< Len(a) THEN a[i] ELSE b[i - Len(a)]
  BY ConcatProperties, Zenon
<1>2. PICK m \in Nat, n \in Nat : m = Len(a) /\ n = Len(b)
  BY LenProperties
<1>3. ASSUME NEW j \in 1..m PROVE (a \o b)[j] = a[j]
  <2>1. j \in 1..(m + n) /\ j =< m
    OBVIOUS
  <2>2. QED
    BY <1>1, <1>2, <2>1, Zenon
<1>4. ASSUME NEW j \in 1..n PROVE (a \o b)[m + j] = b[j]
  <2>1. m + j \in 1..(m + n) /\ ~(m + j =< m) /\ (m + j) - m = j
    OBVIOUS
  <2>2. (a \o b)[m + j] = b[(m + j) - m]
    BY <1>1, <1>2, <2>1, Zenon
  <2>3. QED
    BY <2>1, <2>2
<1>5. QED
  BY <1>1, <1>2, <1>3, <1>4

\* The characters written up to the end of the first j of a text in quotes.
CharsTo(text, j) == Off(Doubled(text))[j]

LEMMA Escaped ==
  ASSUME NEW text \in Seq(Characters)
  PROVE  LET n == Len(text)
             e == EscapeString(text)
             o(j) == CharsTo(text, j)
         IN  /\ e \in Seq(Characters) /\ Len(e) = o(n) + 2 /\ e[1] = Quote /\ e[o(n) + 2] = Quote
             /\ o(0) = 0 /\ \A j \in 0..n : o(j) \in Nat /\ o(j) =< o(n)
             /\ \A j \in 1..n : IF text[j] = Quote
                               THEN /\ o(j) = o(j - 1) + 2
                                    /\ e[o(j - 1) + 2] = Quote /\ e[o(j - 1) + 3] = Quote
                               ELSE o(j) = o(j - 1) + 1 /\ e[o(j - 1) + 2] = text[j]
<1> DEFINE n == Len(text)
           e == EscapeString(text)
           o(j) == CharsTo(text, j)
           D == Doubled(text)
           t == FlattenSeq(D)
           q == <<Quote>>
<1>0. n \in Nat
  BY LenProperties
<1>1. /\ D \in Seq(Seq(Characters)) /\ Len(D) = n
      /\ \A j \in 1..n : IF text[j] = Quote THEN Len(D[j]) = 2 /\ D[j][1] = Quote /\ D[j][2] = Quote
                         ELSE Len(D[j]) = 1 /\ D[j][1] = text[j]
  BY DoubledIs
<1>2. t \in Seq(Characters) /\ PlacedAt(D, t, Off(D))
  BY <1>1, OffPlaces
<1>3. /\ Off(D) \in [0..n -> Nat] /\ o(0) = 0 /\ o(n) = Len(t)
      /\ \A k \in 1..n : /\ o(k) = o(k - 1) + Len(D[k])
                         /\ \A j \in 1..Len(D[k]) : t[o(k - 1) + j] = D[k][j]
      /\ \A k, l \in 0..n : k =< l => o(k) =< o(l)
  BY <1>1, <1>2 DEF PlacedAt, CharsTo
<1>4. \A j \in 0..n : o(j) \in Nat
  BY <1>3 DEF CharsTo
<1>5. q \in Seq(Characters) /\ Len(q) = 1 /\ q[1] = Quote
  BY MarksAreCharacters, SingleSeq
<1>6. e = (q \o t) \o q
  BY DEF EscapeString
<1> HIDE DEF D, e, t, q, n, o
<1>7. /\ q \o t \in Seq(Characters) /\ Len(q \o t) = 1 + Len(t)
      /\ \A j \in 1..1 : (q \o t)[j] = q[j] /\ \A i \in 1..Len(t) : (q \o t)[1 + i] = t[i]
  <2>1. /\ q \o t \in Seq(Characters) /\ Len(q \o t) = Len(q) + Len(t)
        /\ \A j \in 1..Len(q) : (q \o t)[j] = q[j]
        /\ \A i \in 1..Len(t) : (q \o t)[Len(q) + i] = t[i]
    <3>1. PICK a \in Seq(Characters), b \in Seq(Characters) : a = q /\ b = t
      BY <1>2, <1>5
    <3>2. /\ a \o b \in Seq(Characters) /\ Len(a \o b) = Len(a) + Len(b)
          /\ \A j \in 1..Len(a) : (a \o b)[j] = a[j]
          /\ \A i \in 1..Len(b) : (a \o b)[Len(a) + i] = b[i]
      BY ConcatAt
    <3>3. QED
      BY <3>1, <3>2, Zenon
  <2>2. QED
    BY <1>5, <2>1, Zenon
<1>8. /\ e \in Seq(Characters) /\ Len(e) = Len(q \o t) + 1
      /\ \A j \in 1..Len(q \o t) : e[j] = (q \o t)[j]
      /\ \A j \in 1..1 : e[Len(q \o t) + j] = q[j]
  BY <1>5, <1>6, <1>7, ConcatAt
<1>9. Len(t) \in Nat /\ Len(t) = o(n)
  BY <1>0, <1>3, <1>4
<1>10. /\ Len(e) = o(n) + 2 /\ e[1] = Quote /\ e[o(n) + 2] = Quote
       /\ \A j \in 1..o(n) : e[j + 1] = t[j]
  <2>1. e[1] = Quote
    BY <1>5, <1>7, <1>8, <1>9
  <2>2. Len(q \o t) + 1 = o(n) + 2 /\ 1 \in 1..1
    BY <1>7, <1>9
  <2>3. e[o(n) + 2] = Quote
    BY <1>5, <1>8, <2>2
  <2>4. ASSUME NEW j \in 1..o(n) PROVE e[j + 1] = t[j]
    <3>1. j + 1 \in 1..Len(q \o t) /\ 1 + j = j + 1 /\ j \in 1..Len(t)
      BY <1>7, <1>9
    <3>2. (q \o t)[1 + j] = t[j]
      BY <1>7, <3>1
    <3>3. QED
      BY <1>8, <3>1, <3>2
  <2>5. QED
    BY <1>8, <2>1, <2>2, <2>3, <2>4
<1>11. \A j \in 0..n : o(j) \in Nat /\ o(j) =< o(n)
  BY <1>0, <1>3, <1>4
<1>12. ASSUME NEW j \in 1..n
       PROVE  IF text[j] = Quote
              THEN o(j) = o(j - 1) + 2 /\ e[o(j - 1) + 2] = Quote /\ e[o(j - 1) + 3] = Quote
              ELSE o(j) = o(j - 1) + 1 /\ e[o(j - 1) + 2] = text[j]
  <2>1. /\ j - 1 \in 0..n /\ j \in 0..n /\ o(j - 1) \in Nat /\ o(j) \in Nat /\ o(n) \in Nat
        /\ o(j) =< o(n) /\ o(j) = o(j - 1) + Len(D[j])
    BY <1>0, <1>3, <1>11
  <2>2. ASSUME NEW i \in 1..Len(D[j]), Len(D[j]) \in Nat
        PROVE  e[o(j - 1) + i + 1] = D[j][i]
    <3>1. o(j - 1) + i \in 1..o(n)
      BY <2>1, <2>2
    <3>2. t[o(j - 1) + i] = D[j][i]
      BY <1>3
    <3>3. QED
      BY <1>10, <3>1, <3>2
  <2>3. CASE text[j] = Quote
    <3>1. Len(D[j]) = 2 /\ D[j][1] = Quote /\ D[j][2] = Quote
      BY <1>1, <2>3
    <3>2. 1 \in 1..Len(D[j]) /\ 2 \in 1..Len(D[j]) /\ Len(D[j]) \in Nat
      BY <3>1
    <3>3. o(j - 1) + 1 + 1 = o(j - 1) + 2 /\ o(j - 1) + 2 + 1 = o(j - 1) + 3
      BY <2>1
    <3>4. QED
      BY <2>1, <2>2, <2>3, <3>1, <3>2, <3>3
  <2>4. CASE text[j] # Quote
    <3>1. Len(D[j]) = 1 /\ D[j][1] = text[j]
      BY <1>1, <2>4
    <3>2. 1 \in 1..Len(D[j]) /\ Len(D[j]) \in Nat
      BY <3>1
    <3>3. o(j - 1) + 1 + 1 = o(j - 1) + 2
      BY <2>1
    <3>4. QED
      BY <2>1, <2>2, <2>4, <3>1, <3>2, <3>3
  <2>5. QED
    BY <2>3, <2>4
<1>13. QED
  BY <1>3, <1>8, <1>10, <1>11, <1>12 DEF n, e, o

LEMMA FieldIs ==
  ASSUME NEW f \in Fields
  PROVE  /\ f.quoted \in BOOLEAN /\ f.text \in Seq(Characters) /\ FieldText(f) \in Seq(Characters)
         /\ Len(f.text) \in Nat /\ DOMAIN f.text = 1..Len(f.text)
<1>1. f.quoted \in BOOLEAN /\ f.text \in Seq(Characters)
  BY DEF Fields
<1>2. EscapeString(f.text) \in Seq(Characters)
  BY <1>1, Escaped
<1>3. QED
  BY <1>1, <1>2, LenProperties DEF FieldText

LEMMA FieldsAre ==
  ASSUME NEW fields \in Seq(Fields)
  PROVE  /\ Len(fields) \in Nat /\ DOMAIN fields = 1..Len(fields)
         /\ \A k \in 1..Len(fields) : fields[k] \in Fields
BY LenProperties, ElementOfSeq

LEMMA ClosedIs ==
  ASSUME NEW fields \in Seq(Fields)
  PROVE  /\ Closed(fields) \in Seq(Seq(Characters)) /\ Len(Closed(fields)) = Len(fields)
         /\ \A k \in 1..Len(fields) :
              /\ Len(FieldText(fields[k])) \in Nat
              /\ Len(Closed(fields)[k]) = Len(FieldText(fields[k])) + 1
              /\ \A j \in 1..Len(FieldText(fields[k])) : Closed(fields)[k][j] = FieldText(fields[k])[j]
              /\ Closed(fields)[k][Len(FieldText(fields[k])) + 1] = Separator
<1> DEFINE n == Len(fields)
           c(k) == Append(FieldText(fields[k]), Separator)
           C == [k \in 1..n |-> c(k)]
<1>1. n \in Nat /\ DOMAIN fields = 1..n /\ \A k \in 1..n : fields[k] \in Fields
  BY FieldsAre
<1>2. Closed(fields) = C
  BY <1>1 DEF Closed
<1>3. ASSUME NEW k \in 1..n
      PROVE  /\ c(k) \in Seq(Characters) /\ Len(FieldText(fields[k])) \in Nat
             /\ Len(c(k)) = Len(FieldText(fields[k])) + 1
             /\ \A j \in 1..Len(FieldText(fields[k])) : c(k)[j] = FieldText(fields[k])[j]
             /\ c(k)[Len(FieldText(fields[k])) + 1] = Separator
  <2>1. PICK f \in Seq(Characters) : f = FieldText(fields[k])
    BY <1>1, FieldIs
  <2>2. Separator \in Characters
    BY MarksAreCharacters
  <2>3. Len(f) \in Nat
    BY LenProperties
  <2>4. /\ Append(f, Separator) \in Seq(Characters) /\ Len(Append(f, Separator)) = Len(f) + 1
        /\ \A j \in 1..Len(f) : Append(f, Separator)[j] = f[j]
        /\ Append(f, Separator)[Len(f) + 1] = Separator
    BY <2>2, AppendProperties
  <2>5. QED
    BY <2>1, <2>3, <2>4
<1>4. C \in Seq(Seq(Characters)) /\ Len(C) = n /\ \A k \in 1..n : C[k] = c(k)
  BY <1>1, <1>3
<1> HIDE DEF c, C
<1>5. QED
  BY <1>2, <1>3, <1>4

\* The characters in front of a field.
Start(fields, k) == Off(Closed(fields))[k - 1]

LEMMA Starts ==
  ASSUME NEW fields \in Seq(Fields)
  PROVE  /\ Start(fields, 1) = 0
         /\ \A k \in 1..(Len(fields) + 1) : Start(fields, k) \in Nat
         /\ \A k \in 1..Len(fields) :
              Start(fields, k + 1) = Start(fields, k) + Len(FieldText(fields[k])) + 1
         /\ \A k, l \in 1..(Len(fields) + 1) : k =< l => Start(fields, k) =< Start(fields, l)
<1> DEFINE n == Len(fields)
           C == Closed(fields)
<1>1. /\ n \in Nat /\ C \in Seq(Seq(Characters)) /\ Len(C) = n
      /\ \A k \in 1..n : /\ Len(FieldText(fields[k])) \in Nat
                         /\ Len(C[k]) = Len(FieldText(fields[k])) + 1
  BY ClosedIs, FieldsAre
<1> HIDE DEF C
<1>2. PlacedAt(C, FlattenSeq(C), Off(C))
  BY <1>1, OffPlaces
<1>3. /\ Off(C) \in [0..n -> Nat] /\ Off(C)[0] = 0
      /\ \A k \in 1..n : Off(C)[k] = Off(C)[k - 1] + Len(C[k])
      /\ \A k, l \in 0..n : k =< l => Off(C)[k] =< Off(C)[l]
  BY <1>1, <1>2 DEF PlacedAt
<1>4. \A k \in 1..(n + 1) : k - 1 \in 0..n
  BY <1>1
<1>5. Off(C)[1 - 1] = 0 /\ \A k \in 1..(n + 1) : Off(C)[k - 1] \in Nat
  <2>1. 1 - 1 = 0
    OBVIOUS
  <2>2. \A k \in 0..n : Off(C)[k] \in Nat
    BY <1>3, Zenon
  <2>3. \A k \in 1..(n + 1) : Off(C)[k - 1] \in Nat
    BY <1>4, <2>2, Zenon
  <2>4. QED
    BY <1>3, <2>1, <2>3, Zenon
<1>6. ASSUME NEW k \in 1..n
      PROVE  Off(C)[(k + 1) - 1] = Off(C)[k - 1] + Len(FieldText(fields[k])) + 1
  <2>1. (k + 1) - 1 = k /\ k - 1 \in 0..n
    BY <1>1
  <2>2. Off(C)[k - 1] \in Nat
    BY <1>3, <2>1
  <2>3. Off(C)[k] = Off(C)[k - 1] + (Len(FieldText(fields[k])) + 1)
    BY <1>1, <1>3
  <2>4. Len(FieldText(fields[k])) \in Nat
    BY <1>1
  <2>5. QED
    BY <2>1, <2>2, <2>3, <2>4
<1>7. \A k, l \in 1..(n + 1) : k =< l => Off(C)[k - 1] =< Off(C)[l - 1]
  <2> SUFFICES ASSUME NEW k \in 1..(n + 1), NEW l \in 1..(n + 1), k =< l
               PROVE  Off(C)[k - 1] =< Off(C)[l - 1]
    OBVIOUS
  <2>1. k - 1 \in 0..n /\ l - 1 \in 0..n /\ k - 1 =< l - 1
    BY <1>1
  <2>2. QED
    BY <1>3, <2>1
<1>8. QED
  BY <1>5, <1>6, <1>7 DEF Start, C

\* The fields stand in tx behind the first R characters, each with a separator
\* behind it; behind the last one if the row is closed.
LaidOut(tx, R, fields, closed) ==
  \A k \in 1..Len(fields) :
    /\ \A j \in 1..Len(FieldText(fields[k])) : tx[R + Start(fields, k) + j] = FieldText(fields[k])[j]
    /\ k < Len(fields) \/ closed => tx[R + Start(fields, k + 1)] = Separator

\* The place behind the first j characters of a field.
At(fields, k, j) ==
  Start(fields, k) + IF fields[k].quoted THEN CharsTo(fields[k].text, j) + 1 ELSE j

\* In quotes: the quote, the characters, and the quote that ends the field.
QuotedLaid(tx, R, fields, k, closed) ==
  LET text == fields[k].text
      n == Len(text)
      a(j) == At(fields, k, j)
  IN  /\ tx[R + Start(fields, k) + 1] = Quote /\ a(0) = Start(fields, k) + 1
      /\ \A j \in 0..n : a(j) \in Nat /\ a(j) + 2 =< Start(fields, k + 1)
      /\ \A j \in 0..(n - 1) :
           IF text[j + 1] = Quote
           THEN a(j + 1) = a(j) + 2 /\ tx[R + a(j) + 1] = Quote /\ tx[R + a(j) + 2] = Quote
           ELSE a(j + 1) = a(j) + 1 /\ tx[R + a(j) + 1] = text[j + 1]
      /\ a(n) + 2 = Start(fields, k + 1) /\ tx[R + a(n) + 1] = Quote
      /\ k < Len(fields) \/ closed => tx[R + a(n) + 2] = Separator

LEMMA QuotedPlaces ==
  ASSUME NEW fields \in Seq(Fields), NEW k \in 1..Len(fields), fields[k].quoted,
         NEW tx, NEW R \in Nat, NEW closed \in BOOLEAN, LaidOut(tx, R, fields, closed)
  PROVE  QuotedLaid(tx, R, fields, k, closed)
<1> DEFINE text == fields[k].text
           n == Len(text)
           e == EscapeString(text)
           o(j) == CharsTo(text, j)
           a(j) == At(fields, k, j)
           S == Start(fields, k)
<1>1. fields[k] \in Fields /\ text \in Seq(Characters) /\ n \in Nat /\ FieldText(fields[k]) = e
  BY FieldsAre, FieldIs DEF FieldText
<1>2. /\ Len(e) = o(n) + 2 /\ e[1] = Quote /\ e[o(n) + 2] = Quote
      /\ o(0) = 0 /\ \A j \in 0..n : o(j) \in Nat /\ o(j) =< o(n)
      /\ \A j \in 1..n : IF text[j] = Quote
                        THEN o(j) = o(j - 1) + 2 /\ e[o(j - 1) + 2] = Quote /\ e[o(j - 1) + 3] = Quote
                        ELSE o(j) = o(j - 1) + 1 /\ e[o(j - 1) + 2] = text[j]
  <2> HIDE DEF text
  <2>1. text \in Seq(Characters)
    BY <1>1
  <2>2. QED
    BY <2>1, Escaped
<1>3. /\ k \in 1..(Len(fields) + 1) /\ k + 1 \in 1..(Len(fields) + 1)
      /\ S \in Nat /\ Start(fields, k + 1) = S + Len(e) + 1
  <2>1. Len(fields) \in Nat
    BY FieldsAre
  <2>2. k \in 1..(Len(fields) + 1) /\ k + 1 \in 1..(Len(fields) + 1)
    BY <2>1
  <2>3. S \in Nat /\ Start(fields, k + 1) = S + Len(FieldText(fields[k])) + 1
    BY <2>2, Starts
  <2>4. QED
    BY <1>1, <2>2, <2>3
<1>4. /\ \A j \in 1..Len(e) : tx[R + S + j] = e[j]
      /\ k < Len(fields) \/ closed => tx[R + Start(fields, k + 1)] = Separator
  BY <1>1 DEF LaidOut
<1>5. \A j : a(j) = S + (o(j) + 1)
  BY DEF At
<1> HIDE DEF e, o, a, S, text, n
<1>6. 0 \in 0..n /\ n \in 0..n /\ o(n) \in Nat
  BY <1>1, <1>2
<1>7. tx[R + S + 1] = Quote /\ a(0) = S + 1
  <2>1. a(0) = S + (o(0) + 1) /\ o(0) = 0
    BY <1>2, <1>5
  <2>2. Len(e) = o(n) + 2
    BY <1>2
  <2>3. 1 \in 1..Len(e)
    BY <1>6, <2>2
  <2>4. tx[R + S + 1] = e[1]
    BY <1>4, <2>3
  <2>5. QED
    BY <1>2, <1>3, <2>1, <2>4
<1>8. ASSUME NEW j \in 0..n PROVE a(j) \in Nat /\ a(j) + 2 =< Start(fields, k + 1)
  <2>1. o(j) \in Nat /\ o(j) =< o(n)
    BY <1>2
  <2>2. a(j) = S + (o(j) + 1) /\ Start(fields, k + 1) = S + (o(n) + 2) + 1
    BY <1>2, <1>3, <1>5
  <2>3. PICK x \in Nat, y \in Nat, z \in Nat : x = o(j) /\ y = o(n) /\ z = S /\ x =< y
    BY <1>3, <1>6, <2>1
  <2>4. z + (x + 1) \in Nat /\ z + (x + 1) + 2 =< z + (y + 2) + 1
    <3>1. x =< y
      BY <2>3
    <3>2. QED
      BY <3>1
  <2>5. QED
    BY <2>2, <2>3, <2>4
<1>9. ASSUME NEW j \in 0..(n - 1)
      PROVE  IF text[j + 1] = Quote
             THEN a(j + 1) = a(j) + 2 /\ tx[R + a(j) + 1] = Quote /\ tx[R + a(j) + 2] = Quote
             ELSE a(j + 1) = a(j) + 1 /\ tx[R + a(j) + 1] = text[j + 1]
  <2>1. j \in 0..n /\ j + 1 \in 0..n /\ j + 1 \in 1..n /\ (j + 1) - 1 = j
    BY <1>1
  <2>2. o(j) \in Nat /\ o(j + 1) \in Nat /\ o(j + 1) =< o(n)
    BY <1>2, <2>1
  <2>3. IF text[j + 1] = Quote
        THEN o(j + 1) = o(j) + 2 /\ e[o(j) + 2] = Quote /\ e[o(j) + 3] = Quote
        ELSE o(j + 1) = o(j) + 1 /\ e[o(j) + 2] = text[j + 1]
    BY <1>2, <2>1
  <2>4. a(j) = S + (o(j) + 1) /\ a(j + 1) = S + (o(j + 1) + 1)
    BY <1>5
  <2>5. R + a(j) + 1 = R + S + (o(j) + 2) /\ R + a(j) + 2 = R + S + (o(j) + 3)
    <3>1. S \in Nat
      BY <1>3
    <3>2. PICK x \in Nat, z \in Nat : x = o(j) /\ z = S
      BY <2>2, <3>1
    <3>3. R + (z + (x + 1)) + 1 = R + z + (x + 2) /\ R + (z + (x + 1)) + 2 = R + z + (x + 3)
      OBVIOUS
    <3>4. QED
      BY <2>4, <3>2, <3>3
  <2>6. o(j) + 2 \in 1..Len(e) /\ (text[j + 1] = Quote => o(j) + 3 \in 1..Len(e))
    <3>1. Len(e) = o(n) + 2
      BY <1>2
    <3>2. PICK x \in Nat, y \in Nat, z \in Nat : x = o(j) /\ y = o(j + 1) /\ z = o(n)
      BY <1>6, <2>2
    <3>3. y =< z /\ (IF text[j + 1] = Quote THEN y = x + 2 ELSE y = x + 1)
      BY <2>2, <2>3, <3>2
    <3>4. x + 2 \in 1..(z + 2) /\ (text[j + 1] = Quote => x + 3 \in 1..(z + 2))
      BY <3>3
    <3>5. QED
      BY <3>1, <3>2, <3>4
  <2>8. tx[R + S + (o(j) + 2)] = e[o(j) + 2]
    BY <1>4, <2>6
  <2>9. text[j + 1] = Quote => tx[R + S + (o(j) + 3)] = e[o(j) + 3]
    BY <1>4, <2>6
  <2>10. CASE text[j + 1] = Quote
    <3>1. a(j + 1) = a(j) + 2
      <4>1. PICK x \in Nat, z \in Nat : x = o(j) /\ z = S
        BY <1>3, <2>2
      <4>2. z + ((x + 2) + 1) = (z + (x + 1)) + 2
        OBVIOUS
      <4>3. QED
        BY <2>3, <2>4, <2>10, <4>1, <4>2
    <3>2. QED
      BY <2>3, <2>5, <2>8, <2>9, <2>10, <3>1
  <2>11. CASE text[j + 1] # Quote
    <3>1. a(j + 1) = a(j) + 1
      BY <1>3, <2>2, <2>3, <2>4, <2>11
    <3>2. QED
      BY <2>3, <2>5, <2>8, <2>11, <3>1
  <2>12. QED
    BY <2>10, <2>11
<1>10. a(n) + 2 = Start(fields, k + 1) /\ tx[R + a(n) + 1] = Quote
  <2>1. a(n) = S + (o(n) + 1)
    BY <1>5
  <2>2. Len(e) = o(n) + 2
    BY <1>2
  <2>3. R + a(n) + 1 = R + S + (o(n) + 2) /\ o(n) + 2 \in 1..Len(e)
        /\ a(n) + 2 = S + Len(e) + 1
    <3>1. PICK y \in Nat, z \in Nat : y = o(n) /\ z = S
      BY <1>3, <1>6
    <3>2. /\ R + (z + (y + 1)) + 1 = R + z + (y + 2) /\ y + 2 \in 1..(y + 2)
          /\ (z + (y + 1)) + 2 = z + (y + 2) + 1
      BY <3>1
    <3>3. QED
      BY <2>1, <2>2, <3>1, <3>2
  <2>4. tx[R + S + (o(n) + 2)] = e[o(n) + 2]
    BY <1>4, <2>3
  <2>5. QED
    BY <1>2, <1>3, <2>3, <2>4
<1>11. k < Len(fields) \/ closed => tx[R + a(n) + 2] = Separator
  <2>1. R + a(n) + 2 = R + Start(fields, k + 1)
    BY <1>6, <1>8, <1>10
  <2>2. QED
    BY <1>4, <2>1
<1>12. QED
  BY <1>7, <1>8, <1>9, <1>10, <1>11 DEF text, n, a, S, QuotedLaid

\* Without quotes, the characters alone.
PlainLaid(tx, R, fields, k, closed) ==
  LET text == fields[k].text
      n == Len(text)
      a(j) == At(fields, k, j)
  IN  /\ n \in Nat /\ \A j \in 0..n : a(j) = Start(fields, k) + j
      /\ \A j \in 0..(n - 1) : tx[R + a(j) + 1] = text[j + 1]
      /\ a(n) + 1 = Start(fields, k + 1)
      /\ k < Len(fields) \/ closed => tx[R + a(n) + 1] = Separator

LEMMA PlainPlaces ==
  ASSUME NEW fields \in Seq(Fields), NEW k \in 1..Len(fields), ~fields[k].quoted,
         NEW tx, NEW R \in Nat, NEW closed \in BOOLEAN, LaidOut(tx, R, fields, closed)
  PROVE  PlainLaid(tx, R, fields, k, closed)
<1> DEFINE text == fields[k].text
           n == Len(text)
           a(j) == At(fields, k, j)
           S == Start(fields, k)
<1>1. fields[k] \in Fields /\ text \in Seq(Characters) /\ n \in Nat /\ FieldText(fields[k]) = text
  BY FieldsAre, FieldIs DEF FieldText
<1>2. /\ k \in 1..(Len(fields) + 1) /\ k + 1 \in 1..(Len(fields) + 1)
      /\ S \in Nat /\ Start(fields, k + 1) = S + n + 1
  BY <1>1, Starts, FieldsAre
<1>3. /\ \A j \in 1..n : tx[R + S + j] = text[j]
      /\ k < Len(fields) \/ closed => tx[R + Start(fields, k + 1)] = Separator
  BY <1>1 DEF LaidOut
<1>4. \A j : a(j) = S + j
  BY DEF At
<1> HIDE DEF a, S, text, n
<1>5. ASSUME NEW j \in 0..(n - 1) PROVE tx[R + a(j) + 1] = text[j + 1]
  <2>1. R + a(j) + 1 = R + S + (j + 1) /\ j + 1 \in 1..n
    BY <1>1, <1>2, <1>4
  <2>2. QED
    BY <1>3, <2>1
<1>6. a(n) + 1 = Start(fields, k + 1) /\ R + a(n) + 1 = R + Start(fields, k + 1)
  BY <1>1, <1>2, <1>4
<1>7. QED
  BY <1>1, <1>3, <1>4, <1>5, <1>6 DEF text, n, a, S, PlainLaid

-----------------------------------------------------------------------------
(* Parts of texts.                                                           *)

LEMMA Slice ==
  ASSUME NEW S, NEW t \in Seq(S), NEW c \in Nat, NEW e \in Nat, c < e, e =< Len(t) + 1
  PROVE  /\ SubSeq(t, c + 1, e - 1) \in Seq(S) /\ Len(SubSeq(t, c + 1, e - 1)) = (e - c) - 1
         /\ \A i \in 1..((e - c) - 1) : SubSeq(t, c + 1, e - 1)[i] = t[c + i]
<1>1. Len(t) \in Nat /\ \A i \in 1..Len(t) : t[i] \in S
  BY LenProperties, ElementOfSeq
<1>2. c + 1 \in Int /\ e - 1 \in Int /\ (e - 1) - (c + 1) + 1 = (e - c) - 1
  OBVIOUS
<1>3. \A i \in (c + 1)..(e - 1) : t[i] \in S
  BY <1>1
<1>4. /\ SubSeq(t, c + 1, e - 1) \in Seq(S)
      /\ Len(SubSeq(t, c + 1, e - 1)) = IF c + 1 =< e - 1 THEN (e - 1) - (c + 1) + 1 ELSE 0
      /\ \A i \in 1..((e - 1) - (c + 1) + 1) : SubSeq(t, c + 1, e - 1)[i] = t[(c + 1) + i - 1]
  BY <1>2, <1>3, SubSeqProperties
<1>5. (IF c + 1 =< e - 1 THEN (e - 1) - (c + 1) + 1 ELSE 0) = (e - c) - 1
  OBVIOUS
<1>6. \A i \in 1..((e - c) - 1) : (c + 1) + i - 1 = c + i
  OBVIOUS
<1>7. QED
  BY <1>2, <1>4, <1>5, <1>6

LEMMA PrefixGrows ==
  ASSUME NEW S, NEW t \in Seq(S)
  PROVE  /\ SubSeq(t, 1, 0) = << >> /\ SubSeq(t, 1, Len(t)) = t
         /\ \A j \in 0..(Len(t) - 1) : Append(SubSeq(t, 1, j), t[j + 1]) = SubSeq(t, 1, j + 1)
<1>1. SubSeq(t, 1, 0) = << >> /\ SubSeq(t, 1, Len(t)) = t /\ Len(t) \in Nat
  BY SubSeqEmpty, SubSeqFull, LenProperties
<1>2. ASSUME NEW j \in 0..(Len(t) - 1)
      PROVE  Append(SubSeq(t, 1, j), t[j + 1]) = SubSeq(t, 1, j + 1)
  <2>1. 1 \in 1..Len(t) /\ j + 1 \in 1..Len(t) /\ (j + 1) - 1 = j
    BY <1>1
  <2>2. SubSeq(t, 1, j + 1) = SubSeq(t, 1, (j + 1) - 1) \o <<t[j + 1]>>
    BY <2>1, SubSeqRecursiveSecond
  <2>3. SubSeq(t, 1, j) \in Seq(S) /\ t[j + 1] \in S
    <3>1. \A i \in 1..Len(t) : t[i] \in S
      BY ElementOfSeq
    <3>2. \A i \in 1..j : t[i] \in S
      BY <1>1, <3>1
    <3>3. 1 \in Int /\ j \in Int
      OBVIOUS
    <3>4. QED
      BY <2>1, <3>1, <3>2, <3>3, SubSeqProperties
  <2>4. Append(SubSeq(t, 1, j), t[j + 1]) = SubSeq(t, 1, j) \o <<t[j + 1]>>
    BY <2>3, AppendIsConcat
  <2>5. QED
    BY <2>1, <2>2, <2>4
<1>3. QED
  BY <1>1, <1>2

\* e is the first place behind c at which ch stands.
FirstBehind(t, c, e, ch) == e > c /\ e =< Len(t) /\ t[e] = ch /\ \A i \in (c + 1)..(e - 1) : t[i] # ch

LEMMA FirstExists ==
  ASSUME NEW S, NEW t \in Seq(S), NEW c \in Nat, NEW i \in Nat, c < i, i =< Len(t), NEW ch, t[i] = ch
  PROVE  \E e \in Nat : e =< i /\ FirstBehind(t, c, e, ch)
<1> DEFINE P == {x \in Nat : c < x /\ x =< Len(t) /\ t[x] = ch}
<1>1. P \subseteq Nat /\ i \in P
  OBVIOUS
<1>2. PICK e \in P : \A y \in P : e =< y
  <2> HIDE DEF P
  <2>1. QED
    BY <1>1, MinExists
<1>3. e \in Nat /\ e > c /\ e =< Len(t) /\ t[e] = ch /\ e =< i
  BY <1>1, <1>2
<1>4. ASSUME NEW x \in (c + 1)..(e - 1) PROVE t[x] # ch
  <2>1. x \in Nat /\ c < x /\ x =< Len(t) /\ ~(e =< x)
    BY <1>3, LenProperties
  <2>2. QED
    BY <1>2, <2>1
<1>5. QED
  BY <1>3, <1>4 DEF FirstBehind

LEMMA BeforeIs ==
  ASSUME NEW S, NEW t \in Seq(S), NEW e \in Nat, NEW ch, FirstBehind(t, 0, e, ch)
  PROVE  Contains(t, ch) /\ Before(t, ch) = SubSeq(t, 1, e - 1)
<1> DEFINE P == {i \in DOMAIN t : t[i] = ch}
<1>1. Len(t) \in Nat /\ DOMAIN t = 1..Len(t)
  BY LenProperties
<1>2. e \in 1..Len(t) /\ t[e] = ch /\ \A i \in 1..(e - 1) : t[i] # ch
  BY DEF FirstBehind
<1>3. e \in P /\ \A y \in P : y \in Nat /\ e =< y
  <2>1. e \in P
    BY <1>1, <1>2
  <2>2. ASSUME NEW y \in P PROVE y \in Nat /\ e =< y
    <3>1. y \in 1..Len(t) /\ t[y] = ch
      BY <1>1
    <3>2. y \notin 1..(e - 1)
      BY <1>2, <3>1
    <3>3. QED
      BY <1>1, <3>1, <3>2
  <2>3. QED
    BY <2>1, <2>2
<1>4. Min(P) = e
  <2> HIDE DEF P
  <2>1. \E x \in P : \A y \in P : x =< y
    BY <1>3
  <2>2. Min(P) \in P /\ \A y \in P : Min(P) =< y
    BY <2>1 DEF Min
  <2>3. Min(P) =< e /\ e =< Min(P) /\ Min(P) \in Nat
    BY <1>3, <2>2
  <2>4. QED
    BY <2>3
<1>5. Contains(t, ch)
  BY <1>2 DEF Contains
<1>6. QED
  BY <1>4, <1>5 DEF Before

LEMMA BeforeType ==
  ASSUME NEW S, NEW t \in Seq(S), NEW ch
  PROVE  Before(t, ch) \in Seq(S) /\ Len(Before(t, ch)) \in Nat
<1>1. CASE ~Contains(t, ch)
  BY <1>1, LenProperties DEF Before
<1>2. CASE Contains(t, ch)
  <2>0. Len(t) \in Nat
    BY LenProperties
  <2>1. PICK i \in 1..Len(t) : t[i] = ch
    BY <1>2 DEF Contains
  <2>2. i \in Nat /\ 0 \in Nat /\ 0 < i /\ i =< Len(t)
    BY <2>0
  <2>3. PICK e \in Nat : e =< i /\ FirstBehind(t, 0, e, ch)
    BY <2>1, <2>2, FirstExists
  <2>4. Before(t, ch) = SubSeq(t, 1, e - 1)
    BY <2>3, BeforeIs
  <2>5. 0 < e /\ e =< Len(t) + 1 /\ 0 + 1 = 1
    BY <2>0, <2>3 DEF FirstBehind
  <2>6. SubSeq(t, 0 + 1, e - 1) \in Seq(S)
    BY <2>2, <2>5, Slice
  <2>7. QED
    BY <2>4, <2>5, <2>6, LenProperties
<1>3. QED
  BY <1>1, <1>2

\* What is left of a text behind the first c characters.
Behind(t, c) == SubSeq(t, c + 1, Len(t))

LEMMA BehindIs ==
  ASSUME NEW S, NEW t \in Seq(S), NEW c \in Nat, c =< Len(t)
  PROVE  /\ Behind(t, c) \in Seq(S) /\ Len(Behind(t, c)) = Len(t) - c /\ Len(t) \in Nat
         /\ \A i \in 1..(Len(t) - c) : Behind(t, c)[i] = t[c + i]
<1>1. Len(t) \in Nat
  BY LenProperties
<1>2. PICK e \in Nat : e = Len(t) + 1
  BY <1>1
<1>3. c < e /\ e =< Len(t) + 1 /\ e - 1 = Len(t) /\ (e - c) - 1 = Len(t) - c
  BY <1>1, <1>2
<1>4. /\ SubSeq(t, c + 1, e - 1) \in Seq(S) /\ Len(SubSeq(t, c + 1, e - 1)) = (e - c) - 1
      /\ \A i \in 1..((e - c) - 1) : SubSeq(t, c + 1, e - 1)[i] = t[c + i]
  BY <1>3, Slice
<1>5. QED
  BY <1>1, <1>3, <1>4 DEF Behind

\* Behind the first c characters, the text up to ch ends in front of e.
SplitsAt(S, t, c, e, ch) ==
  LET in == Behind(t, c)
      taken == Before(in, ch)
  IN  /\ Contains(in, ch) /\ taken \in Seq(S) /\ Len(taken) = (e - c) - 1
      /\ \A i \in 1..((e - c) - 1) : taken[i] = t[c + i]
      /\ SubSeq(in, Len(taken) + 2, Len(in)) = Behind(t, e)

LEMMA LineTaken ==
  ASSUME NEW S, NEW t \in Seq(S), NEW c \in Nat, NEW e \in Nat, NEW ch, FirstBehind(t, c, e, ch)
  PROVE  SplitsAt(S, t, c, e, ch)
<1>0. Len(t) \in Nat /\ c =< Len(t) /\ e =< Len(t) /\ c < e
  BY LenProperties DEF FirstBehind
<1>1. PICK in \in Seq(S) : in = Behind(t, c)
  BY <1>0, BehindIs
<1>2. Len(in) = Len(t) - c /\ \A i \in 1..(Len(t) - c) : in[i] = t[c + i]
  BY <1>0, <1>1, BehindIs
<1>3. PICK d \in Nat : d = e - c
  BY <1>0
<1>4. FirstBehind(in, 0, d, ch)
  <2>1. d > 0 /\ d =< Len(in) /\ d \in 1..(Len(t) - c) /\ c + d = e
    <3>1. PICK n \in Nat : n = Len(t)
      BY <1>0
    <3>2. d > 0 /\ d =< n - c /\ d \in 1..(n - c) /\ c + d = e
      BY <1>0, <1>3, <3>1
    <3>3. QED
      BY <1>2, <3>1, <3>2
  <2>2. in[d] = ch
    BY <1>2, <2>1 DEF FirstBehind
  <2>3. ASSUME NEW i \in (0 + 1)..(d - 1) PROVE in[i] # ch
    <3>1. i \in 1..(Len(t) - c) /\ c + i \in (c + 1)..(e - 1)
      BY <1>0, <1>3
    <3>2. QED
      BY <1>2, <3>1 DEF FirstBehind
  <2>4. QED
    BY <2>1, <2>2, <2>3 DEF FirstBehind
<1>5. Contains(in, ch) /\ Before(in, ch) = SubSeq(in, 1, d - 1)
  BY <1>4, BeforeIs
<1>6. 0 < d /\ d =< Len(in) + 1 /\ 0 \in Nat /\ 0 + 1 = 1 /\ d - 0 = d
  BY <1>0, <1>2, <1>3
<1>7. /\ SubSeq(in, 0 + 1, d - 1) \in Seq(S) /\ Len(SubSeq(in, 0 + 1, d - 1)) = (d - 0) - 1
      /\ \A i \in 1..((d - 0) - 1) : SubSeq(in, 0 + 1, d - 1)[i] = in[0 + i]
  BY <1>6, Slice
<1>8. PICK taken \in Seq(S) : taken = Before(in, ch)
  BY <1>5, <1>6, <1>7
<1>9. Len(taken) = d - 1 /\ \A i \in 1..(d - 1) : taken[i] = t[c + i]
  <2>1. Len(taken) = d - 1 /\ \A i \in 1..(d - 1) : taken[i] = in[0 + i]
    BY <1>5, <1>6, <1>7, <1>8
  <2>2. ASSUME NEW i \in 1..(d - 1) PROVE taken[i] = t[c + i]
    <3>1. 0 + i = i /\ i \in 1..(Len(t) - c)
      BY <1>0, <1>3
    <3>2. QED
      BY <1>2, <2>1, <3>1
  <2>3. QED
    BY <2>1, <2>2
<1>10. SubSeq(in, Len(taken) + 2, Len(in)) = Behind(in, d)
  <2>1. Len(taken) + 2 = d + 1
    BY <1>9
  <2>2. QED
    BY <2>1 DEF Behind
<1>11. Behind(in, d) = Behind(t, e)
  <2>0. d =< Len(in)
    BY <1>4 DEF FirstBehind
  <2>1. PICK u \in Seq(S), v \in Seq(S) : u = Behind(in, d) /\ v = Behind(t, e)
    BY <1>0, <2>0, BehindIs
  <2>2. Len(u) = Len(in) - d /\ \A i \in 1..(Len(in) - d) : u[i] = in[d + i]
    BY <2>0, <2>1, BehindIs
  <2>3. Len(v) = Len(t) - e /\ \A i \in 1..(Len(t) - e) : v[i] = t[e + i]
    BY <1>0, <2>1, BehindIs
  <2>4. Len(in) - d = Len(t) - e
    BY <1>0, <1>2, <1>3
  <2>5. ASSUME NEW i \in 1..Len(u) PROVE u[i] = v[i]
    <3>1. i \in 1..(Len(in) - d) /\ i \in 1..(Len(t) - e) /\ d + i \in 1..(Len(t) - c) /\ c + (d + i) = e + i
      BY <1>0, <1>2, <1>3, <2>2, <2>4
    <3>2. u[i] = in[d + i] /\ v[i] = t[e + i] /\ in[d + i] = t[c + (d + i)]
      BY <1>2, <2>2, <2>3, <3>1
    <3>3. QED
      BY <3>1, <3>2
  <2>6. Len(u) = Len(v)
    BY <2>2, <2>3, <2>4
  <2>7. QED
    BY <2>1, <2>5, <2>6, SeqEqual
<1>12. QED
  BY <1>1, <1>3, <1>5, <1>8, <1>9, <1>10, <1>11 DEF SplitsAt

-----------------------------------------------------------------------------
(* The type invariant, for any inputs.                                       *)

Types == TypeOK /\ input \in Seq(Characters) /\ line \in Seq(Characters)

LEMMA LineTypes ==
  ASSUME Types
  PROVE  /\ Taken \in Seq(Characters) /\ Len(Taken) \in Nat
         /\ GetLine => input' \in Seq(Characters) /\ eof' \in BOOLEAN
<1>1. input \in Seq(Characters) /\ Len(input) \in Nat /\ \A i \in 1..Len(input) : input[i] \in Characters
  BY LenProperties, ElementOfSeq DEF Types
<1>2. Taken \in Seq(Characters) /\ Len(Taken) \in Nat
  BY <1>1, BeforeType DEF Taken
<1>3. SubSeq(input, Len(Taken) + 2, Len(input)) \in Seq(Characters)
  <2>1. PICK k \in Nat : k = Len(Taken)
    BY <1>2
  <2>2. k + 2 \in Int /\ Len(input) \in Int /\ \A i \in (k + 2)..Len(input) : input[i] \in Characters
    BY <1>1
  <2>3. QED
    BY <2>1, <2>2, SubSeqProperties
<1>4. QED
  BY <1>2, <1>3 DEF GetLine

LEMMA TypesInit == Init => Types
<1> SUFFICES ASSUME Init PROVE Types
  OBVIOUS
<1>1. PICK i \in Inputs :
        /\ form = i.form
        /\ input = IF i.form = "file" THEN i.text ELSE << >>
        /\ line = IF i.form = "file" THEN << >> ELSE i.text
        /\ pc = IF i.form = "file" THEN "next" ELSE IF i.text = << >> THEN "end" ELSE "split"
  BY DEF Init
<1>2. i.form \in {"file", "list", "request"} /\ i.text \in Seq(Characters)
  BY InputAssumption
<1>3. << >> \in Seq(Characters)
  BY EmptySeq
<1>4. input \in Seq(Characters) /\ line \in Seq(Characters) /\ pc \in {"next", "split", "end"}
  BY <1>1, <1>2, <1>3
<1>5. Len(line) \in Nat
  BY <1>4, LenProperties
<1>6. pos \in 1..(Len(line) + 1)
  BY <1>5 DEF Init
<1>7. QED
  BY <1>1, <1>2, <1>4, <1>6 DEF Types, TypeOK, Init

LEMMA TypesNext == Types /\ [Next]_vars => Types'
<1> SUFFICES ASSUME Types, [Next]_vars PROVE Types'
  OBVIOUS
<1>0. /\ input \in Seq(Characters) /\ line \in Seq(Characters) /\ Len(line) \in Nat /\ DOMAIN line = 1..Len(line)
      /\ form \in {"file", "list", "request"} /\ pc \in {"next", "split", "end"}
      /\ pos \in 1..(Len(line) + 1) /\ eof \in BOOLEAN /\ first \in BOOLEAN /\ escaped \in BOOLEAN
      /\ first => s = << >>
  BY LenProperties DEF Types, TypeOK
<1>1. CASE NextLine
  <2>1. Taken \in Seq(Characters) /\ Len(Taken) \in Nat /\ input' \in Seq(Characters) /\ eof' \in BOOLEAN
    BY <1>1, LineTypes DEF NextLine
  <2>2. form' = form
    BY <1>1 DEF NextLine, given
  <2>3. CASE UNCHANGED <<line, pos, field, elements, pc>>
    BY <1>0, <2>1, <2>2, <2>3 DEF Types, TypeOK, field
  <2>4. CASE line' = Taken /\ pos' = 1 /\ Begin /\ pc' = "split"
    <3>1. pos' \in 1..(Len(line') + 1)
      BY <2>1, <2>4
    <3>2. QED
      BY <1>0, <2>1, <2>2, <2>4, <3>1 DEF Types, TypeOK, Begin
  <2>5. QED
    BY <1>1, <2>3, <2>4 DEF NextLine
<1>2. CASE NoMoreLines
  BY <1>0, <1>2 DEF NoMoreLines, Types, TypeOK, given, stream, field
<1>3. CASE SplitChar
  <2>1. UNCHANGED <<form, input, eof, line, pc>> /\ pos \in 1..Len(line)
    BY <1>0, <1>3 DEF SplitChar, InLine, given, stream
  <2> DEFINE Kept == /\ pos' = pos + 1 \/ (pos' = pos + 2 /\ pos < Len(line))
                     /\ first' \in BOOLEAN /\ escaped' \in BOOLEAN /\ (first' => s' = << >>)
  <2>2. Kept
    <3>1. StartQuoted => Kept
      BY <1>0 DEF StartQuoted
    <3>2. StartPlain => Kept
      BY <1>0 DEF StartPlain
    <3>3. EndPlain => Kept
      BY <1>0 DEF EndPlain, FieldDone, Begin
    <3>4. EndQuoted => Kept
      BY <1>0 DEF EndQuoted, FieldDone, Begin
    <3>5. QuoteWithin => Kept
      BY <1>0 DEF QuoteWithin
    <3>6. QuoteAtEnd => Kept
      BY <1>0 DEF QuoteAtEnd, field
    <3>7. CharWithin => Kept
      BY <1>0 DEF CharWithin
    <3> HIDE DEF Kept
    <3>8. QED
      BY <1>3, <3>1, <3>2, <3>3, <3>4, <3>5, <3>6, <3>7 DEF SplitChar
  <2>3. pos' \in 1..(Len(line') + 1)
    BY <1>0, <2>1, <2>2
  <2>4. QED
    BY <1>0, <2>1, <2>2, <2>3 DEF Types, TypeOK
<1>4. CASE ContinueRow
  <2>1. Taken \in Seq(Characters) /\ Len(Taken) \in Nat /\ input' \in Seq(Characters) /\ eof' \in BOOLEAN
    BY <1>4, LineTypes DEF ContinueRow
  <2>2. line' = Taken /\ pos' = 1 /\ form' = form /\ first' = first /\ escaped' = escaped /\ ~first
    BY <1>4 DEF ContinueRow, given
  <2>3. pos' \in 1..(Len(line') + 1)
    BY <2>1, <2>2
  <2>4. pc' \in {"next", "split", "end"}
    BY <1>0, <1>4 DEF ContinueRow, RowDone
  <2>5. QED
    BY <1>0, <2>1, <2>2, <2>3, <2>4 DEF Types, TypeOK
<1>5. CASE EndSplit
  BY <1>0, <1>5 DEF EndSplit, RowDone, Types, TypeOK, given, stream, field
<1>6. CASE UNCHANGED vars
  BY <1>0, <1>6 DEF vars, given, stream, field, Types, TypeOK
<1>7. QED
  BY <1>1, <1>2, <1>3, <1>4, <1>5, <1>6 DEF Next

\* The place in a line never leaves it, whatever characters are read, and no field
\* begins with something in it.
THEOREM TypeCorrect == Spec => []TypeOK
<1>1. Types => TypeOK
  BY DEF Types
<1>2. QED
  BY <1>1, TypesInit, TypesNext, PTL DEF Spec

-----------------------------------------------------------------------------
(* Rows, lists and files as they are written.                                *)

LEMMA RowLaid ==
  ASSUME NEW fields \in Seq(Fields), NEW tx, NEW R \in Nat,
         \A i \in 1..Len(RowText(fields)) : tx[R + i] = RowText(fields)[i]
  PROVE  /\ LaidOut(tx, R, fields, TRUE) /\ tx[R + Start(fields, Len(fields) + 1) + 1] = NewLine
         /\ RowText(fields) \in Seq(Characters)
         /\ Len(RowText(fields)) = Start(fields, Len(fields) + 1) + 1
<1> DEFINE n == Len(fields)
           C == Closed(fields)
           flat == FlattenSeq(C)
           L(k) == Len(FieldText(fields[k]))
           st(k) == Start(fields, k)
           row == RowText(fields)
<1>1. /\ n \in Nat /\ C \in Seq(Seq(Characters)) /\ Len(C) = n
      /\ \A k \in 1..n : /\ L(k) \in Nat /\ Len(C[k]) = L(k) + 1
                         /\ \A i \in 1..L(k) : C[k][i] = FieldText(fields[k])[i]
                         /\ C[k][L(k) + 1] = Separator
  BY ClosedIs, FieldsAre
<1>2. flat \in Seq(Characters) /\ PlacedAt(C, flat, Off(C))
  BY <1>1, OffPlaces
<1>3. /\ Off(C)[n] = Len(flat)
      /\ \A k \in 1..n : \A i \in 1..Len(C[k]) : flat[Off(C)[k - 1] + i] = C[k][i]
  BY <1>1, <1>2 DEF PlacedAt
<1>4. /\ \A k \in 1..(n + 1) : st(k) \in Nat
      /\ \A k \in 1..n : st(k + 1) = st(k) + L(k) + 1
      /\ \A k, l \in 1..(n + 1) : k =< l => st(k) =< st(l)
  BY Starts
<1>5. \A k : Off(C)[k - 1] = st(k)
  BY DEF Start
<1>6. (n + 1) - 1 = n /\ n + 1 \in 1..(n + 1)
  BY <1>1
<1>7. Len(flat) = st(n + 1) /\ st(n + 1) \in Nat
  BY <1>3, <1>4, <1>5, <1>6
<1>8. row = flat \o <<NewLine>>
  BY DEF RowText
<1>9. <<NewLine>> \in Seq(Characters) /\ Len(<<NewLine>>) = 1 /\ <<NewLine>>[1] = NewLine
  BY MarksAreCharacters, SingleSeq
<1> HIDE DEF flat, C, L, st, row, n
<1>10. /\ row \in Seq(Characters) /\ Len(row) = Len(flat) + 1
       /\ \A i \in 1..Len(flat) : row[i] = flat[i]
       /\ row[Len(flat) + 1] = NewLine
  <2>1. PICK b \in Seq(Characters) : b = <<NewLine>>
    BY <1>9
  <2>2. /\ flat \o b \in Seq(Characters) /\ Len(flat \o b) = Len(flat) + Len(b)
        /\ \A i \in 1..Len(flat) : (flat \o b)[i] = flat[i]
        /\ \A i \in 1..Len(b) : (flat \o b)[Len(flat) + i] = b[i]
    BY <1>2, ConcatAt
  <2>3. 1 \in 1..Len(b) /\ Len(b) = 1 /\ b[1] = NewLine
    BY <1>9, <2>1
  <2>4. QED
    BY <1>8, <2>1, <2>2, <2>3
<1>11. \A i \in 1..Len(row) : tx[R + i] = row[i]
  BY DEF row
<1>12. tx[R + st(n + 1) + 1] = NewLine /\ Len(row) = st(n + 1) + 1
  <2>1. st(n + 1) + 1 \in 1..Len(row) /\ R + st(n + 1) + 1 = R + (st(n + 1) + 1)
    BY <1>7, <1>10
  <2>2. QED
    BY <1>7, <1>10, <1>11, <2>1
<1>13. ASSUME NEW k \in 1..n, NEW i \in 1..(L(k) + 1)
       PROVE  tx[R + st(k) + i] = C[k][i]
  <2>1. k \in 1..(n + 1) /\ k + 1 \in 1..(n + 1) /\ k + 1 =< n + 1 /\ n + 1 \in 1..(n + 1)
    BY <1>1
  <2>2. st(k) \in Nat /\ st(k + 1) = st(k) + L(k) + 1 /\ st(k + 1) =< st(n + 1)
    BY <1>4, <2>1
  <2>3. L(k) \in Nat /\ Len(C[k]) = L(k) + 1
    BY <1>1
  <2>4. PICK a \in Nat, b \in Nat, c \in Nat :
          a = st(k) /\ b = L(k) /\ c = st(n + 1) /\ a + b + 1 =< c /\ i \in 1..(b + 1)
    BY <1>7, <2>2, <2>3
  <2>5. a + i \in 1..c /\ R + a + i = R + (a + i) /\ a + i \in 1..(c + 1)
    <3>1. a + b + 1 =< c /\ i \in Nat /\ 1 =< i /\ i =< b + 1
      BY <2>4
    <3>2. QED
      BY <3>1
  <2>6. tx[R + (a + i)] = row[a + i] /\ row[a + i] = flat[a + i]
    BY <1>7, <1>10, <1>11, <2>4, <2>5
  <2>7. flat[a + i] = C[k][i]
    BY <1>3, <1>5, <2>3, <2>4
  <2>8. QED
    BY <2>4, <2>5, <2>6, <2>7
<1>14. ASSUME NEW k \in 1..n
       PROVE  /\ \A i \in 1..L(k) : tx[R + st(k) + i] = FieldText(fields[k])[i]
              /\ tx[R + st(k + 1)] = Separator
  <2>1. L(k) \in Nat /\ st(k) \in Nat /\ st(k + 1) = st(k) + L(k) + 1
    <3>1. k \in 1..(n + 1)
      BY <1>1
    <3>2. QED
      BY <1>1, <1>4, <3>1
  <2>2. \A i \in 1..L(k) : i \in 1..(L(k) + 1)
    BY <2>1
  <2>3. L(k) + 1 \in 1..(L(k) + 1) /\ R + st(k) + (L(k) + 1) = R + (st(k) + L(k) + 1)
    BY <2>1
  <2>4. tx[R + st(k) + (L(k) + 1)] = Separator
    BY <1>1, <1>13, <2>3
  <2>5. QED
    BY <1>1, <1>13, <2>1, <2>2, <2>3, <2>4
<1>15. QED
  BY <1>10, <1>12, <1>14 DEF LaidOut, row, n, st, L

LEMMA JoinedIs ==
  ASSUME NEW fields \in Seq(Fields)
  PROVE  /\ Joined(fields) \in Seq(Seq(Characters)) /\ Len(Joined(fields)) = Len(fields)
         /\ \A k \in 1..Len(fields) :
              /\ Len(FieldText(fields[k])) \in Nat
              /\ k = 1 => /\ Len(Joined(fields)[k]) = Len(FieldText(fields[k]))
                          /\ \A i \in 1..Len(FieldText(fields[k])) :
                               Joined(fields)[k][i] = FieldText(fields[k])[i]
              /\ k # 1 => /\ Len(Joined(fields)[k]) = Len(FieldText(fields[k])) + 1
                          /\ Joined(fields)[k][1] = Separator
                          /\ \A i \in 1..Len(FieldText(fields[k])) :
                               Joined(fields)[k][1 + i] = FieldText(fields[k])[i]
<1> DEFINE n == Len(fields)
           c(k) == IF k = 1 THEN FieldText(fields[k]) ELSE <<Separator>> \o FieldText(fields[k])
           C == [k \in 1..n |-> c(k)]
<1>1. n \in Nat /\ DOMAIN fields = 1..n /\ \A k \in 1..n : fields[k] \in Fields
  BY FieldsAre
<1>2. Joined(fields) = C
  BY <1>1 DEF Joined
<1>3. ASSUME NEW k \in 1..n
      PROVE  /\ c(k) \in Seq(Characters) /\ Len(FieldText(fields[k])) \in Nat
             /\ k = 1 => /\ Len(c(k)) = Len(FieldText(fields[k]))
                         /\ \A i \in 1..Len(FieldText(fields[k])) : c(k)[i] = FieldText(fields[k])[i]
             /\ k # 1 => /\ Len(c(k)) = Len(FieldText(fields[k])) + 1 /\ c(k)[1] = Separator
                         /\ \A i \in 1..Len(FieldText(fields[k])) : c(k)[1 + i] = FieldText(fields[k])[i]
  <2>1. PICK f \in Seq(Characters) : f = FieldText(fields[k])
    BY <1>1, FieldIs
  <2>2. PICK q \in Seq(Characters) : q = <<Separator>> /\ Len(q) = 1 /\ q[1] = Separator
    BY MarksAreCharacters, SingleSeq
  <2>3. Len(f) \in Nat
    BY LenProperties
  <2>4. /\ q \o f \in Seq(Characters) /\ Len(q \o f) = Len(q) + Len(f)
        /\ \A i \in 1..Len(q) : (q \o f)[i] = q[i]
        /\ \A i \in 1..Len(f) : (q \o f)[Len(q) + i] = f[i]
    BY ConcatAt
  <2>5. CASE k = 1
    BY <2>1, <2>3, <2>5
  <2>6. CASE k # 1
    <3>1. c(k) = q \o f
      BY <2>1, <2>2, <2>6
    <3>2. 1 \in 1..Len(q) /\ Len(q) + Len(f) = Len(f) + 1
      BY <2>2, <2>3
    <3> HIDE DEF c
    <3>3. QED
      BY <2>1, <2>2, <2>3, <2>4, <2>6, <3>1, <3>2
  <2>7. QED
    BY <2>5, <2>6
<1>4. C \in Seq(Seq(Characters)) /\ Len(C) = n /\ \A k \in 1..n : C[k] = c(k)
  BY <1>1, <1>3
<1> HIDE DEF c, C
<1>5. QED
  BY <1>2, <1>3, <1>4

LEMMA ListLaid ==
  ASSUME NEW fields \in Seq(Fields), fields # << >>
  PROVE  /\ LaidOut(ListText(fields), 0, fields, FALSE)
         /\ ListText(fields) \in Seq(Characters)
         /\ Len(ListText(fields)) \in Nat
         /\ Start(fields, Len(fields) + 1) = Len(ListText(fields)) + 1
<1> DEFINE n == Len(fields)
           J == Joined(fields)
           t == ListText(fields)
           L(k) == Len(FieldText(fields[k]))
           st(k) == Start(fields, k)
           o(k) == Off(J)[k]
<1>1. /\ n \in Nat /\ J \in Seq(Seq(Characters)) /\ Len(J) = n
      /\ \A k \in 1..n : /\ L(k) \in Nat
                         /\ k = 1 => /\ Len(J[k]) = L(k)
                                     /\ \A i \in 1..L(k) : J[k][i] = FieldText(fields[k])[i]
                         /\ k # 1 => /\ Len(J[k]) = L(k) + 1 /\ J[k][1] = Separator
                                     /\ \A i \in 1..L(k) : J[k][1 + i] = FieldText(fields[k])[i]
  BY JoinedIs, FieldsAre
<1>2. t \in Seq(Characters) /\ PlacedAt(J, t, Off(J))
  BY <1>1, OffPlaces DEF ListText
<1>3. /\ o(0) = 0 /\ o(n) = Len(t) /\ \A k \in 0..n : o(k) \in Nat
      /\ \A k \in 1..n : /\ o(k) = o(k - 1) + Len(J[k])
                         /\ \A i \in 1..Len(J[k]) : t[o(k - 1) + i] = J[k][i]
  BY <1>1, <1>2 DEF PlacedAt
<1>4. /\ st(1) = 0 /\ \A k \in 1..(n + 1) : st(k) \in Nat
      /\ \A k \in 1..n : st(k + 1) = st(k) + L(k) + 1
  BY Starts
<1>5. n \in Nat \ {0}
  BY <1>1, EmptySeq
<1> HIDE DEF n, J, t, L, st, o
<1>6. \A k \in 1..n : st(k + 1) = o(k) + 1
  <2> DEFINE bad == {k \in 1..n : st(k + 1) # o(k) + 1}
  <2> SUFFICES ASSUME bad # {} PROVE FALSE
    OBVIOUS
  <2>1. PICK k \in bad : \A x \in bad : k =< x
    <3>1. bad \subseteq Nat
      OBVIOUS
    <3> HIDE DEF bad
    <3>2. QED
      BY <3>1, MinExists
  <2>2. k \in 1..n /\ st(k + 1) # o(k) + 1 /\ L(k) \in Nat /\ st(k + 1) = st(k) + L(k) + 1
        /\ o(k) = o(k - 1) + Len(J[k])
    BY <1>1, <1>3, <1>4, <2>1
  <2>3. CASE k = 1
    <3>1. st(k) = 0 /\ o(k - 1) = 0 /\ Len(J[k]) = L(k)
      BY <1>1, <1>3, <1>4, <2>2, <2>3
    <3>2. QED
      BY <2>2, <3>1
  <2>4. CASE k # 1
    <3>1. k - 1 \in 1..n /\ k - 1 \in 0..n /\ ~(k =< k - 1) /\ (k - 1) + 1 = k
      BY <1>5, <2>2, <2>4
    <3>2. st((k - 1) + 1) = o(k - 1) + 1
      BY <2>1, <3>1
    <3>3. st(k) = o(k - 1) + 1 /\ o(k - 1) \in Nat /\ Len(J[k]) = L(k) + 1
      BY <1>1, <1>3, <2>2, <2>4, <3>1, <3>2
    <3>4. QED
      BY <2>2, <3>3
  <2>5. QED
    BY <2>3, <2>4
<1>7. ASSUME NEW k \in 1..n, NEW i \in 1..L(k)
      PROVE  t[0 + st(k) + i] = FieldText(fields[k])[i]
  <2>0. L(k) \in Nat /\ i \in Nat
    BY <1>1
  <2>1. CASE k = 1
    <3>1. k - 1 = 0 /\ o(k - 1) = 0 /\ st(k) = 0 /\ Len(J[k]) = L(k)
      BY <1>1, <1>3, <1>4, <2>1
    <3>2. t[0 + i] = J[k][i] /\ J[k][i] = FieldText(fields[k])[i]
      <4>1. \A m \in 1..Len(J[k]) : t[o(k - 1) + m] = J[k][m]
        BY <1>3
      <4>2. t[o(k - 1) + i] = J[k][i]
        BY <3>1, <4>1
      <4>3. \A m \in 1..L(k) : J[k][m] = FieldText(fields[k])[m]
        BY <1>1, <2>1
      <4>4. QED
        BY <3>1, <4>2, <4>3, Zenon
    <3>3. 0 + st(k) + i = 0 + i
      BY <3>1
    <3>4. QED
      BY <3>2, <3>3
  <2>2. CASE k # 1
    <3>1. k - 1 \in 1..n /\ k - 1 \in 0..n /\ (k - 1) + 1 = k
      BY <1>5, <2>2
    <3>2. st(k) = o(k - 1) + 1 /\ o(k - 1) \in Nat /\ Len(J[k]) = L(k) + 1
      BY <1>1, <1>3, <1>6, <2>2, <3>1
    <3>3. 1 + i \in 1..Len(J[k]) /\ 0 + st(k) + i = o(k - 1) + (1 + i)
      BY <2>0, <3>2
    <3>4. t[o(k - 1) + (1 + i)] = J[k][1 + i] /\ J[k][1 + i] = FieldText(fields[k])[i]
      BY <1>1, <1>3, <2>2, <3>3
    <3>5. QED
      BY <3>3, <3>4
  <2>3. QED
    BY <2>1, <2>2
<1>8. ASSUME NEW k \in 1..n, k < n
      PROVE  t[0 + st(k + 1)] = Separator
  <2>1. k + 1 \in 1..n /\ k + 1 # 1 /\ (k + 1) - 1 = k /\ k \in 0..n
    BY <1>5, <1>8
  <2>2. L(k + 1) \in Nat /\ Len(J[k + 1]) = L(k + 1) + 1 /\ J[k + 1][1] = Separator
    BY <1>1, <2>1
  <2>3. 1 \in 1..Len(J[k + 1])
    BY <2>2
  <2>4. t[o(k) + 1] = Separator
    BY <1>3, <2>1, <2>2, <2>3
  <2>5. 0 + st(k + 1) = o(k) + 1
    BY <1>3, <1>6, <2>1
  <2>6. QED
    BY <2>4, <2>5
<1>9. st(n + 1) = Len(t) + 1 /\ Len(t) \in Nat
  <2>1. n \in 1..n /\ n \in 0..n
    BY <1>5
  <2>2. QED
    BY <1>3, <1>6, <2>1
<1>10. QED
  BY <1>2, <1>7, <1>8, <1>9 DEF LaidOut, n, t, L, st

-----------------------------------------------------------------------------
(* A line being split: how far the reader is in the fields written.          *)

AtField(fields, k, q) == first /\ ~escaped /\ s = << >> /\ q = Start(fields, k)

InQuoted(fields, k, q) ==
  /\ ~first /\ escaped /\ k \in 1..Len(fields) /\ fields[k].quoted
  /\ \E j \in 0..Len(fields[k].text) : s = SubSeq(fields[k].text, 1, j) /\ q = At(fields, k, j)

InPlain(fields, k, q) ==
  /\ ~first /\ ~escaped /\ k \in 1..Len(fields) /\ ~fields[k].quoted
  /\ \E j \in 1..Len(fields[k].text) : s = SubSeq(fields[k].text, 1, j) /\ q = At(fields, k, j)

\* The first q characters of the fields are read, with those before field k complete.
ReadingAt(fields, k, q) ==
  /\ elements = SubSeq(Texts(fields), 1, k - 1)
  /\ AtField(fields, k, q) \/ InQuoted(fields, k, q) \/ InPlain(fields, k, q)

Reading(fields, q) == \E k \in 1..(Len(fields) + 1) : ReadingAt(fields, k, q)

\* What is left of the line stands in t behind the first c characters, up to e.
LineIs(t, c, e) ==
  /\ e = c + (Len(line) - pos) + 2
  /\ \A i \in 0..(Len(line) - pos) : line[pos + i] = t[c + i + 1]

LEMMA TextsAre ==
  ASSUME NEW fields \in Seq(Fields)
  PROVE  /\ Texts(fields) \in Seq(Seq(Characters)) /\ Len(Texts(fields)) = Len(fields)
         /\ SubSeq(Texts(fields), 1, 0) = << >> /\ SubSeq(Texts(fields), 1, Len(fields)) = Texts(fields)
         /\ \A k \in 1..Len(fields) :
              Append(SubSeq(Texts(fields), 1, k - 1), fields[k].text) = SubSeq(Texts(fields), 1, k)
<1> DEFINE n == Len(fields)
           T == Texts(fields)
<1>1. n \in Nat /\ DOMAIN fields = 1..n /\ \A k \in 1..n : fields[k].text \in Seq(Characters)
  BY FieldsAre, FieldIs
<1>2. T = [k \in 1..n |-> fields[k].text]
  BY <1>1 DEF Texts
<1> HIDE DEF T, n
<1>3. T \in Seq(Seq(Characters)) /\ Len(T) = n /\ \A k \in 1..n : T[k] = fields[k].text
  BY <1>1, <1>2
<1>4. /\ SubSeq(T, 1, 0) = << >> /\ SubSeq(T, 1, n) = T
      /\ \A j \in 0..(n - 1) : Append(SubSeq(T, 1, j), T[j + 1]) = SubSeq(T, 1, j + 1)
  BY <1>3, PrefixGrows
<1>5. ASSUME NEW k \in 1..n PROVE Append(SubSeq(T, 1, k - 1), fields[k].text) = SubSeq(T, 1, k)
  <2>1. k - 1 \in 0..(n - 1) /\ (k - 1) + 1 = k
    BY <1>1
  <2>2. Append(SubSeq(T, 1, k - 1), T[(k - 1) + 1]) = SubSeq(T, 1, (k - 1) + 1)
    BY <1>4, <2>1
  <2>3. QED
    BY <1>3, <2>1, <2>2
<1>6. QED
  BY <1>3, <1>4, <1>5 DEF T, n

LEMMA FieldEnds ==
  ASSUME NEW fields \in Seq(Fields), NEW k \in 1..Len(fields),
         elements = SubSeq(Texts(fields), 1, k - 1), elements' = Append(elements, fields[k].text), Begin
  PROVE  Reading(fields, Start(fields, k + 1))'
<1>1. Len(fields) \in Nat
  BY FieldsAre
<1>2. k + 1 \in 1..(Len(fields) + 1) /\ (k + 1) - 1 = k
  BY <1>1
<1>3. elements' = SubSeq(Texts(fields), 1, (k + 1) - 1)
  BY <1>2, TextsAre
<1>4. first' /\ ~escaped' /\ s' = << >>
  BY DEF Begin
<1>5. AtField(fields, k + 1, Start(fields, k + 1))'
  BY <1>4 DEF AtField
<1>6. ReadingAt(fields, k + 1, Start(fields, k + 1))'
  BY <1>3, <1>5 DEF ReadingAt
<1>7. QED
  BY <1>2, <1>6 DEF Reading

\* One more character of a field that is not complete.
LEMMA FieldGrows ==
  ASSUME NEW fields \in Seq(Fields), NEW k \in 1..Len(fields), NEW j \in 0..(Len(fields[k].text) - 1),
         s = SubSeq(fields[k].text, 1, j), s' = Append(s, fields[k].text[j + 1]),
         elements = SubSeq(Texts(fields), 1, k - 1), UNCHANGED elements, ~first',
         (fields[k].quoted /\ escaped') \/ (~fields[k].quoted /\ ~escaped')
  PROVE  Reading(fields, At(fields, k, j + 1))'
<1>1. Len(fields) \in Nat /\ fields[k].text \in Seq(Characters) /\ Len(fields[k].text) \in Nat
  BY FieldsAre, FieldIs
<1>2. k \in 1..(Len(fields) + 1) /\ j + 1 \in 1..Len(fields[k].text) /\ j + 1 \in 0..Len(fields[k].text)
  BY <1>1
<1>3. s' = SubSeq(fields[k].text, 1, j + 1)
  BY <1>1, PrefixGrows
<1>4. InQuoted(fields, k, At(fields, k, j + 1))' \/ InPlain(fields, k, At(fields, k, j + 1))'
  BY <1>2, <1>3 DEF InQuoted, InPlain
<1>5. ReadingAt(fields, k, At(fields, k, j + 1))'
  BY <1>4 DEF ReadingAt
<1>6. QED
  BY <1>2, <1>5 DEF Reading

\* Which branch of the loop is taken.
LEMMA Branches ==
  ASSUME Types, SplitChar
  PROVE  /\ first /\ Char = Quote => StartQuoted
         /\ first /\ Char \notin {Quote, Separator} => StartPlain
         /\ Char = Separator /\ (first \/ ~escaped) => EndPlain
         /\ ~first /\ escaped /\ Char = Quote /\ pos < Len(line) /\ line[pos + 1] = Separator => EndQuoted
         /\ ~first /\ escaped /\ Char = Quote /\ pos < Len(line) /\ line[pos + 1] # Separator => QuoteWithin
         /\ ~first /\ escaped /\ Char # Quote => CharWithin
         /\ ~first /\ ~escaped /\ Char # Separator => CharWithin
<1>1. first \in BOOLEAN /\ escaped \in BOOLEAN /\ pos \in Nat /\ Len(line) \in Nat
  BY LenProperties DEF Types, TypeOK
<1>2. Quote # Separator
  BY DEF Quote, Separator
<1>3. \/ StartQuoted \/ StartPlain \/ EndPlain \/ EndQuoted \/ QuoteWithin \/ QuoteAtEnd \/ CharWithin
  BY DEF SplitChar
<1>4. StartQuoted => first /\ Char = Quote
  BY DEF StartQuoted
<1>5. StartPlain => first /\ Char # Quote /\ Char # Separator
  BY DEF StartPlain
<1>6. EndPlain => Char = Separator /\ (first \/ ~escaped)
  BY DEF EndPlain
<1>7. EndQuoted => ~first /\ escaped /\ Char = Quote /\ line[pos + 1] = Separator
  BY DEF EndQuoted
<1>8. QuoteWithin => ~first /\ escaped /\ Char = Quote /\ line[pos + 1] # Separator
  BY DEF QuoteWithin
<1>9. QuoteAtEnd => ~first /\ escaped /\ Char = Quote /\ ~(pos < Len(line))
  BY <1>1 DEF QuoteAtEnd
<1>10. CharWithin => /\ ~first /\ (escaped => Char # Quote) /\ (~escaped => Char # Separator)
  BY <1>1 DEF CharWithin
<1> HIDE DEF Quote, Separator
<1>11. QED
  BY <1>1, <1>2, <1>3, <1>4, <1>5, <1>6, <1>7, <1>8, <1>9, <1>10

LEMMA NextChars ==
  ASSUME Types, InLine, NEW t, NEW c \in Nat, NEW e, LineIs(t, c, e)
  PROVE  /\ Char = t[c + 1] /\ e \in Nat /\ c + 2 =< e
         /\ IF pos < Len(line) THEN line[pos + 1] = t[c + 2] /\ c + 2 < e ELSE e = c + 2
<1>1. PICK n \in Nat, p \in Nat : n = Len(line) /\ p = pos
  BY LenProperties DEF Types, TypeOK
<1>2. p \in 1..n
  BY <1>1, LenProperties DEF InLine, Types
<1>3. e = c + (n - p) + 2 /\ \A i \in 0..(n - p) : line[p + i] = t[c + i + 1]
  BY <1>1 DEF LineIs
<1>4. 0 \in 0..(n - p) /\ p + 0 = p /\ c + 0 + 1 = c + 1
  BY <1>2
<1>5. line[p] = t[c + 1]
  <2>1. line[p + 0] = t[c + 0 + 1]
    BY <1>3, <1>4
  <2>2. QED
    BY <1>4, <2>1
<1>6. e \in Nat /\ c + 2 =< e
  BY <1>2, <1>3
<1>7. CASE p < n
  <2>1. 1 \in 0..(n - p) /\ c + 1 + 1 = c + 2 /\ c + 2 < e
    BY <1>2, <1>3, <1>7
  <2>2. line[p + 1] = t[c + 1 + 1]
    BY <1>3, <2>1
  <2>3. QED
    BY <1>1, <1>5, <1>6, <1>7, <2>1, <2>2 DEF Char
<1>8. CASE ~(p < n)
  <2>1. e = c + 2
    BY <1>2, <1>3, <1>8
  <2>2. QED
    BY <1>1, <1>5, <1>6, <1>8, <2>1 DEF Char
<1>9. QED
  BY <1>7, <1>8

\* Where the line ends: in a row at a newline, in a list with the last field.
EndsAt(t, R, fields, closed, q, e) ==
  IF closed
  THEN /\ t[R + Start(fields, Len(fields) + 1) + 1] = NewLine /\ t[e] = NewLine
       /\ \A i \in (R + q + 1)..(e - 1) : t[i] # NewLine
  ELSE /\ fields # << >> /\ ~fields[Len(fields)].quoted
       /\ e = R + Start(fields, Len(fields) + 1)

\* A step within a line reads on in the fields that were written.
Advances(fields, q) == \E d \in 1..2 : pos' = pos + d /\ Reading(fields, q + d)'

LEMMA FieldBegins ==
  ASSUME Types, InLine, SplitChar,
         NEW fields, WellFormed(fields), NEW k \in 1..(Len(fields) + 1), NEW q \in Nat,
         NEW t, NEW R \in Nat, NEW closed \in BOOLEAN, LaidOut(t, R, fields, closed),
         NEW e, LineIs(t, R + q, e), EndsAt(t, R, fields, closed, q, e),
         elements = SubSeq(Texts(fields), 1, k - 1), AtField(fields, k, q)
  PROVE  Advances(fields, q)
<1> DEFINE n == Len(fields)
           text == fields[k].text
           st(i) == Start(fields, i)
<1>1. fields \in Seq(Fields) /\ n \in Nat
  BY FieldsAre DEF WellFormed
<1>2. /\ first /\ ~escaped /\ s = << >> /\ q = st(k)
  BY DEF AtField
<1>3. R + q \in Nat /\ R + q + 1 \in Nat
  OBVIOUS
<1>4. /\ Char = t[R + q + 1] /\ e \in Nat /\ R + q + 2 =< e
  BY <1>3, NextChars
<1>5. closed => Char # NewLine
  <2>1. R + q + 1 \in (R + q + 1)..(e - 1)
    BY <1>4
  <2>2. QED
    BY <1>4, <2>1 DEF EndsAt
<1>6. k # n + 1
  <2>1. CASE closed
    <3>1. t[R + st(n + 1) + 1] = NewLine
      BY <2>1 DEF EndsAt
    <3>2. QED
      BY <1>2, <1>4, <1>5, <2>1, <3>1
  <2>2. CASE ~closed
    <3>1. e = R + st(n + 1)
      BY <2>2 DEF EndsAt
    <3>2. e # R + q
      BY <1>4
    <3>3. QED
      BY <1>2, <3>1, <3>2
  <2>3. QED
    BY <2>1, <2>2
<1>7. k \in 1..n
  BY <1>1, <1>6
<1>8. text \in Seq(Characters) /\ Len(text) \in Nat /\ DOMAIN text = 1..Len(text)
  BY <1>1, <1>7, FieldsAre, FieldIs
<1>9. SubSeq(text, 1, 0) = << >>
  BY <1>8, PrefixGrows
<1>10. CASE fields[k].quoted
  <2>1. t[R + q + 1] = Quote /\ At(fields, k, 0) = q + 1
    <3>1. QuotedLaid(t, R, fields, k, closed)
      BY <1>1, <1>7, <1>10, QuotedPlaces
    <3>2. QED
      BY <1>2, <3>1 DEF QuotedLaid
  <2>2. StartQuoted
    BY <1>2, <1>4, <2>1, Branches
  <2>3. escaped' /\ ~first' /\ s' = s /\ elements' = elements /\ pos' = pos + 1
    BY <2>2 DEF StartQuoted
  <2>4. InQuoted(fields, k, q + 1)'
    <3>1. 0 \in 0..Len(text) /\ s' = SubSeq(text, 1, 0) /\ q + 1 = At(fields, k, 0)
      BY <1>2, <1>8, <1>9, <2>1, <2>3
    <3>2. QED
      BY <1>7, <1>10, <2>3, <3>1 DEF InQuoted
  <2>5. Reading(fields, q + 1)'
    BY <2>3, <2>4 DEF Reading, ReadingAt
  <2>6. QED
    BY <2>3, <2>5 DEF Advances
<1>11. CASE ~fields[k].quoted
  <2>1. /\ \A j \in 0..Len(text) : At(fields, k, j) = st(k) + j
        /\ \A j \in 0..(Len(text) - 1) : t[R + At(fields, k, j) + 1] = text[j + 1]
        /\ At(fields, k, Len(text)) + 1 = st(k + 1)
        /\ k < n \/ closed => t[R + At(fields, k, Len(text)) + 1] = Separator
    <3>1. PlainLaid(t, R, fields, k, closed)
      BY <1>1, <1>7, <1>11, PlainPlaces
    <3>2. QED
      BY <3>1 DEF PlainLaid
  <2>2. q + 0 = q /\ 0 \in 0..Len(text)
    BY <1>8
  <2>3. At(fields, k, 0) = q
    BY <1>2, <2>1, <2>2
  <2>4. CASE Len(text) # 0
    <3>1. 0 \in 0..(Len(text) - 1) /\ 0 + 1 = 1 /\ 1 \in 0..Len(text) /\ 1 \in DOMAIN text
      BY <1>8, <2>4
    <3>2. Char = text[1]
      BY <1>4, <2>1, <2>3, <3>1
    <3>3. Char # Separator /\ Char # Quote
      BY <1>7, <1>11, <3>1, <3>2, FieldsAre DEF WellFormed
    <3>4. StartPlain
      BY <1>2, <3>3, Branches
    <3>5. s' = Append(s, Char) /\ ~first' /\ pos' = pos + 1 /\ ~escaped' /\ elements' = elements
      BY <1>2, <3>4 DEF StartPlain
    <3>6. Reading(fields, At(fields, k, 0 + 1))'
      <4>1. s = SubSeq(text, 1, 0) /\ s' = Append(s, text[0 + 1])
        BY <1>2, <1>9, <3>1, <3>2, <3>5
      <4>2. QED
        BY <1>1, <1>7, <1>11, <3>1, <3>5, <4>1, FieldGrows
    <3>7. At(fields, k, 0 + 1) = q + 1
      BY <1>2, <2>1, <3>1
    <3>8. QED
      BY <3>5, <3>6, <3>7 DEF Advances
  <2>5. CASE Len(text) = 0
    <3>1. At(fields, k, Len(text)) = q /\ st(k + 1) = q + 1
      BY <2>1, <2>3, <2>5
    <3>2. k < n \/ closed
      <4> SUFFICES ASSUME ~(k < n), ~closed PROVE FALSE
        OBVIOUS
      <4>1. k = n /\ e = R + st(k + 1)
        BY <1>1, <1>7 DEF EndsAt
      <4>2. e = R + q + 1
        BY <3>1, <4>1
      <4>3. QED
        BY <1>4, <4>2
    <3>3. Char = Separator
      BY <1>4, <2>1, <3>1, <3>2
    <3>4. EndPlain
      BY <1>2, <3>3, Branches
    <3>5. elements' = Append(elements, s) /\ Begin /\ pos' = pos + 1
      BY <3>4 DEF EndPlain, FieldDone
    <3>6. s = text
      BY <1>2, <1>8, <2>5, EmptySeq
    <3>7. Reading(fields, st(k + 1))'
      BY <1>1, <1>7, <3>5, <3>6, FieldEnds
    <3>8. QED
      BY <3>1, <3>5, <3>7 DEF Advances
  <2>6. QED
    BY <2>4, <2>5
<1>12. QED
  BY <1>10, <1>11

LEMMA QuotedGoesOn ==
  ASSUME Types, InLine, SplitChar,
         NEW fields, WellFormed(fields), NEW k \in 1..Len(fields), NEW q \in Nat,
         NEW t, NEW R \in Nat, NEW closed \in BOOLEAN, LaidOut(t, R, fields, closed),
         NEW e, LineIs(t, R + q, e), EndsAt(t, R, fields, closed, q, e),
         elements = SubSeq(Texts(fields), 1, k - 1), InQuoted(fields, k, q)
  PROVE  Advances(fields, q)
<1> DEFINE n == Len(fields)
           text == fields[k].text
           st(i) == Start(fields, i)
           a(i) == At(fields, k, i)
<1>1. fields \in Seq(Fields) /\ n \in Nat
  BY FieldsAre DEF WellFormed
<1>2. text \in Seq(Characters) /\ Len(text) \in Nat
  BY <1>1, FieldsAre, FieldIs
<1>3. ~first /\ escaped /\ fields[k].quoted
  BY DEF InQuoted
<1>4. PICK j \in 0..Len(text) : s = SubSeq(text, 1, j) /\ q = a(j)
  BY DEF InQuoted
<1>5. /\ Char = t[R + q + 1] /\ e \in Nat /\ R + q + 2 =< e
      /\ IF pos < Len(line) THEN line[pos + 1] = t[R + q + 2] /\ R + q + 2 < e ELSE e = R + q + 2
  <2>1. R + q \in Nat
    OBVIOUS
  <2>2. QED
    BY <2>1, NextChars
<1>6. /\ \A i \in 0..(Len(text) - 1) :
           IF text[i + 1] = Quote
           THEN a(i + 1) = a(i) + 2 /\ t[R + a(i) + 1] = Quote /\ t[R + a(i) + 2] = Quote
           ELSE a(i + 1) = a(i) + 1 /\ t[R + a(i) + 1] = text[i + 1]
      /\ \A i \in 0..Len(text) : a(i) \in Nat /\ a(i) + 2 =< st(k + 1)
      /\ a(Len(text)) + 2 = st(k + 1) /\ t[R + a(Len(text)) + 1] = Quote
      /\ k < n \/ closed => t[R + a(Len(text)) + 2] = Separator
  <2>1. QuotedLaid(t, R, fields, k, closed)
    BY <1>1, <1>3, QuotedPlaces
  <2>2. QED
    BY <2>1 DEF QuotedLaid
<1>7. Quote # Separator /\ Quote # NewLine /\ Separator # NewLine
  BY DEF Quote, Separator, NewLine
<1>8. closed => t[e] = NewLine
  BY DEF EndsAt
<1>9. ~closed => ~fields[n].quoted /\ e = R + st(n + 1)
  BY DEF EndsAt
<1>10. ~closed => k < n /\ st(k + 1) < st(n + 1)
  <2> SUFFICES ASSUME ~closed PROVE k < n /\ st(k + 1) < st(n + 1)
    OBVIOUS
  <2>1. k # n
    BY <1>3, <1>9
  <2>2. k + 1 \in 1..n /\ (k + 1) + 1 \in 1..(n + 1) /\ n + 1 \in 1..(n + 1)
        /\ (k + 1) + 1 =< n + 1 /\ k < n /\ k + 1 \in 1..(n + 1)
    BY <1>1, <2>1
  <2>3. st((k + 1) + 1) = st(k + 1) + Len(FieldText(fields[k + 1])) + 1 /\ st((k + 1) + 1) =< st(n + 1)
        /\ st(k + 1) \in Nat /\ st((k + 1) + 1) \in Nat /\ st(n + 1) \in Nat
    BY <1>1, <2>2, Starts
  <2>4. Len(FieldText(fields[k + 1])) \in Nat
    BY <1>1, <2>2, ClosedIs
  <2>5. QED
    BY <2>2, <2>3, <2>4
\* The line does not end in front of the second character of a pair within the field.
<1>11. t[R + q + 1] = Quote /\ t[R + q + 2] # NewLine /\ q + 2 =< st(k + 1) => pos < Len(line)
  <2> SUFFICES ASSUME q + 2 =< st(k + 1), t[R + q + 2] # NewLine, ~(pos < Len(line)) PROVE FALSE
    OBVIOUS
  <2>1. e = R + q + 2
    BY <1>5
  <2>2. CASE closed
    BY <1>8, <2>1, <2>2
  <2>3. CASE ~closed
    <3>1. st(k + 1) \in Nat /\ st(n + 1) \in Nat
      <4>1. k + 1 \in 1..(n + 1) /\ n + 1 \in 1..(n + 1)
        BY <1>1
      <4>2. QED
        BY <1>1, <4>1, Starts
    <3>2. e = R + st(n + 1) /\ st(k + 1) < st(n + 1)
      BY <1>9, <1>10, <2>3
    <3>3. QED
      BY <2>1, <3>1, <3>2
  <2>4. QED
    BY <2>2, <2>3
<1>12. elements' = elements /\ s' = Append(s, text[j + 1]) /\ ~first' /\ escaped' /\ j < Len(text)
       => Reading(fields, a(j + 1))'
  <2> SUFFICES ASSUME elements' = elements, s' = Append(s, text[j + 1]), ~first', escaped', j < Len(text)
               PROVE  Reading(fields, a(j + 1))'
    OBVIOUS
  <2>1. j \in 0..(Len(text) - 1)
    BY <1>2
  <2>2. QED
    BY <1>1, <1>3, <1>4, <2>1, FieldGrows
<1>13. CASE j < Len(text) /\ text[j + 1] = Quote
  <2>1. j \in 0..(Len(text) - 1)
    BY <1>2, <1>13
  <2>2. a(j + 1) = q + 2 /\ t[R + q + 1] = Quote /\ t[R + q + 2] = Quote /\ q + 2 =< st(k + 1)
    BY <1>4, <1>6, <1>13, <2>1
  <2>3. pos < Len(line) /\ line[pos + 1] = Quote
    BY <1>5, <1>7, <1>11, <2>2
  <2>4. QuoteWithin
    BY <1>3, <1>5, <1>7, <2>2, <2>3, Branches
  <2>5. s' = Append(s, Quote) /\ pos' = pos + 2 /\ first' = first /\ escaped' = escaped /\ elements' = elements
    BY <2>4 DEF QuoteWithin
  <2>6. Reading(fields, q + 2)'
    BY <1>3, <1>12, <1>13, <2>2, <2>5
  <2>7. QED
    BY <2>5, <2>6 DEF Advances
<1>14. CASE j < Len(text) /\ text[j + 1] # Quote
  <2>1. j \in 0..(Len(text) - 1)
    BY <1>2, <1>14
  <2>2. a(j + 1) = q + 1 /\ Char = text[j + 1]
    BY <1>4, <1>5, <1>6, <1>14, <2>1
  <2>3. CharWithin
    BY <1>3, <1>14, <2>2, Branches
  <2>4. s' = Append(s, Char) /\ pos' = pos + 1 /\ first' = first /\ escaped' = escaped /\ elements' = elements
    BY <2>3 DEF CharWithin
  <2>5. Reading(fields, q + 1)'
    BY <1>3, <1>12, <1>14, <2>2, <2>4
  <2>6. QED
    BY <2>4, <2>5 DEF Advances
<1>15. CASE j = Len(text)
  <2>1. k < n \/ closed
    BY <1>10
  <2>2. q + 2 = st(k + 1) /\ t[R + q + 1] = Quote /\ t[R + q + 2] = Separator
    BY <1>4, <1>6, <1>15, <2>1
  <2>3. q + 2 =< st(k + 1)
    BY <2>2
  <2>4. pos < Len(line) /\ line[pos + 1] = Separator
    BY <1>5, <1>7, <1>11, <2>2, <2>3
  <2>5. EndQuoted
    BY <1>3, <1>5, <2>2, <2>4, Branches
  <2>6. elements' = Append(elements, s) /\ Begin /\ pos' = pos + 2
    BY <2>5 DEF EndQuoted, FieldDone
  <2>7. s = text
    BY <1>2, <1>4, <1>15, PrefixGrows
  <2>8. Reading(fields, st(k + 1))'
    BY <1>1, <2>6, <2>7, FieldEnds
  <2>9. QED
    BY <2>2, <2>6, <2>8 DEF Advances
<1>16. QED
  BY <1>2, <1>13, <1>14, <1>15

LEMMA PlainGoesOn ==
  ASSUME Types, InLine, SplitChar,
         NEW fields, WellFormed(fields), NEW k \in 1..Len(fields), NEW q \in Nat,
         NEW t, NEW R \in Nat, NEW closed \in BOOLEAN, LaidOut(t, R, fields, closed),
         NEW e, LineIs(t, R + q, e), EndsAt(t, R, fields, closed, q, e),
         elements = SubSeq(Texts(fields), 1, k - 1), InPlain(fields, k, q)
  PROVE  Advances(fields, q)
<1> DEFINE n == Len(fields)
           text == fields[k].text
           st(i) == Start(fields, i)
           a(i) == At(fields, k, i)
<1>1. fields \in Seq(Fields) /\ n \in Nat
  BY FieldsAre DEF WellFormed
<1>2. text \in Seq(Characters) /\ Len(text) \in Nat /\ DOMAIN text = 1..Len(text)
  BY <1>1, FieldsAre, FieldIs
<1>3. ~first /\ ~escaped /\ ~fields[k].quoted
  BY DEF InPlain
<1>4. PICK j \in 1..Len(text) : s = SubSeq(text, 1, j) /\ q = a(j)
  BY DEF InPlain
<1>5. /\ Char = t[R + q + 1] /\ e \in Nat /\ R + q + 2 =< e
  <2>1. R + q \in Nat
    OBVIOUS
  <2>2. QED
    BY <2>1, NextChars
<1>6. /\ \A i \in 0..Len(text) : a(i) = st(k) + i
      /\ \A i \in 0..(Len(text) - 1) : t[R + a(i) + 1] = text[i + 1]
      /\ a(Len(text)) + 1 = st(k + 1)
      /\ k < n \/ closed => t[R + a(Len(text)) + 1] = Separator
  <2>1. PlainLaid(t, R, fields, k, closed)
    BY <1>1, <1>3, PlainPlaces
  <2>2. QED
    BY <2>1 DEF PlainLaid
<1>7. st(k) \in Nat
  <2>1. k \in 1..(n + 1)
    BY <1>1
  <2>2. QED
    BY <1>1, <2>1, Starts
<1>8. CASE j < Len(text)
  <2>1. j \in 0..(Len(text) - 1) /\ j \in 0..Len(text) /\ j + 1 \in 0..Len(text) /\ j + 1 \in DOMAIN text
    <3>1. PICK z \in Nat : z = Len(text)
      BY <1>2
    <3>2. j \in 1..z /\ j < z
      BY <1>8, <3>1
    <3>3. j \in 0..(z - 1) /\ j \in 0..z /\ j + 1 \in 0..z /\ j + 1 \in 1..z
      BY <3>2
    <3>4. QED
      BY <1>2, <3>1, <3>3
  <2>2. Char = text[j + 1]
    BY <1>4, <1>5, <1>6, <2>1
  <2>3. Char # Separator
    BY <1>3, <1>1, <2>1, <2>2, FieldsAre DEF WellFormed
  <2>4. CharWithin
    BY <1>3, <2>3, Branches
  <2>5. s' = Append(s, Char) /\ pos' = pos + 1 /\ first' = first /\ escaped' = escaped /\ elements' = elements
    BY <2>4 DEF CharWithin
  <2>6. Reading(fields, a(j + 1))'
    BY <1>1, <1>3, <1>4, <2>1, <2>2, <2>5, FieldGrows
  <2>7. a(j + 1) = q + 1
    <3>1. a(j + 1) = st(k) + (j + 1) /\ q = st(k) + j
      BY <1>4, <1>6, <2>1
    <3>2. QED
      BY <1>7, <3>1
  <2>8. QED
    BY <2>5, <2>6, <2>7 DEF Advances
<1>9. CASE j = Len(text)
  <2>1. k < n \/ closed
    <3> SUFFICES ASSUME ~(k < n), ~closed PROVE FALSE
      OBVIOUS
    <3>1. k = n /\ e = R + st(k + 1)
      BY <1>1 DEF EndsAt
    <3>2. e = R + q + 1
      BY <1>4, <1>6, <1>9, <3>1
    <3>3. QED
      BY <1>5, <3>2
  <2>2. q + 1 = st(k + 1) /\ Char = Separator
    BY <1>4, <1>5, <1>6, <1>9, <2>1
  <2>3. EndPlain
    BY <1>3, <2>2, Branches
  <2>4. elements' = Append(elements, s) /\ Begin /\ pos' = pos + 1
    BY <2>3 DEF EndPlain, FieldDone
  <2>5. s = text
    BY <1>2, <1>4, <1>9, PrefixGrows
  <2>6. Reading(fields, st(k + 1))'
    BY <1>1, <2>4, <2>5, FieldEnds
  <2>7. QED
    BY <2>2, <2>4, <2>6 DEF Advances
<1>10. QED
  BY <1>2, <1>8, <1>9

LEMMA SplitAdvances ==
  ASSUME Types, InLine, SplitChar,
         NEW fields, WellFormed(fields), NEW q \in Nat, Reading(fields, q),
         NEW t, NEW R \in Nat, NEW closed \in BOOLEAN, LaidOut(t, R, fields, closed),
         NEW e, LineIs(t, R + q, e), EndsAt(t, R, fields, closed, q, e)
  PROVE  Advances(fields, q)
<1>1. PICK k \in 1..(Len(fields) + 1) : ReadingAt(fields, k, q)
  BY DEF Reading
<1>2. elements = SubSeq(Texts(fields), 1, k - 1)
  BY <1>1 DEF ReadingAt
<1>3. CASE AtField(fields, k, q)
  BY <1>2, <1>3, FieldBegins
<1>4. CASE InQuoted(fields, k, q)
  <2>1. k \in 1..Len(fields)
    BY <1>4 DEF InQuoted
  <2>2. QED
    BY <1>2, <1>4, <2>1, QuotedGoesOn
<1>5. CASE InPlain(fields, k, q)
  <2>1. k \in 1..Len(fields)
    BY <1>5 DEF InPlain
  <2>2. QED
    BY <1>2, <1>5, <2>1, PlainGoesOn
<1>6. QED
  BY <1>1, <1>3, <1>4, <1>5 DEF ReadingAt

LEMMA RestOfLine ==
  ASSUME Types, Types', NEW t, NEW c \in Nat, NEW e, LineIs(t, c, e),
         NEW d \in 1..2, pos' = pos + d, line' = line
  PROVE  LineIs(t, c + d, e)'
<1>1. PICK n \in Nat, p \in Nat : n = Len(line) /\ p = pos
  BY LenProperties DEF Types, TypeOK
<1>2. p + d \in 1..(n + 1)
  BY <1>1 DEF Types, TypeOK
<1>3. e = c + (n - p) + 2 /\ \A i \in 0..(n - p) : line[p + i] = t[c + i + 1]
  BY <1>1 DEF LineIs
<1>4. e = (c + d) + (n - (p + d)) + 2
  BY <1>2, <1>3
<1>5. ASSUME NEW i \in 0..(n - (p + d)) PROVE line[(p + d) + i] = t[(c + d) + i + 1]
  <2>1. d + i \in 0..(n - p) /\ p + (d + i) = (p + d) + i /\ c + (d + i) + 1 = (c + d) + i + 1
    BY <1>2
  <2>2. line[p + (d + i)] = t[c + (d + i) + 1]
    BY <1>3, <2>1
  <2>3. QED
    BY <2>1, <2>2
<1>6. QED
  BY <1>1, <1>4, <1>5 DEF LineIs

-----------------------------------------------------------------------------
(* Files: where in them the items are, and what is passed over.              *)

LEMMA SectionLaid ==
  ASSUME NEW name \in Seq(Characters)
  PROVE  LET u == SectionText(name)
             n == Len(name)
         IN  /\ u \in Seq(Characters) /\ n \in Nat /\ Len(u) = n + 3 /\ u[1] = Opening
             /\ \A i \in 1..n : u[1 + i] = name[i]
             /\ u[n + 2] = Closing /\ u[n + 3] = NewLine
<1>1. PICK a \in Seq(Characters) : a = <<Opening>> /\ Len(a) = 1 /\ a[1] = Opening
  BY MarksAreCharacters, SingleSeq
<1>2. PICK b \in Seq(Characters) : b = <<Closing, NewLine>> /\ Len(b) = 2 /\ b[1] = Closing /\ b[2] = NewLine
  <2>1. Closing \in Characters /\ NewLine \in Characters
    BY MarksAreCharacters
  <2>2. PICK x \in Characters, y \in Characters : x = Closing /\ y = NewLine
    BY <2>1
  <2>3. <<x, y>> \in Seq(Characters) /\ Len(<<x, y>>) = 2 /\ <<x, y>>[1] = x /\ <<x, y>>[2] = y
    BY PairSeq
  <2>4. QED
    BY <2>2, <2>3
<1>3. PICK n \in Nat : n = Len(name)
  BY LenProperties
<1>4. PICK v \in Seq(Characters) : v = a \o name
  BY ConcatAt
<1>5. /\ Len(v) = Len(a) + Len(name) /\ \A i \in 1..Len(a) : v[i] = a[i]
      /\ \A i \in 1..Len(name) : v[Len(a) + i] = name[i]
  BY <1>4, ConcatAt
<1>6. PICK u \in Seq(Characters) : u = v \o b
  BY ConcatAt
<1>7. /\ Len(u) = Len(v) + Len(b) /\ \A i \in 1..Len(v) : u[i] = v[i]
      /\ \A i \in 1..Len(b) : u[Len(v) + i] = b[i]
  BY <1>6, ConcatAt
<1>8. u = SectionText(name)
  BY <1>1, <1>2, <1>4, <1>6 DEF SectionText
<1>9. Len(v) = n + 1 /\ Len(u) = n + 3
  BY <1>1, <1>2, <1>3, <1>5, <1>7
<1>10. u[1] = Opening
  <2>1. 1 \in 1..Len(v) /\ 1 \in 1..Len(a)
    BY <1>1, <1>9
  <2>2. QED
    BY <1>1, <1>5, <1>7, <2>1
<1>11. \A i \in 1..n : u[1 + i] = name[i]
  <2> TAKE i \in 1..n
  <2>1. 1 + i \in 1..Len(v)
    BY <1>9
  <2>2. v[1 + i] = name[i]
    BY <1>1, <1>3, <1>5
  <2>3. QED
    BY <1>7, <2>1, <2>2
<1>12. u[n + 2] = Closing /\ u[n + 3] = NewLine
  <2>1. 1 \in 1..Len(b) /\ 2 \in 1..Len(b) /\ Len(v) + 1 = n + 2 /\ Len(v) + 2 = n + 3
    BY <1>2, <1>9
  <2>2. QED
    BY <1>2, <1>7, <2>1
<1>13. QED
  BY <1>3, <1>8, <1>9, <1>10, <1>11, <1>12

LEMMA ItemIs ==
  ASSUME NEW item \in Items, ItemWritten(item)
  PROVE  /\ ItemText(item) \in Seq(Characters) /\ Len(ItemText(item)) \in Nat
         /\ \/ /\ item.kind = "section" /\ SectionWritten(item.name) /\ item.name \in Seq(Characters)
               /\ ItemText(item) = SectionText(item.name) /\ SectionOf(item.name) = item
               /\ ReadOf(item) = item
            \/ /\ item.kind = "row" /\ RowWritten(item.fields) /\ item.fields \in Seq(Fields)
               /\ ItemText(item) = RowText(item.fields)
               /\ ReadOf(item) = Row(Append(Texts(item.fields), << >>))
<1>1. CASE item.kind = "section"
  <2>1. item \in [kind : {"section"}, name : Seq(Characters)] /\ SectionWritten(item.name)
    BY <1>1 DEF Items, ItemWritten
  <2>2. item.name \in Seq(Characters) /\ SectionOf(item.name) = item
    BY <2>1 DEF SectionOf
  <2>3. ItemText(item) = SectionText(item.name) /\ ReadOf(item) = item
    BY <1>1 DEF ItemText, ReadOf
  <2>4. ItemText(item) \in Seq(Characters)
    BY <2>2, <2>3, SectionLaid
  <2>5. QED
    BY <1>1, <2>1, <2>2, <2>3, <2>4, LenProperties
<1>2. CASE item.kind # "section"
  <2>1. item.kind = "row" /\ RowWritten(item.fields)
    BY <1>2 DEF ItemWritten
  <2>2. item.fields \in Seq(Fields)
    BY <2>1 DEF RowWritten, WellFormed
  <2>3. ItemText(item) = RowText(item.fields) /\ ReadOf(item) = Row(Append(Texts(item.fields), << >>))
    BY <1>2 DEF ItemText, ReadOf
  <2>4. RowText(item.fields) \in Seq(Characters)
    <3>1. PICK fields \in Seq(Fields) : fields = item.fields
      BY <2>2
    <3>2. PICK row : row = RowText(fields)
      OBVIOUS
    <3>3. \A i \in 1..Len(row) : 0 + i = i
      <4>1. \A i \in 1..Len(row) : i \in Int
        OBVIOUS
      <4>2. QED
        BY <4>1
    <3>4. \A i \in 1..Len(RowText(fields)) : row[0 + i] = RowText(fields)[i]
      BY <3>2, <3>3
    <3>5. 0 \in Nat
      OBVIOUS
    <3>6. RowText(fields) \in Seq(Characters)
      BY <3>4, <3>5, RowLaid
    <3>7. QED
      BY <3>1, <3>6
  <2>5. QED
    BY <2>1, <2>2, <2>3, <2>4, LenProperties
<1>3. QED
  BY <1>1, <1>2

\* The characters up to the end of item k.
EndOf(items, passed, k) == Off(Pieces(items, passed))[k]

\* Where the items stand in the text of a file, and what is passed over in front of each
\* and behind the last; a rest may follow.
FileLaid(t, items, passed) ==
  LET n == Len(items)
      d(k) == EndOf(items, passed, k)
      m(k) == Len(passed[k])
  IN  /\ n \in Nat /\ t \in Seq(Characters) /\ Len(t) \in Nat
      /\ d(0) = 0 /\ \A k \in 0..n : d(k) \in Nat /\ d(k) =< Len(t)
      /\ \A k \in 1..(n + 1) :
           /\ passed[k] \in Seq(Characters) /\ m(k) \in Nat /\ PassedOver(passed[k])
           /\ \A i \in 1..m(k) : t[d(k - 1) + i] = passed[k][i]
      /\ \A k \in 1..n :
           /\ items[k] \in Items /\ ItemWritten(items[k])
           /\ d(k) = d(k - 1) + m(k) + Len(ItemText(items[k]))
           /\ \A i \in 1..Len(ItemText(items[k])) : t[d(k - 1) + m(k) + i] = ItemText(items[k])[i]
      /\ d(n) + m(n + 1) =< Len(t)

LEMMA FileIs ==
  ASSUME NEW t, NEW items, NEW passed, NEW rest, FileWritten(t, items, passed, rest)
  PROVE  /\ FileLaid(t, items, passed)
         /\ rest = << >> => Len(t) = EndOf(items, passed, Len(items)) + Len(passed[Len(items) + 1])
<1> DEFINE n == Len(items)
           P == Pieces(items, passed)
           d(k) == EndOf(items, passed, k)
           m(k) == Len(passed[k])
           it(k) == ItemText(items[k])
           flat == FlattenSeq(P)
           gap == passed[n + 1]
           last == gap \o rest
<1>1. n \in Nat /\ DOMAIN items = 1..n /\ \A k \in 1..n : items[k] \in Items /\ ItemWritten(items[k])
  BY LenProperties, ElementOfSeq DEF FileWritten
<1>2. \A k \in 1..(n + 1) : passed[k] \in Seq(Characters) /\ m(k) \in Nat /\ PassedOver(passed[k])
  <2>1. passed \in Seq(Seq(Characters)) /\ Len(passed) = n + 1
    BY DEF FileWritten
  <2>2. DOMAIN passed = 1..(n + 1) /\ \A k \in 1..(n + 1) : passed[k] \in Seq(Characters)
    BY <2>1, LenProperties, ElementOfSeq
  <2>3. QED
    BY <2>2, LenProperties DEF FileWritten
<1>3. t = flat \o last
  BY DEF FileWritten, FileText
<1>4. P = [k \in 1..n |-> passed[k] \o it(k)]
  BY <1>1 DEF Pieces
<1>5. \A k \in 1..n : k \in 1..(n + 1) /\ it(k) \in Seq(Characters) /\ Len(it(k)) \in Nat
  BY <1>1, ItemIs
<1>6. d(0) = Off(P)[0] /\ \A k : d(k) = Off(P)[k]
  BY DEF EndOf
<1> HIDE DEF P, d, m, it, flat, gap, last, n
<1>7. ASSUME NEW k \in 1..n
      PROVE  /\ passed[k] \o it(k) \in Seq(Characters)
             /\ Len(passed[k] \o it(k)) = m(k) + Len(it(k))
             /\ \A i \in 1..m(k) : (passed[k] \o it(k))[i] = passed[k][i]
             /\ \A i \in 1..Len(it(k)) : (passed[k] \o it(k))[m(k) + i] = it(k)[i]
  <2>1. PICK a \in Seq(Characters), b \in Seq(Characters) : a = passed[k] /\ b = it(k)
    BY <1>2, <1>5
  <2>2. /\ a \o b \in Seq(Characters) /\ Len(a \o b) = Len(a) + Len(b)
        /\ \A j \in 1..Len(a) : (a \o b)[j] = a[j]
        /\ \A j \in 1..Len(b) : (a \o b)[Len(a) + j] = b[j]
    BY ConcatAt
  <2>3. Len(a) = m(k)
    BY <2>1 DEF m
  <2>4. QED
    BY <2>1, <2>2, <2>3
<1>8. P \in Seq(Seq(Characters)) /\ Len(P) = n /\ \A k \in 1..n : P[k] = passed[k] \o it(k)
  BY <1>1, <1>4, <1>7
<1>9. flat \in Seq(Characters) /\ PlacedAt(P, flat, Off(P))
  BY <1>8, OffPlaces DEF flat
<1>10. /\ d(0) = 0 /\ d(n) = Len(flat) /\ \A k \in 0..n : d(k) \in Nat
       /\ \A k \in 1..n : /\ d(k) = d(k - 1) + Len(P[k])
                          /\ \A i \in 1..Len(P[k]) : flat[d(k - 1) + i] = P[k][i]
       /\ \A k, l \in 0..n : k =< l => d(k) =< d(l)
  BY <1>6, <1>8, <1>9 DEF PlacedAt
<1>11. /\ last \in Seq(Characters) /\ Len(last) \in Nat /\ m(n + 1) \in Nat /\ m(n + 1) =< Len(last)
       /\ \A i \in 1..m(n + 1) : last[i] = gap[i]
       /\ rest = << >> => Len(last) = m(n + 1)
  <2>1. n + 1 \in 1..(n + 1)
    BY <1>1
  <2>2. PICK a \in Seq(Characters), b \in Seq(Characters) : a = gap /\ b = rest
    BY <1>2, <2>1 DEF gap, FileWritten
  <2>3. /\ a \o b \in Seq(Characters) /\ Len(a \o b) = Len(a) + Len(b)
        /\ \A j \in 1..Len(a) : (a \o b)[j] = a[j]
    BY ConcatAt
  <2>4. Len(a) = m(n + 1) /\ last = a \o b
    BY <2>2 DEF gap, last, m
  <2>5. Len(a) \in Nat /\ Len(b) \in Nat /\ (b = << >> => Len(b) = 0)
    BY LenProperties, EmptySeq
  <2>6. QED
    BY <2>2, <2>3, <2>4, <2>5
<1>12. /\ t \in Seq(Characters) /\ Len(t) = Len(flat) + Len(last)
       /\ \A i \in 1..Len(flat) : t[i] = flat[i]
       /\ \A i \in 1..Len(last) : t[Len(flat) + i] = last[i]
  <2>1. PICK a \in Seq(Characters), b \in Seq(Characters) : a = flat /\ b = last
    BY <1>9, <1>11
  <2>2. /\ a \o b \in Seq(Characters) /\ Len(a \o b) = Len(a) + Len(b)
        /\ \A j \in 1..Len(a) : (a \o b)[j] = a[j]
        /\ \A j \in 1..Len(b) : (a \o b)[Len(a) + j] = b[j]
    BY ConcatAt
  <2>3. QED
    BY <1>3, <2>1, <2>2, Zenon
<1>13. /\ d(n) + m(n + 1) =< Len(t) /\ d(n) \in Nat /\ Len(t) \in Nat /\ d(n) =< Len(t)
       /\ rest = << >> => Len(t) = d(n) + m(n + 1)
  <2>1. n \in 0..n
    BY <1>1
  <2>2. d(n) \in Nat
    BY <1>10, <2>1
  <2>3. PICK x \in Nat, y \in Nat, z \in Nat : /\ x = d(n) /\ y = m(n + 1) /\ z = Len(last) /\ y =< z
                                             /\ Len(t) = x + z /\ (rest = << >> => z = y)
    BY <1>10, <1>11, <1>12, <2>2
  <2>4. QED
    BY <2>3
<1>14. \A k \in 0..n : d(k) \in Nat /\ d(k) =< d(n) /\ d(k) =< Len(t)
  <2> TAKE k \in 0..n
  <2>1. n \in 0..n /\ k =< n
    BY <1>1
  <2>2. d(k) \in Nat /\ d(k) =< d(n)
    BY <1>10, <2>1
  <2>3. QED
    BY <1>13, <2>2
<1>15. ASSUME NEW k \in 1..n
       PROVE  /\ d(k) = d(k - 1) + m(k) + Len(it(k))
              /\ \A i \in 1..m(k) : t[d(k - 1) + i] = passed[k][i]
              /\ \A i \in 1..Len(it(k)) : t[d(k - 1) + m(k) + i] = it(k)[i]
  <2>1. k - 1 \in 0..n /\ k \in 0..n /\ k \in 1..(n + 1)
    BY <1>1
  <2>2. PICK a \in Nat, b \in Nat, c \in Nat, f \in Nat :
          a = d(k - 1) /\ b = m(k) /\ c = Len(it(k)) /\ f = d(n) /\ d(k) =< f
    BY <1>2, <1>5, <1>13, <1>14, <2>1
  <2>3. Len(P[k]) = b + c
    BY <1>7, <1>8, <2>2
  <2>4. d(k) = a + (b + c)
    BY <1>10, <2>2, <2>3
  <2>5. a + (b + c) =< f
    BY <2>2, <2>4
  <2>6. ASSUME NEW i \in 1..(b + c) PROVE t[a + i] = P[k][i]
    <3>1. i \in Nat /\ 1 =< i /\ i =< b + c
      BY <2>2
    <3>2. a + i \in 1..f
      BY <2>5, <3>1
    <3>3. t[a + i] = flat[a + i]
      <4>1. Len(flat) = f
        BY <1>10, <2>2
      <4>2. a + i \in 1..Len(flat)
        BY <3>2, <4>1
      <4>3. QED
        BY <1>12, <4>2, Zenon
    <3>4. flat[a + i] = P[k][i]
      BY <1>10, <2>2, <2>3
    <3>5. QED
      BY <3>3, <3>4
  <2>7. ASSUME NEW i \in 1..b PROVE t[a + i] = passed[k][i]
    <3>1. i \in 1..(b + c)
      BY <2>2
    <3>2. P[k][i] = passed[k][i]
      <4>1. i \in 1..m(k)
        BY <2>2
      <4>2. QED
        BY <1>7, <1>8, <4>1, Zenon
    <3>3. QED
      BY <2>6, <3>1, <3>2
  <2>8. ASSUME NEW i \in 1..c PROVE t[a + b + i] = it(k)[i]
    <3>1. b + i \in 1..(b + c) /\ a + (b + i) = a + b + i
      BY <2>2
    <3>2. P[k][b + i] = it(k)[i]
      <4>1. i \in 1..Len(it(k)) /\ b = m(k)
        BY <2>2
      <4>2. QED
        BY <1>7, <1>8, <4>1, Zenon
    <3>3. QED
      BY <2>6, <3>1, <3>2
  <2>9. d(k) = a + b + c
    BY <2>2, <2>4
  <2>10. QED
    BY <2>2, <2>7, <2>8, <2>9
<1>16. \A i \in 1..m(n + 1) : t[d((n + 1) - 1) + i] = passed[n + 1][i]
  <2>1. (n + 1) - 1 = n
    BY <1>1
  <2>2. ASSUME NEW i \in 1..m(n + 1) PROVE t[d(n) + i] = gap[i]
    <3>1. i \in 1..Len(last)
      BY <1>11
    <3>2. QED
      BY <1>10, <1>11, <1>12, <3>1
  <2>3. QED
    BY <2>1, <2>2 DEF gap
<1>17. \A k \in 1..(n + 1) : \A i \in 1..m(k) : t[d(k - 1) + i] = passed[k][i]
  <2> TAKE k \in 1..(n + 1)
  <2>1. k = n + 1 \/ k \in 1..n
    BY <1>1
  <2>2. QED
    BY <1>15, <1>16, <2>1
<1>18. FileLaid(t, items, passed)
  BY <1>1, <1>2, <1>10, <1>12, <1>13, <1>14, <1>15, <1>17 DEF FileLaid, n, d, m, it
<1>19. QED
  BY <1>13, <1>18 DEF n, d, m

-----------------------------------------------------------------------------
(* Reading a file that was written.                                          *)

LEMMA TakesLine ==
  ASSUME NEW t \in Seq(Characters), NEW c \in Nat, NEW e \in Nat, FirstBehind(t, c, e, NewLine),
         input = Behind(t, c), GetLine
  PROVE  /\ eof' = FALSE /\ input' = Behind(t, e)
         /\ Taken \in Seq(Characters) /\ Len(Taken) = (e - c) - 1
         /\ \A i \in 1..((e - c) - 1) : Taken[i] = t[c + i]
<1>1. SplitsAt(Characters, t, c, e, NewLine)
  BY LineTaken
<1>2. Taken = Before(Behind(t, c), NewLine)
  BY DEF Taken
<1>3. QED
  BY <1>1, <1>2 DEF GetLine, SplitsAt

\* The line taken is the one that is split next.
LEMMA LineBegins ==
  ASSUME NEW t, NEW c \in Nat, NEW e \in Nat, c < e, Len(Taken) = (e - c) - 1,
         \A i \in 1..((e - c) - 1) : Taken[i] = t[c + i], line' = Taken, pos' = 1
  PROVE  LineIs(t, c, e)'
<1>1. e = c + (Len(Taken) - 1) + 2
  OBVIOUS
<1>2. ASSUME NEW i \in 0..(Len(Taken) - 1) PROVE Taken[1 + i] = t[c + i + 1]
  <2>1. 1 + i \in 1..((e - c) - 1) /\ c + (1 + i) = c + i + 1
    OBVIOUS
  <2>2. Taken[1 + i] = t[c + (1 + i)]
    BY <2>1
  <2>3. QED
    BY <2>1, <2>2
<1>3. QED
  BY <1>1, <1>2 DEF LineIs

RowIn(t, R, fields) ==
  /\ RowWritten(fields) /\ LaidOut(t, R, fields, TRUE)
  /\ t[R + Start(fields, Len(fields) + 1) + 1] = NewLine

\* No field begins with a newline, and the first not with a mark.
LEMMA FieldStarts ==
  ASSUME NEW t, NEW R \in Nat, NEW fields, RowIn(t, R, fields), NEW k \in 1..Len(fields)
  PROVE  /\ t[R + Start(fields, k) + 1] # NewLine
         /\ k = 1 => t[R + Start(fields, k) + 1] \notin {Comment, Opening}
<1> DEFINE text == fields[k].text
           n == Len(fields)
           c == t[R + Start(fields, k) + 1]
<1>1. fields \in Seq(Fields) /\ n \in Nat /\ WellFormed(fields) /\ LaidOut(t, R, fields, TRUE)
  BY FieldsAre DEF RowIn, RowWritten, WellFormed
<1>2. text \in Seq(Characters) /\ Len(text) \in Nat /\ DOMAIN text = 1..Len(text) /\ k \in DOMAIN fields
  BY <1>1, FieldsAre, FieldIs
<1>3. /\ Quote \notin {NewLine, Comment, Opening} /\ Separator \notin {NewLine, Comment, Opening}
  BY DEF Quote, Separator, NewLine, Comment, Opening
<1>4. CASE fields[k].quoted
  <2>1. QuotedLaid(t, R, fields, k, TRUE)
    BY <1>1, <1>4, QuotedPlaces
  <2>2. c = Quote
    BY <2>1 DEF QuotedLaid
  <2>3. QED
    BY <1>3, <2>2
<1>5. CASE ~fields[k].quoted
  <2>1. PlainLaid(t, R, fields, k, TRUE)
    BY <1>1, <1>5, PlainPlaces
  <2>2. /\ \A j \in 0..Len(text) : At(fields, k, j) = Start(fields, k) + j
        /\ \A j \in 0..(Len(text) - 1) : t[R + At(fields, k, j) + 1] = text[j + 1]
        /\ t[R + At(fields, k, Len(text)) + 1] = Separator
    BY <2>1 DEF PlainLaid
  <2>3. Start(fields, k) \in Nat
    <3>1. k \in 1..(n + 1)
      BY <1>1
    <3>2. QED
      BY <1>1, <3>1, Starts
  <2>4. At(fields, k, 0) = Start(fields, k)
    BY <1>2, <2>2, <2>3
  <2>5. CASE Len(text) = 0
    <3>1. c = Separator
      BY <2>2, <2>4, <2>5
    <3>2. QED
      BY <1>3, <3>1
  <2>6. CASE Len(text) # 0
    <3>1. 0 \in 0..(Len(text) - 1) /\ 0 + 1 = 1 /\ 1 \in DOMAIN text
      BY <1>2, <2>6
    <3>2. c = text[1]
      BY <2>2, <2>4, <3>1
    <3>3. text[1] # NewLine /\ (k = 1 => text[1] \notin {Comment, Opening})
      BY <1>2, <1>5, <3>1 DEF RowIn, RowWritten
    <3>4. QED
      BY <3>2, <3>3
  <2>7. QED
    BY <2>5, <2>6
<1>6. QED
  BY <1>4, <1>5

ReadTo(items, k) == [i \in 1..k |-> ReadOf(items[i])]

LEMMA ReadGrows ==
  ASSUME NEW items, Len(items) \in Nat, NEW k \in 1..Len(items)
  PROVE  Append(ReadTo(items, k - 1), ReadOf(items[k])) = ReadTo(items, k)
<1> DEFINE S == {ReadOf(items[i]) : i \in 1..Len(items)}
           a == ReadTo(items, k - 1)
           b == ReadTo(items, k)
           x == ReadOf(items[k])
<1>1. k - 1 \in Nat /\ k \in Nat /\ x \in S
  OBVIOUS
<1>2. a \in Seq(S) /\ Len(a) = k - 1 /\ \A i \in 1..(k - 1) : a[i] = ReadOf(items[i])
  BY <1>1 DEF ReadTo
<1>3. b \in Seq(S) /\ Len(b) = k /\ \A i \in 1..k : b[i] = ReadOf(items[i])
  BY <1>1 DEF ReadTo
<1> HIDE DEF S, a, b
<1>4. /\ Append(a, x) \in Seq(S) /\ Len(Append(a, x)) = Len(a) + 1
      /\ \A i \in 1..Len(a) : Append(a, x)[i] = a[i]
      /\ Append(a, x)[Len(a) + 1] = x
  BY <1>1, <1>2, AppendProperties
<1>5. ASSUME NEW i \in 1..k PROVE Append(a, x)[i] = b[i]
  <2>1. i = k \/ i \in 1..(k - 1)
    OBVIOUS
  <2>2. Len(a) + 1 = k
    BY <1>2
  <2>3. QED
    BY <1>2, <1>3, <1>4, <2>1, <2>2
<1>6. Len(Append(a, x)) = Len(b)
  BY <1>2, <1>3, <1>4
<1>7. \A i \in 1..Len(Append(a, x)) : Append(a, x)[i] = b[i]
  BY <1>3, <1>5, <1>6
<1>8. Append(a, x) = b
  BY <1>3, <1>4, <1>6, <1>7, SeqEqual
<1>9. QED
  BY <1>8 DEF a, b

\* Between two lines: in front of item k, m characters of what is passed over are gone.
BetweenAt(t, items, passed, k, m) ==
  /\ m = 0 \/ passed[k][m] = NewLine
  /\ input = Behind(t, EndOf(items, passed, k - 1) + m)
  /\ read = ReadTo(items, k - 1)
  /\ eof => k = Len(items) + 1 /\ m = Len(passed[k])

BetweenLines(t, items, passed) ==
  \E k \in 1..(Len(items) + 1) : \E m \in 0..Len(passed[k]) : BetweenAt(t, items, passed, k, m)

\* The characters in front of the row that is item k.
RowStart(items, passed, k) == EndOf(items, passed, k - 1) + Len(passed[k])

\* Behind the items and what is passed over, and there is a rest: whatever is read of it
\* comes behind the items.
Beyond(t, items, passed) ==
  /\ Len(t) # EndOf(items, passed, Len(items)) + Len(passed[Len(items) + 1])
  /\ \E S : read \in Seq(S) /\ BeginsWith(read, ReadTo(items, Len(items)))

\* Within item k, q of whose characters are read, in a line that ends in front of e.
InRowAt(t, items, passed, k, q, e) ==
  /\ items[k].kind = "row" /\ ~eof
  /\ LineIs(t, RowStart(items, passed, k) + q, e)
  /\ EndsAt(t, RowStart(items, passed, k), items[k].fields, TRUE, q, e)
  /\ Reading(items[k].fields, q)
  /\ input = Behind(t, e) /\ read = ReadTo(items, k - 1)

InRow(t, items, passed) ==
  \E k \in 1..Len(items) : \E q, e \in Nat : InRowAt(t, items, passed, k, q, e)

ItemsRead(t, items, passed) ==
  \/ pc = "next" /\ BetweenLines(t, items, passed)
  \/ pc = "split" /\ InRow(t, items, passed)
  \/ pc = "end" /\ read = ReadTo(items, Len(items))

FileRead(t, items, passed) == ItemsRead(t, items, passed) \/ Beyond(t, items, passed)

LEMMA Bounds ==
  ASSUME NEW t, NEW items, NEW passed, FileLaid(t, items, passed), NEW k \in 1..(Len(items) + 1)
  PROVE  /\ EndOf(items, passed, k - 1) \in Nat /\ Len(passed[k]) \in Nat
         /\ RowStart(items, passed, k) = EndOf(items, passed, k - 1) + Len(passed[k])
         /\ RowStart(items, passed, k) \in Nat /\ RowStart(items, passed, k) =< Len(t)
         /\ Len(items) \in Nat /\ Len(t) \in Nat /\ t \in Seq(Characters)
<1> DEFINE n == Len(items)
           d(i) == EndOf(items, passed, i)
           m(i) == Len(passed[i])
<1>1. /\ n \in Nat /\ Len(t) \in Nat /\ t \in Seq(Characters)
      /\ \A i \in 0..n : d(i) \in Nat /\ d(i) =< Len(t)
      /\ \A i \in 1..(n + 1) : m(i) \in Nat /\ passed[i] \in Seq(Characters)
      /\ \A i \in 1..n : items[i] \in Items /\ ItemWritten(items[i])
      /\ \A i \in 1..n : d(i) = d(i - 1) + m(i) + Len(ItemText(items[i]))
      /\ d(n) + m(n + 1) =< Len(t)
  BY DEF FileLaid
<1> HIDE DEF n, d, m
<1>2. k - 1 \in 0..n /\ k \in 1..(n + 1)
  BY <1>1 DEF n
<1>3. d(k - 1) \in Nat /\ m(k) \in Nat
  BY <1>1, <1>2
<1>4. d(k - 1) + m(k) =< Len(t)
  <2>1. CASE k = n + 1
    <3>1. k - 1 = n
      BY <1>1, <2>1
    <3>2. QED
      BY <1>1, <1>3, <2>1, <3>1
  <2>2. CASE k # n + 1
    <3>1. k \in 1..n /\ k \in 0..n
      BY <1>1, <1>2, <2>2
    <3>2. Len(ItemText(items[k])) \in Nat
      BY <1>1, <3>1, ItemIs
    <3>3. d(k) = d(k - 1) + m(k) + Len(ItemText(items[k])) /\ d(k) =< Len(t) /\ d(k) \in Nat
      BY <1>1, <3>1
    <3>4. PICK a \in Nat, b \in Nat, c \in Nat, z \in Nat :
            a = d(k - 1) /\ b = m(k) /\ c = Len(ItemText(items[k])) /\ z = Len(t) /\ a + b + c =< z
      BY <1>1, <1>3, <3>2, <3>3
    <3>5. QED
      BY <3>4
  <2>3. QED
    BY <2>1, <2>2
<1>5. QED
  BY <1>1, <1>3, <1>4 DEF RowStart, n, d, m

\* A row that is written as item k.
LEMMA RowThere ==
  ASSUME NEW t, NEW items, NEW passed, FileLaid(t, items, passed), NEW k \in 1..Len(items),
         items[k].kind = "row"
  PROVE  LET R == RowStart(items, passed, k)
             fields == items[k].fields
         IN  /\ RowIn(t, R, fields) /\ fields \in Seq(Fields) /\ Len(fields) \in Nat /\ fields # << >>
             /\ Start(fields, Len(fields) + 1) \in Nat
             /\ R + Start(fields, Len(fields) + 1) + 1 = EndOf(items, passed, k)
             /\ EndOf(items, passed, k) \in Nat /\ EndOf(items, passed, k) =< Len(t)
             /\ ReadOf(items[k]) = Row(Append(Texts(fields), << >>))
<1> DEFINE R == RowStart(items, passed, k)
           n == Len(items)
<1>0. n \in Nat /\ k \in 1..n
  BY DEF FileLaid
<1>1. k \in 1..(n + 1) /\ k \in 0..n /\ k - 1 \in 0..n
  BY <1>0
<1>2. /\ items[k] \in Items /\ ItemWritten(items[k])
      /\ EndOf(items, passed, k) = EndOf(items, passed, k - 1) + Len(passed[k]) + Len(ItemText(items[k]))
      /\ \A i \in 1..Len(ItemText(items[k])) :
           t[EndOf(items, passed, k - 1) + Len(passed[k]) + i] = ItemText(items[k])[i]
      /\ EndOf(items, passed, k) \in Nat /\ EndOf(items, passed, k) =< Len(t)
  BY <1>0, <1>1 DEF FileLaid
<1>3. R \in Nat /\ R = EndOf(items, passed, k - 1) + Len(passed[k])
  BY <1>1, Bounds
<1>4. PICK fields \in Seq(Fields) : fields = items[k].fields
  BY <1>2, ItemIs
<1>5. /\ RowWritten(fields) /\ ItemText(items[k]) = RowText(fields)
      /\ ReadOf(items[k]) = Row(Append(Texts(fields), << >>))
  BY <1>2, <1>4, ItemIs
<1>6. \A i \in 1..Len(RowText(fields)) : t[R + i] = RowText(fields)[i]
  BY <1>2, <1>3, <1>5
<1> HIDE DEF R
<1>7. /\ LaidOut(t, R, fields, TRUE) /\ t[R + Start(fields, Len(fields) + 1) + 1] = NewLine
      /\ Len(RowText(fields)) = Start(fields, Len(fields) + 1) + 1
  BY <1>3, <1>6, RowLaid, Zenon
<1>8. Len(fields) \in Nat /\ Start(fields, Len(fields) + 1) \in Nat
  <2>1. Len(fields) \in Nat
    BY FieldsAre
  <2>2. Len(fields) + 1 \in 1..(Len(fields) + 1)
    BY <2>1
  <2>3. QED
    BY <2>1, <2>2, Starts
<1>9. R + Start(fields, Len(fields) + 1) + 1 = EndOf(items, passed, k)
  <2>1. EndOf(items, passed, k) = R + (Start(fields, Len(fields) + 1) + 1)
    BY <1>2, <1>3, <1>5, <1>7
  <2>2. QED
    BY <1>3, <1>8, <2>1
<1>10. RowIn(t, R, fields) /\ fields # << >>
  BY <1>5, <1>7 DEF RowIn, RowWritten
<1>11. QED
  BY <1>2, <1>4, <1>5, <1>8, <1>9, <1>10 DEF R

\* A line without characters, or that begins with a mark of its own.
LEMMA MarkIs ==
  ASSUME NEW text \in Seq(Characters)
  PROVE  IF Len(text) = 0 THEN Mark(text) = Comment ELSE Mark(text) = text[1]
<1>1. Len(text) = 0 <=> text = << >>
  BY EmptySeq
<1>2. text # << >> => Head(text) = text[1]
  OBVIOUS
<1>3. QED
  BY <1>1, <1>2 DEF Mark

\* Empty lines and comments are passed over.
LEMMA NoisePassed ==
  ASSUME NEW t, NEW items, NEW passed, FileLaid(t, items, passed), NEW k \in 1..(Len(items) + 1),
         NEW m \in 0..Len(passed[k]), BetweenAt(t, items, passed, k, m), m # Len(passed[k]),
         pc = "next", NextLine
  PROVE  ItemsRead(t, items, passed)'
<1> DEFINE d == EndOf(items, passed, k - 1)
           M == Len(passed[k])
<1>1. /\ d \in Nat /\ M \in Nat /\ d + M =< Len(t) /\ t \in Seq(Characters) /\ Len(t) \in Nat
      /\ RowStart(items, passed, k) = d + M
  BY Bounds
<1>2. passed[k] \in Seq(Characters) /\ PassedOver(passed[k]) /\ \A i \in 1..M : t[d + i] = passed[k][i]
  BY DEF FileLaid
<1> HIDE DEF d, M
<1>3. m \in 0..M /\ m # M /\ m + 1 \in 1..M /\ M \in 1..M
  BY <1>1 DEF M
<1>4. DOMAIN passed[k] = 1..M /\ passed[k] # << >>
  <2>1. DOMAIN passed[k] = 1..M
    BY <1>2, LenProperties DEF M
  <2>2. QED
    BY <1>2, <1>3, <2>1, EmptySeq DEF M
<1>5. passed[k][M] = NewLine
  BY <1>2, <1>4 DEF PassedOver, M
<1>6. passed[k][m + 1] \in {Comment, NewLine}
  <2>1. m = 0 \/ passed[k][m] = NewLine
    BY DEF BetweenAt
  <2>2. m + 1 = 1 \/ passed[k][(m + 1) - 1] = NewLine
    <3>1. (m + 1) - 1 = m
      BY <1>3
    <3>2. QED
      BY <2>1, <3>1
  <2>3. m + 1 \in DOMAIN passed[k]
    BY <1>3, <1>4
  <2>4. QED
    BY <1>2, <2>2, <2>3 DEF PassedOver
<1>7. PICK c \in Nat : c = d + m
  BY <1>1, <1>3
<1>8. PICK e \in Nat : e =< d + M /\ FirstBehind(t, c, e, NewLine)
  <2>1. d + M \in Nat /\ c < d + M /\ d + M =< Len(t)
    BY <1>1, <1>3, <1>7
  <2>2. t[d + M] = NewLine
    BY <1>2, <1>3, <1>5
  <2>3. QED
    BY <1>1, <2>1, <2>2, FirstExists
<1>9. input = Behind(t, c) /\ GetLine
  BY <1>7 DEF BetweenAt, NextLine, d
<1>10. /\ eof' = FALSE /\ input' = Behind(t, e)
       /\ Taken \in Seq(Characters) /\ Len(Taken) = (e - c) - 1
       /\ \A i \in 1..((e - c) - 1) : Taken[i] = t[c + i]
  BY <1>1, <1>8, <1>9, TakesLine
<1>11. c < e /\ t[e] = NewLine /\ \A i \in (c + 1)..(e - 1) : t[i] # NewLine
  BY <1>8 DEF FirstBehind
<1>12. Mark(Taken) = Comment
  <2>1. CASE Len(Taken) = 0
    BY <1>10, <2>1, MarkIs
  <2>2. CASE Len(Taken) # 0
    <3>1. 1 \in 1..((e - c) - 1) /\ c + 1 \in (c + 1)..(e - 1) /\ c + 1 = d + (m + 1)
      BY <1>1, <1>3, <1>7, <1>10, <1>11, <2>2
    <3>2. Taken[1] = t[c + 1] /\ t[c + 1] # NewLine
      BY <1>10, <1>11, <3>1
    <3>3. t[c + 1] = passed[k][m + 1]
      BY <1>2, <1>3, <3>1
    <3>4. QED
      BY <1>6, <1>10, <2>2, <3>2, <3>3, MarkIs
  <2>3. QED
    BY <2>1, <2>2
<1>13. UNCHANGED <<read, pc>>
  <2>1. Comment # Opening
    BY DEF Comment, Opening
  <2>2. QED
    BY <1>12, <2>1 DEF NextLine
<1>14. PICK p \in 1..M : e = d + p
  <2>1. e - d \in 1..M /\ e = d + (e - d)
    BY <1>1, <1>3, <1>7, <1>8, <1>11
  <2>2. QED
    BY <2>1
<1>15. BetweenAt(t, items, passed, k, p)'
  <2>1. passed[k][p] = NewLine
    BY <1>2, <1>11, <1>14
  <2>2. read' = ReadTo(items, k - 1)
    BY <1>13 DEF BetweenAt
  <2>3. QED
    BY <1>10, <1>14, <2>1, <2>2 DEF BetweenAt, d
<1>16. BetweenLines(t, items, passed)'
  <2>1. p \in 0..Len(passed[k])
    BY <1>1, <1>14 DEF M
  <2>2. QED
    BY <1>15, <2>1 DEF BetweenLines
<1>17. QED
  BY <1>13, <1>16 DEF ItemsRead

\* At the end of the file, the stream finds that there is nothing more.
LEMMA EndFound ==
  ASSUME NEW t, NEW items, NEW passed, FileLaid(t, items, passed), NEW k \in 1..(Len(items) + 1),
         NEW m \in 0..Len(passed[k]), BetweenAt(t, items, passed, k, m),
         k = Len(items) + 1, m = Len(passed[k]), pc = "next", NextLine,
         Len(t) = EndOf(items, passed, Len(items)) + Len(passed[Len(items) + 1])
  PROVE  ItemsRead(t, items, passed)'
<1>1. t \in Seq(Characters) /\ Len(t) \in Nat /\ Len(items) \in Nat
  BY DEF FileLaid
<1>2. EndOf(items, passed, k - 1) + m = Len(t)
  <2>1. k - 1 = Len(items)
    BY <1>1
  <2>2. QED
    BY <2>1 DEF FileLaid
<1>3. input = Behind(t, Len(t)) /\ GetLine
  BY <1>2 DEF BetweenAt, NextLine
<1>4. Behind(t, Len(t)) = << >>
  <2>1. Len(t) + 1 \in Int /\ Len(t) \in Int /\ Len(t) < Len(t) + 1
    BY <1>1
  <2>2. QED
    BY <2>1, SubSeqEmpty DEF Behind
<1>5. input = << >> /\ Len(input) = 0
  BY <1>3, <1>4
<1>6. ~Contains(input, NewLine)
  BY <1>5 DEF Contains
<1>7. Taken = << >>
  BY <1>5, <1>6 DEF Taken, Before
<1>8. eof' = TRUE /\ input' = << >>
  <2>1. Len(Taken) + 2 \in Int /\ Len(input) \in Int /\ Len(input) < Len(Taken) + 2
    BY <1>5, <1>7
  <2>2. SubSeq(input, Len(Taken) + 2, Len(input)) = << >>
    BY <2>1, SubSeqEmpty
  <2>3. QED
    BY <1>3, <1>6, <2>2 DEF GetLine
<1>9. Mark(Taken) = Comment
  BY <1>7 DEF Mark
<1>10. UNCHANGED <<read, pc>>
  <2>1. Comment # Opening
    BY DEF Comment, Opening
  <2>2. QED
    BY <1>9, <2>1 DEF NextLine
<1>11. BetweenAt(t, items, passed, k, m)'
  BY <1>2, <1>4, <1>8, <1>10 DEF BetweenAt
<1>12. BetweenLines(t, items, passed)'
  BY <1>11 DEF BetweenLines
<1>13. QED
  BY <1>10, <1>12 DEF ItemsRead

\* There is more to read once something was read.
LEMMA ReadMore ==
  ASSUME NEW S, NEW r \in Seq(S), NEW a, Len(a) \in Nat, BeginsWith(r, a), NEW x
  PROVE  \E U : Append(r, x) \in Seq(U) /\ BeginsWith(Append(r, x), a)
<1> DEFINE U == S \cup {x}
<1>1. r \in Seq(U) /\ x \in U /\ Len(r) \in Nat
  OBVIOUS
<1> HIDE DEF U
<1>2. /\ Append(r, x) \in Seq(U) /\ Len(Append(r, x)) = Len(r) + 1
      /\ \A i \in 1..Len(r) : Append(r, x)[i] = r[i]
  BY <1>1, AppendProperties
<1>3. BeginsWith(Append(r, x), a)
  BY <1>1, <1>2 DEF BeginsWith
<1>4. QED
  BY <1>2, <1>3

\* Every step adds one row or section at most, at the end.
LEMMA ReadOn ==
  ASSUME Next
  PROVE  read' = read \/ \E x : read' = Append(read, x)
<1>1. CASE NextLine
  BY <1>1 DEF NextLine
<1>2. CASE NoMoreLines
  BY <1>2 DEF NoMoreLines
<1>3. CASE SplitChar
  BY <1>3 DEF SplitChar
<1>4. CASE ContinueRow
  BY <1>4 DEF ContinueRow, RowDone
<1>5. CASE EndSplit
  BY <1>5 DEF EndSplit, RowDone
<1>6. QED
  BY <1>1, <1>2, <1>3, <1>4, <1>5 DEF Next

\* Once the items are read, they stay read, whatever is behind them.
LEMMA BeyondOn ==
  ASSUME NEW t, NEW items, NEW passed, Len(items) \in Nat, Beyond(t, items, passed), Next
  PROVE  Beyond(t, items, passed)'
<1> DEFINE a == ReadTo(items, Len(items))
<1>1. PICK S : read \in Seq(S) /\ BeginsWith(read, a)
  BY DEF Beyond
<1>2. Len(a) \in Nat
  BY DEF ReadTo
<1> HIDE DEF a
<1>3. \E U : read' \in Seq(U) /\ BeginsWith(read', a)
  <2>1. CASE read' = read
    BY <1>1, <2>1
  <2>2. CASE \E x : read' = Append(read, x)
    BY <1>1, <1>2, <2>2, ReadMore
  <2>3. QED
    BY <2>1, <2>2, ReadOn
<1>4. QED
  BY <1>3 DEF Beyond, a

\* The first line of the rest is taken.
LEMMA RestBegins ==
  ASSUME NEW t, NEW items, NEW passed, Len(items) \in Nat, NEW k, NEW m,
         BetweenAt(t, items, passed, k, m), k = Len(items) + 1, Next,
         Len(t) # EndOf(items, passed, Len(items)) + Len(passed[Len(items) + 1])
  PROVE  Beyond(t, items, passed)'
<1>1. read = ReadTo(items, Len(items))
  <2>1. k - 1 = Len(items)
    OBVIOUS
  <2>2. QED
    BY <2>1 DEF BetweenAt
<1> DEFINE S == {ReadOf(items[i]) : i \in 1..Len(items)}
<1>2. ReadTo(items, Len(items)) \in Seq(S)
  BY DEF ReadTo
<1> HIDE DEF S
<1>3. BeginsWith(read, ReadTo(items, Len(items)))
  BY <1>1 DEF BeginsWith, ReadTo
<1>4. Beyond(t, items, passed)
  BY <1>1, <1>2, <1>3 DEF Beyond
<1>5. QED
  BY <1>4, BeyondOn

\* A section is read back.
LEMMA SectionRead ==
  ASSUME NEW t, NEW items, NEW passed, FileLaid(t, items, passed), NEW k \in 1..Len(items),
         NEW m, BetweenAt(t, items, passed, k, m), m = Len(passed[k]), items[k].kind = "section",
         pc = "next", NextLine
  PROVE  ItemsRead(t, items, passed)'
<1> DEFINE name == items[k].name
           nn == Len(name)
           u == SectionText(name)
           d == EndOf(items, passed, k)
<1>1. Len(items) \in Nat /\ k \in 1..(Len(items) + 1) /\ k \in 0..Len(items) /\ k + 1 \in 1..(Len(items) + 1)
      /\ (k + 1) - 1 = k
  BY DEF FileLaid
<1>2. PICK c \in Nat : c = RowStart(items, passed, k)
  BY <1>1, Bounds
<1>3. c = EndOf(items, passed, k - 1) + Len(passed[k]) /\ t \in Seq(Characters) /\ Len(t) \in Nat
  BY <1>1, <1>2, Bounds
<1>4. /\ items[k] \in Items /\ ItemWritten(items[k])
      /\ d = c + Len(ItemText(items[k])) /\ d \in Nat /\ d =< Len(t)
      /\ \A i \in 1..Len(ItemText(items[k])) : t[c + i] = ItemText(items[k])[i]
  BY <1>1, <1>3 DEF FileLaid
<1>5. /\ SectionWritten(name) /\ name \in Seq(Characters) /\ ItemText(items[k]) = u
      /\ ReadOf(items[k]) = SectionOf(name)
  BY <1>4, ItemIs
<1>6. /\ nn \in Nat /\ Len(u) = nn + 3 /\ u[1] = Opening /\ \A i \in 1..nn : u[1 + i] = name[i]
      /\ u[nn + 2] = Closing /\ u[nn + 3] = NewLine
  BY <1>5, SectionLaid
<1>7. /\ DOMAIN name = 1..nn /\ \A i \in 1..nn : name[i] \notin {NewLine, Closing}
  BY <1>5, LenProperties DEF SectionWritten
<1> HIDE DEF name, nn, u, d
<1>8. d = c + (nn + 3) /\ \A i \in 1..(nn + 3) : t[c + i] = u[i]
  BY <1>4, <1>5, <1>6
<1>9. Opening # NewLine /\ Opening # Closing /\ Closing # NewLine /\ Comment # Opening
  BY DEF Opening, Closing, NewLine, Comment
<1>10. /\ \A i \in 1..(nn + 2) : u[i] # NewLine
       /\ \A i \in 1..(nn + 1) : u[i] # Closing
  <2>1. ASSUME NEW i \in 1..(nn + 2) PROVE u[i] # NewLine /\ (i # nn + 2 => u[i] # Closing)
    <3>1. i = 1 \/ i = nn + 2 \/ (i - 1 \in 1..nn /\ 1 + (i - 1) = i)
      BY <1>6
    <3>2. QED
      BY <1>6, <1>7, <1>9, <3>1
  <2>2. \A i \in 1..(nn + 1) : i \in 1..(nn + 2) /\ i # nn + 2
    BY <1>6
  <2>3. QED
    BY <2>1, <2>2
<1>11. FirstBehind(t, c, d, NewLine)
  <2>1. d > c /\ nn + 3 \in 1..(nn + 3)
    BY <1>6, <1>8
  <2>2. t[d] = NewLine
    BY <1>6, <1>8, <2>1
  <2>3. ASSUME NEW i \in (c + 1)..(d - 1) PROVE t[i] # NewLine
    <3>1. i - c \in 1..(nn + 2) /\ i - c \in 1..(nn + 3) /\ c + (i - c) = i
      BY <1>6, <1>8
    <3>2. t[c + (i - c)] = u[i - c]
      BY <1>8, <3>1
    <3>3. QED
      BY <1>10, <3>1, <3>2
  <2>4. QED
    BY <1>4, <2>1, <2>2, <2>3 DEF FirstBehind
<1>12. input = Behind(t, c) /\ GetLine
  BY <1>3 DEF BetweenAt, NextLine
<1>13. PICK line0 \in Seq(Characters), e \in Nat :
         /\ line0 = Taken /\ e = d /\ eof' = FALSE /\ input' = Behind(t, e) /\ Len(line0) = (e - c) - 1
         /\ \A i \in 1..((e - c) - 1) : line0[i] = t[c + i]
  <2>1. PICK e \in Nat : e = d
    BY <1>4
  <2>2. FirstBehind(t, c, e, NewLine)
    BY <1>11, <2>1
  <2>3. /\ eof' = FALSE /\ input' = Behind(t, e)
        /\ Taken \in Seq(Characters) /\ Len(Taken) = (e - c) - 1
        /\ \A i \in 1..((e - c) - 1) : Taken[i] = t[c + i]
    BY <1>3, <1>12, <2>2, TakesLine
  <2>4. QED
    BY <2>1, <2>3
<1>14. /\ eof' = FALSE /\ input' = Behind(t, d) /\ Len(line0) = nn + 2
       /\ \A i \in 1..(nn + 2) : line0[i] = u[i]
  <2>1. (e - c) - 1 = nn + 2 /\ \A i \in 1..(nn + 2) : i \in 1..(nn + 3)
    <3>1. PICK x \in Nat : x = nn
      BY <1>6
    <3>2. e = c + (x + 3)
      BY <1>8, <1>13, <3>1
    <3>3. (e - c) - 1 = x + 2 /\ \A i \in 1..(x + 2) : i \in 1..(x + 3)
      BY <3>2
    <3>4. QED
      BY <3>1, <3>3
  <2>2. QED
    BY <1>8, <1>13, <2>1
<1>15. Mark(line0) = Opening
  <2>1. Len(line0) # 0 /\ 1 \in 1..(nn + 2)
    BY <1>6, <1>14
  <2>2. QED
    BY <1>6, <1>14, <2>1, MarkIs
<1>16. FirstBehind(line0, 0, nn + 2, Closing)
  <2>1. nn + 2 > 0 /\ nn + 2 =< Len(line0) /\ nn + 2 \in 1..(nn + 2)
    BY <1>6, <1>14
  <2>2. line0[nn + 2] = Closing
    BY <1>6, <1>14, <2>1
  <2>3. ASSUME NEW i \in (0 + 1)..((nn + 2) - 1) PROVE line0[i] # Closing
    <3>1. i \in 1..(nn + 1) /\ i \in 1..(nn + 2)
      BY <1>6
    <3>2. QED
      BY <1>10, <1>14, <3>1
  <2>4. QED
    BY <2>1, <2>2, <2>3 DEF FirstBehind
<1>17. Contains(line0, Closing) /\ Before(line0, Closing) = SubSeq(line0, 1, (nn + 2) - 1)
  <2>1. nn + 2 \in Nat
    BY <1>6
  <2>2. QED
    BY <1>16, <2>1, BeforeIs
<1>18. PICK v \in Seq(Characters) : /\ v = Before(line0, Closing) /\ Len(v) = nn + 1
                                    /\ \A i \in 1..(nn + 1) : v[i] = u[i]
  <2>1. nn + 2 \in Nat /\ 0 \in Nat /\ 0 < nn + 2 /\ nn + 2 =< Len(line0) + 1 /\ 0 + 1 = 1
        /\ ((nn + 2) - 0) - 1 = nn + 1
    BY <1>6, <1>14
  <2>2. /\ SubSeq(line0, 0 + 1, (nn + 2) - 1) \in Seq(Characters)
        /\ Len(SubSeq(line0, 0 + 1, (nn + 2) - 1)) = ((nn + 2) - 0) - 1
        /\ \A i \in 1..(((nn + 2) - 0) - 1) : SubSeq(line0, 0 + 1, (nn + 2) - 1)[i] = line0[0 + i]
    BY <2>1, Slice
  <2>3. PICK v \in Seq(Characters) : v = Before(line0, Closing)
    BY <1>17, <2>1, <2>2
  <2>4. Len(v) = nn + 1 /\ \A i \in 1..(nn + 1) : v[i] = line0[0 + i]
    BY <1>17, <2>1, <2>2, <2>3
  <2>5. \A i \in 1..(nn + 1) : 0 + i = i /\ i \in 1..(nn + 2)
    BY <1>6
  <2>6. QED
    BY <1>14, <2>3, <2>4, <2>5
<1>19. Tail(v) = name
  <2>1. v # << >>
    BY <1>6, <1>18, EmptySeq
  <2>2. PICK w \in Seq(Characters) : w = Tail(v)
    BY <2>1, HeadTailProperties
  <2>3. Len(w) = Len(v) - 1 /\ \A i \in 1..Len(w) : w[i] = v[i + 1]
    BY <2>1, <2>2, HeadTailProperties
  <2>4. Len(w) = nn
    BY <1>6, <1>18, <2>3
  <2>5. ASSUME NEW i \in 1..nn PROVE w[i] = name[i]
    <3>1. nn \in Nat
      BY <1>6
    <3>2. i + 1 \in 1..(nn + 1) /\ i + 1 = 1 + i
      BY <3>1
    <3>3. QED
      BY <1>6, <1>18, <2>3, <2>4, <3>2
  <2>6. Len(w) = Len(name)
    BY <2>4 DEF nn
  <2>7. w = name
    BY <1>5, <2>4, <2>5, <2>6, SeqEqual DEF nn
  <2>8. QED
    BY <2>2, <2>7
<1>20. read' = Append(read, SectionOf(name)) /\ pc' = pc
  BY <1>9, <1>13, <1>15, <1>17, <1>18, <1>19 DEF NextLine
<1>21. read' = ReadTo(items, k)
  BY <1>1, <1>5, <1>20, ReadGrows DEF BetweenAt
<1>22. BetweenAt(t, items, passed, k + 1, 0)'
  <2>1. d + 0 = d
    BY <1>4
  <2>2. QED
    BY <1>1, <1>14, <1>21, <2>1 DEF BetweenAt, d
<1>23. BetweenLines(t, items, passed)'
  <2>1. 0 \in 0..Len(passed[k + 1])
    BY <1>1, Bounds
  <2>2. QED
    BY <1>1, <1>22, <2>1 DEF BetweenLines
<1>24. QED
  BY <1>20, <1>23 DEF ItemsRead

\* A row begins.
LEMMA RowBegins ==
  ASSUME NEW t, NEW items, NEW passed, FileLaid(t, items, passed), NEW k \in 1..Len(items),
         NEW m, BetweenAt(t, items, passed, k, m), m = Len(passed[k]), items[k].kind = "row",
         pc = "next", NextLine
  PROVE  ItemsRead(t, items, passed)'
<1>1. Len(items) \in Nat /\ k \in 1..(Len(items) + 1)
  BY DEF FileLaid
<1>2. PICK R \in Nat : R = RowStart(items, passed, k)
  BY <1>1, Bounds
<1>3. R = EndOf(items, passed, k - 1) + Len(passed[k]) /\ t \in Seq(Characters) /\ Len(t) \in Nat
  BY <1>1, <1>2, Bounds
<1>4. PICK fields \in Seq(Fields) : fields = items[k].fields
  BY RowThere
<1>5. /\ RowIn(t, R, fields) /\ Len(fields) \in Nat /\ fields # << >>
      /\ Start(fields, Len(fields) + 1) \in Nat
      /\ R + Start(fields, Len(fields) + 1) + 1 = EndOf(items, passed, k)
      /\ EndOf(items, passed, k) \in Nat /\ EndOf(items, passed, k) =< Len(t)
  BY <1>2, <1>4, RowThere
<1>6. PICK d \in Nat : d = EndOf(items, passed, k) /\ R < d /\ d =< Len(t) /\ t[d] = NewLine
  BY <1>5 DEF RowIn
<1>7. PICK e \in Nat : e =< d /\ FirstBehind(t, R, e, NewLine)
  BY <1>3, <1>6, FirstExists
<1>8. R < e /\ t[e] = NewLine /\ \A i \in (R + 1)..(e - 1) : t[i] # NewLine
  BY <1>7 DEF FirstBehind
<1>9. input = Behind(t, R) /\ GetLine
  BY <1>3 DEF BetweenAt, NextLine
<1>10. /\ eof' = FALSE /\ input' = Behind(t, e)
       /\ Taken \in Seq(Characters) /\ Len(Taken) = (e - R) - 1
       /\ \A i \in 1..((e - R) - 1) : Taken[i] = t[R + i]
  BY <1>3, <1>7, <1>9, TakesLine
<1>11. t[R + 1] \notin {NewLine, Comment, Opening} /\ Start(fields, 1) = 0
  <2>1. 1 \in 1..Len(fields)
    BY <1>5, EmptySeq
  <2>2. Start(fields, 1) = 0 /\ R + 0 + 1 = R + 1
    BY Starts
  <2>3. /\ t[R + Start(fields, 1) + 1] # NewLine
        /\ t[R + Start(fields, 1) + 1] \notin {Comment, Opening}
    BY <1>5, <2>1, FieldStarts
  <2>4. QED
    BY <2>2, <2>3
<1>12. Mark(Taken) \notin {Comment, Opening}
  <2>1. e # R + 1
    BY <1>8, <1>11
  <2>2. Len(Taken) # 0 /\ 1 \in 1..((e - R) - 1)
    BY <1>8, <1>10, <2>1
  <2>3. Mark(Taken) = t[R + 1]
    BY <1>10, <2>2, MarkIs
  <2>4. QED
    BY <1>11, <2>3
<1>13. line' = Taken /\ pos' = 1 /\ elements' = << >> /\ Begin /\ pc' = "split" /\ read' = read
  BY <1>12 DEF NextLine
<1>14. LineIs(t, R, e)'
  BY <1>8, <1>10, <1>13, LineBegins
<1>15. Reading(fields, 0)'
  <2>1. 1 \in 1..(Len(fields) + 1) /\ 1 - 1 = 0
    BY <1>5
  <2>2. elements' = SubSeq(Texts(fields), 1, 1 - 1)
    BY <1>13, <2>1, TextsAre
  <2>3. AtField(fields, 1, 0)'
    BY <1>11, <1>13 DEF AtField, Begin
  <2>4. ReadingAt(fields, 1, 0)'
    BY <2>2, <2>3 DEF ReadingAt
  <2>5. QED
    BY <2>1, <2>4 DEF Reading
<1>16. EndsAt(t, R, fields, TRUE, 0, e)
  <2>1. R + 0 + 1 = R + 1
    OBVIOUS
  <2>2. QED
    BY <1>5, <1>8, <2>1 DEF EndsAt, RowIn
<1>17. InRowAt(t, items, passed, k, 0, e)'
  <2>1. R + 0 = R
    OBVIOUS
  <2>2. QED
    BY <1>2, <1>4, <1>10, <1>13, <1>14, <1>15, <1>16, <2>1 DEF InRowAt, BetweenAt
<1>18. InRow(t, items, passed)'
  <2>1. 0 \in Nat
    OBVIOUS
  <2>2. QED
    BY <1>17, <2>1 DEF InRow
<1>19. QED
  BY <1>13, <1>18 DEF ItemsRead

\* At the end of a line within a row, the next character written is a newline.
LEMMA AtNewLine ==
  ASSUME Types, NEW t, NEW c \in Nat, NEW e \in Nat, LineIs(t, c, e), pos > Len(line)
  PROVE  e = c + 1
<1>1. PICK n \in Nat, p \in Nat : n = Len(line) /\ p = pos /\ p =< n + 1
  BY LenProperties DEF Types, TypeOK
<1>2. p = n + 1
  BY <1>1
<1>3. e = c + (n - p) + 2
  BY <1>1 DEF LineIs
<1>4. QED
  BY <1>2, <1>3

LEMMA SplitInRow ==
  ASSUME Types, Types', NEW t, NEW items, NEW passed, FileLaid(t, items, passed),
         pc = "split", InRow(t, items, passed), SplitChar
  PROVE  ItemsRead(t, items, passed)'
<1>1. PICK k \in 1..Len(items), q \in Nat, e \in Nat : InRowAt(t, items, passed, k, q, e)
  BY DEF InRow
<1>2. PICK fields : fields = items[k].fields
  OBVIOUS
<1>3. PICK R \in Nat : R = RowStart(items, passed, k)
  <2>1. k \in 1..(Len(items) + 1)
    BY DEF FileLaid
  <2>2. QED
    BY <2>1, Bounds
<1>4. /\ items[k].kind = "row" /\ ~eof /\ LineIs(t, R + q, e) /\ EndsAt(t, R, fields, TRUE, q, e)
      /\ Reading(fields, q) /\ input = Behind(t, e) /\ read = ReadTo(items, k - 1)
  BY <1>1, <1>2, <1>3 DEF InRowAt
<1>5. RowIn(t, R, fields)
  BY <1>2, <1>3, <1>4, RowThere
<1>6. WellFormed(fields) /\ LaidOut(t, R, fields, TRUE) /\ InLine
  BY <1>5 DEF RowIn, RowWritten, SplitChar
<1>7. Advances(fields, q)
  BY <1>4, <1>6, SplitAdvances
<1>8. PICK d \in 1..2 : pos' = pos + d /\ Reading(fields, q + d)'
  BY <1>7 DEF Advances
<1>9. UNCHANGED <<input, eof, line, read, pc>>
  BY DEF SplitChar, stream
<1>10. LineIs(t, (R + q) + d, e)'
  BY <1>4, <1>8, <1>9, RestOfLine
<1>11. R + (q + d) = (R + q) + d /\ q + d \in Nat
  OBVIOUS
<1>12. EndsAt(t, R, fields, TRUE, q + d, e)
  <2>1. \A i \in (R + (q + d) + 1)..(e - 1) : i \in (R + q + 1)..(e - 1)
    OBVIOUS
  <2>2. QED
    BY <1>4, <2>1 DEF EndsAt
<1>13. InRowAt(t, items, passed, k, q + d, e)'
  BY <1>2, <1>3, <1>4, <1>8, <1>9, <1>10, <1>11, <1>12 DEF InRowAt
<1>14. InRow(t, items, passed)'
  BY <1>11, <1>13 DEF InRow
<1>15. QED
  BY <1>9, <1>14 DEF ItemsRead

\* A newline within a field in quotes: the row goes on in the next line.
LEMMA RowContinues ==
  ASSUME Types, NEW t, NEW items, NEW passed, FileLaid(t, items, passed),
         pc = "split", InRow(t, items, passed), ContinueRow
  PROVE  ItemsRead(t, items, passed)'
<1>1. PICK k \in 1..Len(items), q \in Nat, e \in Nat : InRowAt(t, items, passed, k, q, e)
  BY DEF InRow
<1>2. PICK fields : fields = items[k].fields
  OBVIOUS
<1>3. PICK R \in Nat : R = RowStart(items, passed, k)
  <2>1. k \in 1..(Len(items) + 1)
    BY DEF FileLaid
  <2>2. QED
    BY <2>1, Bounds
<1>4. /\ items[k].kind = "row" /\ ~eof /\ LineIs(t, R + q, e) /\ EndsAt(t, R, fields, TRUE, q, e)
      /\ Reading(fields, q) /\ input = Behind(t, e) /\ read = ReadTo(items, k - 1)
  BY <1>1, <1>2, <1>3 DEF InRowAt
<1>5. /\ RowIn(t, R, fields) /\ fields \in Seq(Fields) /\ Len(fields) \in Nat
      /\ Start(fields, Len(fields) + 1) \in Nat
      /\ R + Start(fields, Len(fields) + 1) + 1 = EndOf(items, passed, k)
      /\ EndOf(items, passed, k) \in Nat /\ EndOf(items, passed, k) =< Len(t)
  BY <1>2, <1>3, <1>4, RowThere
<1>6. LaidOut(t, R, fields, TRUE) /\ RowWritten(fields) /\ t[EndOf(items, passed, k)] = NewLine
  BY <1>5 DEF RowIn
<1>7. ~first /\ pos > Len(line) /\ GetLine
  BY DEF ContinueRow
<1>8. e = R + q + 1 /\ t[R + q + 1] = NewLine
  <2>1. R + q \in Nat
    OBVIOUS
  <2>2. e = R + q + 1
    BY <1>4, <1>7, <2>1, AtNewLine
  <2>3. QED
    BY <1>4, <2>2 DEF EndsAt
<1>9. PICK i \in 1..(Len(fields) + 1) : ReadingAt(fields, i, q)
  BY <1>4 DEF Reading
<1>10. elements = SubSeq(Texts(fields), 1, i - 1) /\ (InQuoted(fields, i, q) \/ InPlain(fields, i, q))
  BY <1>7, <1>9 DEF ReadingAt, AtField
<1>11. i \in 1..Len(fields)
  BY <1>10 DEF InQuoted, InPlain
<1> DEFINE text == fields[i].text
           a(j) == At(fields, i, j)
<1>12. text \in Seq(Characters) /\ Len(text) \in Nat /\ DOMAIN text = 1..Len(text) /\ i \in DOMAIN fields
  BY <1>5, <1>11, FieldsAre, FieldIs
<1>13. Quote # NewLine /\ Separator # NewLine
  BY DEF Quote, Separator, NewLine
<1>14. ~InPlain(fields, i, q)
  <2> SUFFICES ASSUME InPlain(fields, i, q) PROVE FALSE
    OBVIOUS
  <2>1. ~fields[i].quoted
    BY DEF InPlain
  <2>2. PICK j \in 1..Len(text) : q = a(j)
    BY DEF InPlain
  <2>3. PlainLaid(t, R, fields, i, TRUE)
    BY <1>5, <1>6, <1>11, <2>1, PlainPlaces
  <2>4. /\ \A l \in 0..(Len(text) - 1) : t[R + a(l) + 1] = text[l + 1]
        /\ t[R + a(Len(text)) + 1] = Separator
    BY <2>3 DEF PlainLaid
  <2>5. j # Len(text)
    BY <1>8, <1>13, <2>2, <2>4
  <2>6. j \in 0..(Len(text) - 1) /\ j + 1 \in DOMAIN text
    BY <1>12, <2>5
  <2>7. text[j + 1] = NewLine
    BY <1>8, <2>2, <2>4, <2>6
  <2>8. QED
    BY <1>6, <1>12, <2>1, <2>6, <2>7 DEF RowWritten
<1>15. escaped /\ fields[i].quoted
  BY <1>10, <1>14 DEF InQuoted
<1>16. PICK j \in 0..Len(text) : s = SubSeq(text, 1, j) /\ q = a(j)
  BY <1>10, <1>14 DEF InQuoted
<1>17. /\ \A l \in 0..Len(text) : a(l) \in Nat /\ a(l) + 2 =< Start(fields, i + 1)
       /\ \A l \in 0..(Len(text) - 1) :
            IF text[l + 1] = Quote THEN t[R + a(l) + 1] = Quote
            ELSE a(l + 1) = a(l) + 1 /\ t[R + a(l) + 1] = text[l + 1]
       /\ t[R + a(Len(text)) + 1] = Quote
  <2>1. QuotedLaid(t, R, fields, i, TRUE)
    BY <1>5, <1>6, <1>11, <1>15, QuotedPlaces
  <2>2. QED
    BY <2>1 DEF QuotedLaid
<1>18. j \in 0..(Len(text) - 1)
  <2>1. j # Len(text)
    BY <1>8, <1>13, <1>16, <1>17
  <2>2. QED
    BY <1>12, <2>1
<1>19. text[j + 1] = NewLine /\ a(j + 1) = q + 1
  BY <1>8, <1>13, <1>16, <1>17, <1>18
<1>20. EndOf(items, passed, k) > e
  <2>1. i + 1 \in 1..(Len(fields) + 1) /\ Len(fields) + 1 \in 1..(Len(fields) + 1) /\ i + 1 =< Len(fields) + 1
    BY <1>5, <1>11
  <2>2. Start(fields, i + 1) =< Start(fields, Len(fields) + 1) /\ Start(fields, i + 1) \in Nat
    BY <1>5, <2>1, Starts
  <2>3. q + 2 =< Start(fields, i + 1)
    BY <1>16, <1>17
  <2>4. PICK x \in Nat, y \in Nat : /\ x = Start(fields, i + 1) /\ y = Start(fields, Len(fields) + 1)
                                    /\ x =< y /\ q + 2 =< x
    BY <1>5, <2>2, <2>3
  <2>5. R + y + 1 > R + q + 1
    BY <2>4
  <2>6. QED
    BY <1>5, <1>8, <2>4, <2>5
<1>21. t \in Seq(Characters)
  BY DEF FileLaid
<1>22. PICK e2 \in Nat : FirstBehind(t, e, e2, NewLine)
  BY <1>5, <1>6, <1>20, <1>21, FirstExists
<1>23. /\ eof' = FALSE /\ input' = Behind(t, e2) /\ Len(Taken) = (e2 - e) - 1
       /\ \A l \in 1..((e2 - e) - 1) : Taken[l] = t[e + l]
  BY <1>4, <1>7, <1>21, <1>22, TakesLine
<1>24. e < e2 /\ t[e2] = NewLine /\ \A l \in (e + 1)..(e2 - 1) : t[l] # NewLine
  BY <1>22 DEF FirstBehind
<1>25. /\ line' = Taken /\ pos' = 1 /\ s' = Append(s, NewLine)
       /\ UNCHANGED <<elements, read, pc, first, escaped>>
  BY <1>23 DEF ContinueRow
<1>26. LineIs(t, e, e2)'
  BY <1>23, <1>24, <1>25, LineBegins
<1>27. Reading(fields, q + 1)'
  <2>1. s' = Append(s, text[j + 1])
    BY <1>19, <1>25
  <2>2. Reading(fields, a(j + 1))'
    BY <1>5, <1>7, <1>10, <1>11, <1>15, <1>16, <1>18, <1>25, <2>1, FieldGrows
  <2>3. QED
    BY <1>19, <2>2
<1>28. EndsAt(t, R, fields, TRUE, q + 1, e2)
  <2>1. R + (q + 1) + 1 = e + 1
    BY <1>8
  <2>2. t[R + Start(fields, Len(fields) + 1) + 1] = NewLine
    BY <1>5 DEF RowIn
  <2>3. QED
    BY <1>24, <2>1, <2>2 DEF EndsAt
<1>29. InRowAt(t, items, passed, k, q + 1, e2)'
  <2>1. R + (q + 1) = e
    BY <1>8
  <2>2. QED
    BY <1>2, <1>3, <1>4, <1>23, <1>25, <1>26, <1>27, <1>28, <2>1 DEF InRowAt
<1>30. InRow(t, items, passed)'
  <2>1. q + 1 \in Nat
    OBVIOUS
  <2>2. QED
    BY <1>29, <2>1 DEF InRow
<1>31. QED
  BY <1>25, <1>30 DEF ItemsRead

\* The row is complete.
LEMMA RowEnds ==
  ASSUME Types, NEW t, NEW items, NEW passed, FileLaid(t, items, passed), form = "file",
         pc = "split", InRow(t, items, passed), EndSplit
  PROVE  ItemsRead(t, items, passed)'
<1>0. Len(items) \in Nat
  BY DEF FileLaid
<1>1. PICK k \in 1..Len(items), q \in Nat, e \in Nat : InRowAt(t, items, passed, k, q, e)
  BY DEF InRow
<1>2. PICK fields : fields = items[k].fields
  OBVIOUS
<1>3. PICK R \in Nat : R = RowStart(items, passed, k)
  <2>1. k \in 1..(Len(items) + 1)
    BY <1>0
  <2>2. QED
    BY <2>1, Bounds
<1>4. /\ items[k].kind = "row" /\ ~eof /\ LineIs(t, R + q, e) /\ EndsAt(t, R, fields, TRUE, q, e)
      /\ Reading(fields, q) /\ input = Behind(t, e) /\ read = ReadTo(items, k - 1)
  BY <1>1, <1>2, <1>3 DEF InRowAt
<1>5. /\ RowIn(t, R, fields) /\ fields \in Seq(Fields) /\ Len(fields) \in Nat
      /\ R + Start(fields, Len(fields) + 1) + 1 = EndOf(items, passed, k)
      /\ EndOf(items, passed, k) \in Nat
      /\ ReadOf(items[k]) = Row(Append(Texts(fields), << >>))
  BY <1>2, <1>3, <1>4, RowThere
<1>6. first /\ pos > Len(line)
  BY DEF EndSplit
<1>7. e = R + q + 1 /\ t[R + q + 1] = NewLine
  <2>1. R + q \in Nat
    OBVIOUS
  <2>2. e = R + q + 1
    BY <1>4, <1>6, <2>1, AtNewLine
  <2>3. QED
    BY <1>4, <2>2 DEF EndsAt
<1>8. PICK i \in 1..(Len(fields) + 1) : ReadingAt(fields, i, q)
  BY <1>4 DEF Reading
<1>9. elements = SubSeq(Texts(fields), 1, i - 1) /\ s = << >> /\ q = Start(fields, i)
  BY <1>6, <1>8 DEF ReadingAt, AtField, InQuoted, InPlain
<1>10. i = Len(fields) + 1
  <2> SUFFICES ASSUME i # Len(fields) + 1 PROVE FALSE
    OBVIOUS
  <2>1. i \in 1..Len(fields)
    BY <1>5
  <2>2. QED
    BY <1>5, <1>7, <1>9, <2>1, FieldStarts
<1>11. elements = Texts(fields)
  <2>1. i - 1 = Len(fields)
    BY <1>5, <1>10
  <2>2. QED
    BY <1>5, <1>9, <2>1, TextsAre
<1>12. e = EndOf(items, passed, k)
  BY <1>5, <1>7, <1>9, <1>10
<1>13. read' = Append(read, ReadOf(items[k])) /\ pc' = "next" /\ input' = input /\ eof' = eof
  BY <1>5, <1>9, <1>11 DEF EndSplit, RowDone, stream
<1>14. read' = ReadTo(items, k)
  BY <1>0, <1>4, <1>13, ReadGrows
<1>15. k + 1 \in 1..(Len(items) + 1) /\ (k + 1) - 1 = k /\ EndOf(items, passed, k) + 0 = EndOf(items, passed, k)
  BY <1>0, <1>5
<1>16. BetweenAt(t, items, passed, k + 1, 0)'
  BY <1>4, <1>12, <1>13, <1>14, <1>15 DEF BetweenAt
<1>17. BetweenLines(t, items, passed)'
  <2>1. 0 \in 0..Len(passed[k + 1])
    BY <1>15, Bounds
  <2>2. QED
    BY <1>15, <1>16, <2>1 DEF BetweenLines
<1>18. QED
  BY <1>13, <1>17 DEF ItemsRead

-----------------------------------------------------------------------------
(* Splitting a list or a request that was written.                           *)

ListRead(t, fields) ==
  \/ /\ pc = "split" /\ fields # << >>
     /\ \E q \in Nat : LineIs(t, q, Len(t) + 1) /\ Reading(fields, q)
  \/ pc = "end" /\ elements = Texts(fields)

LEMMA StartsAscend ==
  ASSUME NEW fields \in Seq(Fields), NEW i \in 1..Len(fields)
  PROVE  /\ Start(fields, i) \in Nat /\ Start(fields, i + 1) \in Nat
         /\ Start(fields, Len(fields) + 1) \in Nat /\ Len(FieldText(fields[i])) \in Nat
         /\ Start(fields, i + 1) = Start(fields, i) + Len(FieldText(fields[i])) + 1
         /\ i # Len(fields) => Start(fields, i + 1) < Start(fields, Len(fields) + 1)
<1> DEFINE n == Len(fields)
           st(k) == Start(fields, k)
<1>1. n \in Nat /\ \A k \in 1..n : Len(FieldText(fields[k])) \in Nat
  BY FieldsAre, ClosedIs
<1>2. i \in 1..(n + 1) /\ i + 1 \in 1..(n + 1) /\ n + 1 \in 1..(n + 1)
  BY <1>1
<1>3. /\ st(i) \in Nat /\ st(i + 1) \in Nat /\ st(n + 1) \in Nat
      /\ st(i + 1) = st(i) + Len(FieldText(fields[i])) + 1
  BY <1>2, Starts
<1>4. ASSUME i # n PROVE st(i + 1) < st(n + 1)
  <2>1. i + 1 \in 1..n /\ (i + 1) + 1 \in 1..(n + 1) /\ (i + 1) + 1 =< n + 1
    BY <1>1, <1>4
  <2>2. /\ st((i + 1) + 1) = st(i + 1) + Len(FieldText(fields[i + 1])) + 1
        /\ st((i + 1) + 1) =< st(n + 1) /\ st((i + 1) + 1) \in Nat
    BY <1>2, <2>1, Starts
  <2>3. Len(FieldText(fields[i + 1])) \in Nat
    BY <1>1, <2>1
  <2>4. QED
    <3>1. PICK x \in Nat, y \in Nat, z \in Nat, w \in Nat :
            /\ x = st(i + 1) /\ y = st((i + 1) + 1) /\ z = st(n + 1)
            /\ w = Len(FieldText(fields[i + 1]))
      BY <1>3, <2>2, <2>3
    <3>2. y = x + w + 1 /\ y =< z
      BY <2>2, <3>1
    <3>3. x < z
      BY <3>2
    <3>4. QED
      BY <3>1, <3>3
<1>5. QED
  BY <1>1, <1>3, <1>4

LEMMA ListSplits ==
  ASSUME Types, Types', NEW t, NEW fields, WellFormed(fields), t = ListText(fields),
         fields # << >> => ~fields[Len(fields)].quoted,
         ListRead(t, fields), SplitChar
  PROVE  ListRead(t, fields)'
<1>1. pc = "split" /\ UNCHANGED <<line, pc>> /\ InLine
  BY DEF SplitChar, InLine
<1>2. fields # << >>
  BY <1>1 DEF ListRead
<1>3. PICK q \in Nat : LineIs(t, q, Len(t) + 1) /\ Reading(fields, q)
  BY <1>1 DEF ListRead
<1>4. fields \in Seq(Fields)
  BY DEF WellFormed
<1>5. /\ LaidOut(t, 0, fields, FALSE) /\ Len(t) \in Nat
      /\ Start(fields, Len(fields) + 1) = Len(t) + 1
  BY <1>2, <1>4, ListLaid
<1>6. 0 \in Nat /\ 0 + q = q /\ 0 + Start(fields, Len(fields) + 1) = Len(t) + 1
  BY <1>5
<1>7. PICK e : e = Len(t) + 1
  OBVIOUS
<1>8. EndsAt(t, 0, fields, FALSE, q, e)
  BY <1>2, <1>6, <1>7 DEF EndsAt
<1>9. LineIs(t, 0 + q, e)
  BY <1>3, <1>6, <1>7
<1>10. Advances(fields, q)
  BY <1>1, <1>3, <1>5, <1>6, <1>8, <1>9, SplitAdvances
<1>11. PICK d \in 1..2 : pos' = pos + d /\ Reading(fields, q + d)'
  BY <1>10 DEF Advances
<1>12. LineIs(t, q + d, Len(t) + 1)'
  BY <1>1, <1>3, <1>11, RestOfLine
<1>13. q + d \in Nat
  OBVIOUS
<1>14. QED
  BY <1>1, <1>2, <1>11, <1>12, <1>13 DEF ListRead

LEMMA ListEnds ==
  ASSUME Types, NEW t, NEW fields, WellFormed(fields), t = ListText(fields), form # "file",
         fields # << >> => ~fields[Len(fields)].quoted,
         fields # << >> /\ form = "request" => fields[Len(fields)].text # << >>,
         ListRead(t, fields), EndSplit
  PROVE  ListRead(t, fields)'
<1> DEFINE n == Len(fields)
           st(i) == Start(fields, i)
<1>1. pc = "split" /\ pos > Len(line)
  BY DEF EndSplit
<1>2. fields # << >>
  BY <1>1 DEF ListRead
<1>3. PICK q \in Nat : LineIs(t, q, Len(t) + 1) /\ Reading(fields, q)
  BY <1>1 DEF ListRead
<1>4. fields \in Seq(Fields) /\ n \in Nat /\ n # 0
  BY <1>2, FieldsAre, EmptySeq DEF WellFormed
<1>5. n \in 1..n /\ ~fields[n].quoted
  BY <1>2, <1>4
<1>6. LaidOut(t, 0, fields, FALSE) /\ Len(t) \in Nat /\ st(n + 1) = Len(t) + 1
  BY <1>2, <1>4, ListLaid
<1>7. st(n + 1) = q + 1
  <2>1. Len(t) + 1 \in Nat
    BY <1>6
  <2>2. Len(t) + 1 = q + 1
    BY <1>1, <1>3, <2>1, AtNewLine
  <2>3. QED
    BY <1>6, <2>2
<1>8. PICK i \in 1..(n + 1) : ReadingAt(fields, i, q)
  BY <1>3 DEF Reading
<1>9. elements = SubSeq(Texts(fields), 1, i - 1)
  BY <1>8 DEF ReadingAt
<1>10. i = n + 1 \/ (i \in 1..n /\ st(i) \in Nat /\ st(i + 1) \in Nat
                    /\ (i # n => st(i + 1) < st(n + 1)) /\ (i # n => st(i + 1) =< q)
                    /\ Len(FieldText(fields[i])) \in Nat
                    /\ st(i + 1) = st(i) + Len(FieldText(fields[i])) + 1)
  <2>1. i = n + 1 \/ i \in 1..n
    BY <1>4
  <2>2. QED
    BY <1>4, <1>7, <2>1, StartsAscend
<1>11. fields[n].text \in Seq(Characters) /\ FieldText(fields[n]) = fields[n].text
  BY <1>4, <1>5, FieldsAre, FieldIs DEF FieldText
<1>12. CASE AtField(fields, i, q)
  <2>1. first /\ s = << >> /\ q = st(i)
    BY <1>12 DEF AtField
  <2>2. i # n + 1
    BY <1>7, <2>1
  <2>3. i = n
    BY <1>10, <2>1, <2>2
  <2>4. Len(fields[n].text) = 0
    BY <1>7, <1>10, <1>11, <2>1, <2>2, <2>3
  <2>5. fields[n].text = << >>
    BY <1>11, <2>4, EmptySeq
  <2>6. form # "request"
    BY <1>2, <2>5
  <2>7. elements' = Append(elements, s) /\ pc' = "end"
    BY <2>6 DEF EndSplit, RowDone
  <2>8. elements' = Texts(fields)
    BY <1>4, <1>5, <1>9, <2>1, <2>3, <2>5, <2>7, TextsAre
  <2>9. QED
    BY <2>7, <2>8 DEF ListRead
<1>13. CASE InQuoted(fields, i, q)
  <2>1. i \in 1..n /\ fields[i].quoted
    BY <1>13 DEF InQuoted
  <2>2. PICK j \in 0..Len(fields[i].text) : q = At(fields, i, j)
    BY <1>13 DEF InQuoted
  <2>3. QuotedLaid(t, 0, fields, i, FALSE)
    BY <1>4, <1>6, <2>1, QuotedPlaces
  <2>4. q + 2 =< st(i + 1)
    BY <2>2, <2>3 DEF QuotedLaid
  <2>5. i # n
    BY <1>5, <2>1
  <2>6. st(i + 1) =< q /\ st(i + 1) \in Nat
    BY <1>4, <1>10, <2>1, <2>5
  <2>7. QED
    BY <2>4, <2>6
<1>14. CASE InPlain(fields, i, q)
  <2>1. i \in 1..n /\ ~fields[i].quoted /\ ~first
    BY <1>14 DEF InPlain
  <2>2. PICK j \in 1..Len(fields[i].text) : s = SubSeq(fields[i].text, 1, j) /\ q = At(fields, i, j)
    BY <1>14 DEF InPlain
  <2>3. PlainLaid(t, 0, fields, i, FALSE)
    BY <1>4, <1>6, <2>1, PlainPlaces
  <2>4. /\ Len(fields[i].text) \in Nat
        /\ \A l \in 0..Len(fields[i].text) : At(fields, i, l) = st(i) + l
        /\ At(fields, i, Len(fields[i].text)) + 1 = st(i + 1)
    BY <2>3 DEF PlainLaid
  <2>5. j \in 0..Len(fields[i].text) /\ Len(fields[i].text) \in 0..Len(fields[i].text)
    BY <2>4
  <2>6. q = st(i) + j /\ st(i) + Len(fields[i].text) + 1 = st(i + 1)
    BY <2>2, <2>4, <2>5
  <2>7. st(i) \in Nat /\ (i # n => st(i + 1) =< q)
    BY <1>4, <1>10, <2>1
  <2>8. i = n /\ j = Len(fields[i].text)
    <3>1. i = n
      BY <2>4, <2>6, <2>7
    <3>2. QED
      BY <1>7, <2>4, <2>6, <2>7, <3>1
  <2>9. s = fields[n].text
    BY <1>11, <2>2, <2>8, PrefixGrows
  <2>10. elements' = Append(elements, s) /\ pc' = "end"
    BY <2>1 DEF EndSplit, RowDone
  <2>11. elements' = Texts(fields)
    BY <1>4, <1>5, <1>9, <2>8, <2>9, <2>10, TextsAre
  <2>12. QED
    BY <2>10, <2>11 DEF ListRead
<1>15. QED
  BY <1>8, <1>12, <1>13, <1>14 DEF ReadingAt

-----------------------------------------------------------------------------
(* The invariant: of what was written, as much has been read as was taken.   *)

ListFits(t, fields) ==
  /\ WellFormed(fields) /\ t = ListText(fields)
  /\ fields # << >> => ~fields[Len(fields)].quoted
  /\ fields # << >> /\ (Len(fields) = 1 \/ form = "request") => fields[Len(fields)].text # << >>

KnownFileRead ==
  \E t : /\ FileWritten(t, written.items, written.passed, written.rest)
         /\ FileRead(t, written.items, written.passed)

KnownListRead == \E t : ListFits(t, written.items) /\ ListRead(t, written.items)

KnownRead == written.known => IF form = "file" THEN KnownFileRead ELSE KnownListRead

Inv == Types /\ KnownRead

LEMMA ItemsStep ==
  ASSUME Types, Types', NEW t, NEW items, NEW passed, FileLaid(t, items, passed), form = "file",
         ItemsRead(t, items, passed), Next
  PROVE  FileRead(t, items, passed)'
<1>1. CASE NextLine
  <2>1. pc = "next" /\ BetweenLines(t, items, passed)
    BY <1>1 DEF NextLine, ItemsRead
  <2>2. PICK k \in 1..(Len(items) + 1) : \E m \in 0..Len(passed[k]) : BetweenAt(t, items, passed, k, m)
    BY <2>1 DEF BetweenLines
  <2>3. PICK m \in 0..Len(passed[k]) : BetweenAt(t, items, passed, k, m)
    BY <2>2
  <2>4. CASE m # Len(passed[k])
    BY <1>1, <2>1, <2>3, <2>4, NoisePassed DEF FileRead
  <2>5. CASE m = Len(passed[k]) /\ k = Len(items) + 1
    <3>1. CASE Len(t) = EndOf(items, passed, Len(items)) + Len(passed[Len(items) + 1])
      BY <1>1, <2>1, <2>3, <2>5, <3>1, EndFound DEF FileRead
    <3>2. CASE Len(t) # EndOf(items, passed, Len(items)) + Len(passed[Len(items) + 1])
      <4>1. Len(items) \in Nat
        BY DEF FileLaid
      <4>2. QED
        BY <2>3, <2>5, <3>2, <4>1, RestBegins DEF FileRead
    <3>3. QED
      BY <3>1, <3>2
  <2>6. CASE m = Len(passed[k]) /\ k # Len(items) + 1
    <3>1. k \in 1..Len(items)
      <4>1. Len(items) \in Nat
        BY DEF FileLaid
      <4>2. QED
        BY <2>6, <4>1
    <3>2. items[k].kind \in {"section", "row"}
      BY <3>1, ItemIs DEF FileLaid
    <3>3. QED
      BY <1>1, <2>1, <2>3, <2>6, <3>1, <3>2, SectionRead, RowBegins DEF FileRead
  <2>7. QED
    BY <2>4, <2>5, <2>6
<1>2. CASE NoMoreLines
  <2>1. pc = "next" /\ eof /\ pc' = "end" /\ read' = read
    BY <1>2 DEF NoMoreLines, AtEnd
  <2>2. BetweenLines(t, items, passed)
    BY <2>1 DEF ItemsRead
  <2>3. PICK k \in 1..(Len(items) + 1) : \E m \in 0..Len(passed[k]) : BetweenAt(t, items, passed, k, m)
    BY <2>2 DEF BetweenLines
  <2>4. k = Len(items) + 1 /\ read = ReadTo(items, k - 1)
    BY <2>1, <2>3 DEF BetweenAt
  <2>5. k - 1 = Len(items)
    BY <2>4 DEF FileLaid
  <2>6. QED
    BY <2>1, <2>4, <2>5 DEF ItemsRead, FileRead
<1>3. CASE SplitChar
  <2>1. pc = "split"
    BY <1>3 DEF SplitChar, InLine
  <2>2. InRow(t, items, passed)
    BY <2>1 DEF ItemsRead
  <2>3. QED
    BY <1>3, <2>1, <2>2, SplitInRow DEF FileRead
<1>4. CASE ContinueRow
  <2>1. pc = "split"
    BY <1>4 DEF ContinueRow
  <2>2. InRow(t, items, passed)
    BY <2>1 DEF ItemsRead
  <2>3. QED
    BY <1>4, <2>1, <2>2, RowContinues DEF FileRead
<1>5. CASE EndSplit
  <2>1. pc = "split"
    BY <1>5 DEF EndSplit
  <2>2. InRow(t, items, passed)
    BY <2>1 DEF ItemsRead
  <2>3. QED
    BY <1>5, <2>1, <2>2, RowEnds DEF FileRead
<1>6. QED
  BY <1>1, <1>2, <1>3, <1>4, <1>5 DEF Next

LEMMA FileStep ==
  ASSUME Types, Types', NEW t, NEW items, NEW passed, FileLaid(t, items, passed), form = "file",
         FileRead(t, items, passed), Next
  PROVE  FileRead(t, items, passed)'
<1>1. CASE ItemsRead(t, items, passed)
  BY <1>1, ItemsStep
<1>2. CASE Beyond(t, items, passed)
  <2>1. Len(items) \in Nat
    BY DEF FileLaid
  <2>2. QED
    BY <1>2, <2>1, BeyondOn DEF FileRead
<1>3. QED
  BY <1>1, <1>2 DEF FileRead

LEMMA ListStep ==
  ASSUME Types, Types', NEW t, NEW fields, ListFits(t, fields), form # "file",
         ListRead(t, fields), Next
  PROVE  ListRead(t, fields)'
<1>1. /\ WellFormed(fields) /\ t = ListText(fields)
      /\ fields # << >> => ~fields[Len(fields)].quoted
      /\ fields # << >> /\ form = "request" => fields[Len(fields)].text # << >>
  BY DEF ListFits
<1>2. pc # "next"
  BY DEF ListRead
<1>3. ~NextLine /\ ~NoMoreLines /\ ~ContinueRow
  BY <1>2 DEF NextLine, NoMoreLines, ContinueRow
<1>4. CASE SplitChar
  BY <1>1, <1>4, ListSplits
<1>5. CASE EndSplit
  BY <1>1, <1>5, ListEnds
<1>6. QED
  BY <1>3, <1>4, <1>5 DEF Next

LEMMA KnownInit == Init => KnownRead
<1> SUFFICES ASSUME Init, written.known PROVE IF form = "file" THEN KnownFileRead ELSE KnownListRead
  BY DEF KnownRead
<1>1. PICK i \in Inputs :
        /\ form = i.form /\ written = i.written
        /\ input = IF i.form = "file" THEN i.text ELSE << >>
        /\ line = IF i.form = "file" THEN << >> ELSE i.text
        /\ pc = IF i.form = "file" THEN "next" ELSE IF i.text = << >> THEN "end" ELSE "split"
  BY DEF Init
<1>2. PICK t \in Seq(Characters) : t = i.text
  BY InputAssumption
<1>3. /\ Len(t) \in Nat /\ eof = FALSE /\ pos = 1 /\ s = << >> /\ first = TRUE /\ escaped = FALSE
      /\ elements = << >> /\ read = << >>
  BY LenProperties DEF Init
<1>4. CASE form = "file"
  <2>1. PICK items, passed, rest : /\ items = written.items /\ passed = written.passed
                                   /\ rest = written.rest
    OBVIOUS
  <2>2. FileWritten(t, items, passed, rest)
    BY <1>1, <1>2, <1>4, <2>1, InputAssumption
  <2>3. FileLaid(t, items, passed)
    BY <2>2, FileIs
  <2>4. Len(items) \in Nat /\ 1 \in 1..(Len(items) + 1) /\ 1 - 1 = 0
    BY <2>3 DEF FileLaid
  <2>5. 0 \in 0..Len(passed[1])
    BY <2>3, <2>4, Bounds
  <2>6. input = Behind(t, 0)
    <3>1. SubSeq(t, 1, Len(t)) = t /\ 0 + 1 = 1
      BY SubSeqFull
    <3>2. QED
      BY <1>1, <1>2, <1>4, <3>1 DEF Behind
  <2>7. EndOf(items, passed, 1 - 1) + 0 = 0
    BY <2>3, <2>4 DEF FileLaid
  <2>8. read = ReadTo(items, 1 - 1)
    BY <1>3, <2>4 DEF ReadTo
  <2>9. BetweenAt(t, items, passed, 1, 0)
    BY <1>3, <2>6, <2>7, <2>8 DEF BetweenAt
  <2>10. FileRead(t, items, passed)
    BY <1>1, <1>4, <2>4, <2>5, <2>9 DEF FileRead, ItemsRead, BetweenLines
  <2>11. QED
    BY <1>4, <2>1, <2>2, <2>10 DEF KnownFileRead
<1>5. CASE form # "file"
  <2>1. PICK fields : fields = written.items
    OBVIOUS
  <2>2. ListWritten(t, fields, form = "request")
    BY <1>1, <1>2, <1>5, <2>1, InputAssumption
  <2>3. ListFits(t, fields)
    BY <2>2 DEF ListWritten, ListFits
  <2>4. fields \in Seq(Fields) /\ t = ListText(fields) /\ Len(fields) \in Nat
    BY <2>3, FieldsAre DEF ListFits, WellFormed
  <2>5. line = t
    BY <1>1, <1>2, <1>5
  <2>6. CASE fields = << >>
    <3>1. Joined(fields) = << >>
      <4>1. Len(fields) = 0
        BY <2>4, <2>6, EmptySeq
      <4>2. Len(Joined(fields)) = 0 /\ Joined(fields) \in Seq(Seq(Characters))
        BY <2>4, <4>1, JoinedIs
      <4>3. QED
        BY <4>2, EmptySeq
    <3>2. t = << >>
      BY <2>4, <3>1, EmptyFlat DEF ListText
    <3>3. pc = "end"
      BY <1>1, <1>2, <1>5, <3>2
    <3>4. elements = Texts(fields)
      <4>1. Len(fields) = 0
        BY <2>4, <2>6, EmptySeq
      <4>2. SubSeq(Texts(fields), 1, 0) = << >> /\ SubSeq(Texts(fields), 1, Len(fields)) = Texts(fields)
        BY <2>4, TextsAre
      <4>3. QED
        BY <1>3, <4>1, <4>2
    <3>5. QED
      BY <1>5, <2>1, <2>3, <3>3, <3>4 DEF KnownListRead, ListRead
  <2>7. CASE fields # << >>
    <3>1. Start(fields, Len(fields) + 1) = Len(t) + 1
      BY <2>4, <2>7, ListLaid
    <3>2. Len(fields) # 0 /\ 1 \in 1..Len(fields) /\ 1 \in 1..(Len(fields) + 1)
      BY <2>4, <2>7, EmptySeq
    <3>3. /\ Start(fields, 1) = 0 /\ Start(fields, 1 + 1) = Start(fields, 1) + Len(FieldText(fields[1])) + 1
          /\ Len(FieldText(fields[1])) \in Nat /\ Start(fields, Len(fields) + 1) \in Nat
          /\ 1 # Len(fields) => Start(fields, 1 + 1) < Start(fields, Len(fields) + 1)
      BY <2>4, <3>2, Starts, StartsAscend
    <3>4. t # << >>
      <4> SUFFICES ASSUME t = << >> PROVE FALSE
        OBVIOUS
      <4>1. Len(t) = 0
        BY EmptySeq
      <4>2. Start(fields, Len(fields) + 1) = 1
        BY <3>1, <4>1
      <4>3. Len(fields) = 1
        BY <3>3, <4>2
      <4>4. Len(FieldText(fields[1])) = 0
        BY <3>3, <4>2, <4>3
      <4>5. ~fields[1].quoted /\ fields[1].text # << >>
        BY <2>3, <2>7, <4>3 DEF ListFits
      <4>6. FieldText(fields[1]) = fields[1].text /\ fields[1].text \in Seq(Characters)
        BY <2>4, <3>2, <4>5, FieldsAre, FieldIs DEF FieldText
      <4>7. QED
        BY <4>4, <4>5, <4>6, EmptySeq
    <3>5. pc = "split"
      BY <1>1, <1>2, <1>5, <3>4
    <3>6. LineIs(t, 0, Len(t) + 1)
      <4>1. Len(t) + 1 = 0 + (Len(t) - 1) + 2
        BY <1>3
      <4>2. ASSUME NEW l \in 0..(Len(t) - 1) PROVE t[1 + l] = t[0 + l + 1]
        <5>1. 1 + l = 0 + l + 1
          BY <1>3
        <5>2. QED
          BY <5>1
      <4>3. QED
        BY <1>3, <2>5, <4>1, <4>2 DEF LineIs
    <3>7. Reading(fields, 0)
      <4>1. 1 - 1 = 0 /\ elements = SubSeq(Texts(fields), 1, 1 - 1)
        BY <1>3, <2>4, TextsAre
      <4>2. AtField(fields, 1, 0)
        BY <1>3, <3>3 DEF AtField
      <4>3. QED
        BY <3>2, <4>1, <4>2 DEF Reading, ReadingAt
    <3>8. QED
      <4>1. 0 \in Nat
        OBVIOUS
      <4>2. ListRead(t, fields)
        BY <2>7, <3>5, <3>6, <3>7, <4>1 DEF ListRead
      <4>3. QED
        BY <1>5, <2>1, <2>3, <4>2 DEF KnownListRead
  <2>8. QED
    BY <2>6, <2>7
<1>6. QED
  BY <1>4, <1>5

LEMMA KnownStays ==
  ASSUME UNCHANGED vars, KnownRead
  PROVE  KnownRead'
<1>1. UNCHANGED <<form, written, input, eof, line, pos, s, first, escaped, elements, read, pc>>
  BY DEF vars, given, stream, field
<1>2. \A fields, q : Reading(fields, q) => Reading(fields, q)'
  BY <1>1 DEF Reading, ReadingAt, AtField, InQuoted, InPlain
<1>3. \A t, c, e : LineIs(t, c, e) => LineIs(t, c, e)'
  BY <1>1 DEF LineIs
<1>4. ASSUME NEW t, NEW items, NEW passed, FileRead(t, items, passed)
      PROVE  FileRead(t, items, passed)'
  <2>1. BetweenLines(t, items, passed) => BetweenLines(t, items, passed)'
    BY <1>1 DEF BetweenLines, BetweenAt
  <2>2. ASSUME NEW k, NEW q, NEW e, InRowAt(t, items, passed, k, q, e)
        PROVE  InRowAt(t, items, passed, k, q, e)'
    BY <1>1, <1>2, <1>3, <2>2 DEF InRowAt
  <2>3. InRow(t, items, passed) => InRow(t, items, passed)'
    BY <2>2 DEF InRow
  <2>4. ItemsRead(t, items, passed) => ItemsRead(t, items, passed)'
    BY <1>1, <2>1, <2>3 DEF ItemsRead
  <2>5. Beyond(t, items, passed) => Beyond(t, items, passed)'
    BY <1>1 DEF Beyond
  <2>6. QED
    BY <1>4, <2>4, <2>5 DEF FileRead
<1>5. ASSUME NEW t, NEW fields, ListFits(t, fields), ListRead(t, fields)
      PROVE  (ListFits(t, fields) /\ ListRead(t, fields))'
  BY <1>1, <1>2, <1>3, <1>5 DEF ListFits, ListRead
<1>6. QED
  BY <1>1, <1>4, <1>5 DEF KnownRead, KnownFileRead, KnownListRead

LEMMA KnownNext == Types /\ Types' /\ KnownRead /\ Next => KnownRead'
<1> SUFFICES ASSUME Types, Types', KnownRead, Next, written'.known PROVE KnownRead'
  BY DEF KnownRead
<1>1. form' = form /\ written' = written
  BY DEF Next, NextLine, NoMoreLines, SplitChar, ContinueRow, EndSplit, given
<1>2. CASE form = "file"
  <2>1. PICK t, items, passed, rest :
          /\ items = written.items /\ passed = written.passed /\ rest = written.rest
          /\ FileWritten(t, items, passed, rest) /\ FileRead(t, items, passed)
    BY <1>1, <1>2 DEF KnownRead, KnownFileRead
  <2>2. FileRead(t, items, passed)'
    BY <1>2, <2>1, FileIs, FileStep
  <2>3. QED
    BY <1>1, <1>2, <2>1, <2>2 DEF KnownRead, KnownFileRead
<1>3. CASE form # "file"
  <2>1. PICK t, fields : fields = written.items /\ ListFits(t, fields) /\ ListRead(t, fields)
    BY <1>1, <1>3 DEF KnownRead, KnownListRead
  <2>2. ListRead(t, fields)'
    BY <1>3, <2>1, ListStep
  <2>3. ListFits(t, fields)'
    BY <1>1, <2>1 DEF ListFits
  <2>4. QED
    BY <1>1, <1>3, <2>1, <2>2, <2>3 DEF KnownRead, KnownListRead
<1>4. QED
  BY <1>2, <1>3

LEMMA PrefixOf ==
  ASSUME NEW S, NEW a \in Seq(S), NEW r \in Seq(S), BeginsWith(r, a)
  PROVE  IsPrefix(a, r)
<1>1. PICK n \in Nat, m \in Nat : n = Len(a) /\ m = Len(r) /\ n =< m
  BY LenProperties DEF BeginsWith
<1>2. /\ SubSeq(a, 1, n) \in Seq(S) /\ Len(SubSeq(a, 1, n)) = n
      /\ \A i \in 1..n : SubSeq(a, 1, n)[i] = a[i]
      /\ SubSeq(r, 1, n) \in Seq(S) /\ Len(SubSeq(r, 1, n)) = n
      /\ \A i \in 1..n : SubSeq(r, 1, n)[i] = r[i]
  BY <1>1
<1>3. \A i \in 1..n : r[i] = a[i]
  BY <1>1 DEF BeginsWith
<1>4. SubSeq(a, 1, n) = SubSeq(r, 1, n)
  BY <1>1, <1>2, <1>3, SeqEqual
<1>5. QED
  BY <1>1, <1>4 DEF IsPrefix

\* When the end is reached, what was read is what was written.
LEMMA KnownAtEnd == Inv => ReadAsWritten
<1> SUFFICES ASSUME Inv PROVE ReadAsWritten
  OBVIOUS
<1>1. TypeOK
  BY DEF Inv, Types
<1>2. ASSUME pc = "end", written.known, form = "file"
      PROVE  /\ IsPrefix(AllRead(written.items), read)
             /\ written.rest = << >> => read = AllRead(written.items)
  <2>1. PICK t, items, passed, rest :
          /\ items = written.items /\ passed = written.passed /\ rest = written.rest
          /\ FileWritten(t, items, passed, rest) /\ FileRead(t, items, passed)
    BY <1>2 DEF Inv, KnownRead, KnownFileRead
  <2>2. Len(items) \in Nat /\ AllRead(items) = ReadTo(items, Len(items))
    <3>1. Len(items) \in Nat /\ DOMAIN items = 1..Len(items)
      BY <2>1, LenProperties DEF FileWritten
    <3>2. QED
      BY <3>1 DEF AllRead, ReadTo
  <2>3. rest = << >> => ~Beyond(t, items, passed)
    BY <2>1, FileIs DEF Beyond
  <2>4. ItemsRead(t, items, passed) => read = AllRead(items)
    BY <1>2, <2>2 DEF ItemsRead
  <2>5. IsPrefix(AllRead(items), read)
    <3>1. PICK S : /\ read \in Seq(S) /\ BeginsWith(read, AllRead(items))
                   /\ AllRead(items) \in Seq(S)
      <4> DEFINE V == {ReadOf(items[i]) : i \in 1..Len(items)}
      <4>1. AllRead(items) \in Seq(V)
        BY <2>2 DEF ReadTo
      <4> HIDE DEF V
      <4>2. CASE ItemsRead(t, items, passed)
        <5>1. BeginsWith(AllRead(items), AllRead(items))
          BY <4>1 DEF BeginsWith
        <5>2. QED
          BY <2>4, <4>1, <4>2, <5>1
      <4>3. CASE Beyond(t, items, passed)
        <5>1. PICK T : read \in Seq(T) /\ BeginsWith(read, AllRead(items))
          BY <2>2, <4>3 DEF Beyond
        <5>2. read \in Seq(T \cup V) /\ AllRead(items) \in Seq(T \cup V)
          BY <4>1, <5>1
        <5>3. QED
          BY <5>1, <5>2
      <4>4. QED
        BY <2>1, <4>2, <4>3 DEF FileRead
    <3>2. QED
      BY <3>1, PrefixOf
  <2>6. QED
    BY <2>1, <2>3, <2>4, <2>5 DEF FileRead
<1>3. ASSUME pc = "end", written.known, form # "file"
      PROVE  elements = Texts(written.items)
  BY <1>3 DEF Inv, KnownRead, KnownListRead, ListRead
<1>4. QED
  BY <1>1, <1>2, <1>3 DEF ReadAsWritten, ReadBack

\* What FileWriter writes, FileReader reads back, and so do the lists and requests that are
\* split: sections, rows and fields of any number and length, of any characters, with
\* whatever comments and empty lines between them.  Nothing is lost, nothing is taken
\* for a mark, and a field that goes over several lines is one field.  Whatever follows
\* the items, such as a row cut off by the end of the file, they are read before it.
THEOREM ReadBackAsWritten == Spec => []ReadAsWritten
<1>1. Init => Inv
  BY TypesInit, KnownInit DEF Inv
<1>2. Inv /\ [Next]_vars => Inv'
  <2> SUFFICES ASSUME Inv, [Next]_vars PROVE Inv'
    OBVIOUS
  <2>1. Types /\ Types' /\ KnownRead
    BY TypesNext DEF Inv
  <2>2. KnownRead'
    BY <2>1, KnownNext, KnownStays
  <2>3. QED
    BY <2>1, <2>2 DEF Inv
<1>3. QED
  BY <1>1, <1>2, KnownAtEnd, PTL DEF Spec

==============================================================================

--------------------------- MODULE NodeListProofs ---------------------------
(***************************************************************************)
(* What the list operations preserve, for lists of any length.             *)
(***************************************************************************)
EXTENDS NodeList, SequenceTheorems, TLAPS

\* find returns a position of the element.
LEMMA PositionFound ==
    ASSUME NEW S, NEW s \in Seq(S), NEW x \in Elements(s)
    PROVE  Position(s, x) \in 1..Len(s) /\ s[Position(s, x)] = x
<1>1. \E i \in 1..Len(s) : s[i] = x  BY DEF Elements
<1> QED  BY <1>1 DEF Position

\* erase takes one element out and keeps the order of the others.
LEMMA EraseIsSeq ==
    ASSUME NEW S, NEW s \in Seq(S), NEW x \in Elements(s)
    PROVE  /\ Erase(s, x) \in Seq(S)
           /\ Len(Erase(s, x)) = Len(s) - 1
           /\ \A i \in 1..Len(s) - 1 :
                 Erase(s, x)[i] = IF i < Position(s, x) THEN s[i] ELSE s[i + 1]
<1> DEFINE p == Position(s, x)
           a == SubSeq(s, 1, p - 1)
           b == SubSeq(s, p + 1, Len(s))
<1>1. p \in 1..Len(s) /\ Len(s) \in Nat /\ DOMAIN s = 1..Len(s)
  BY PositionFound, LenProperties
<1>2. \A i \in 1..Len(s) : s[i] \in S  BY ElementOfSeq
<1> HIDE DEF p
<1>3. /\ a \in Seq(S) /\ Len(a) = p - 1
      /\ \A i \in 1..p - 1 : a[i] = s[i]
  <2>1. \A i \in 1..p - 1 : s[i] \in S  BY <1>1, <1>2
  <2>2. 1 \in Int /\ p - 1 \in Int  BY <1>1
  <2>3. /\ a \in Seq(S)
        /\ Len(a) = IF 1 <= p - 1 THEN (p - 1) - 1 + 1 ELSE 0
        /\ \A i \in 1..(p - 1) - 1 + 1 : a[i] = s[1 + i - 1]
    BY <2>1, <2>2, SubSeqProperties
  <2> QED  BY <2>3, <1>1
<1>4. /\ b \in Seq(S) /\ Len(b) = Len(s) - p
      /\ \A i \in 1..Len(s) - p : b[i] = s[p + i]
  <2>1. \A i \in p + 1..Len(s) : s[i] \in S  BY <1>1, <1>2
  <2>2. p + 1 \in Int /\ Len(s) \in Int  BY <1>1
  <2>3. /\ b \in Seq(S)
        /\ Len(b) = IF p + 1 <= Len(s) THEN Len(s) - (p + 1) + 1 ELSE 0
        /\ \A i \in 1..Len(s) - (p + 1) + 1 : b[i] = s[(p + 1) + i - 1]
    BY <2>1, <2>2, SubSeqProperties
  <2> HIDE DEF a, b
  <2>4. Len(b) = Len(s) - p
    <3>1. Len(b) = IF p + 1 <= Len(s) THEN Len(s) - (p + 1) + 1 ELSE 0  BY <2>3
    <3>2. p \in Int /\ Len(s) \in Int /\ p <= Len(s)  BY <1>1
    <3> QED  BY <3>1, <3>2
  <2>5. ASSUME NEW i \in 1..Len(s) - p  PROVE b[i] = s[p + i]
    <3>1. i \in 1..Len(s) - (p + 1) + 1 /\ (p + 1) + i - 1 = p + i  BY <1>1
    <3> QED  BY <3>1, <2>3
  <2> QED  BY <2>3, <2>4, <2>5
<1> HIDE DEF a, b
<1>5. /\ a \o b \in Seq(S)
      /\ Len(a \o b) = Len(a) + Len(b)
      /\ \A i \in 1..Len(a) + Len(b) : (a \o b)[i] = IF i <= Len(a) THEN a[i] ELSE b[i - Len(a)]
  BY <1>3, <1>4, ConcatProperties
<1>6. Erase(s, x) = a \o b  BY DEF Erase, RemoveAt, a, b, p
<1>7. \A i \in 1..Len(s) - 1 : (a \o b)[i] = IF i < p THEN s[i] ELSE s[i + 1]
  <2> SUFFICES ASSUME NEW i \in 1..Len(s) - 1
               PROVE  (a \o b)[i] = IF i < p THEN s[i] ELSE s[i + 1]
    OBVIOUS
  <2>1. (a \o b)[i] = IF i <= p - 1 THEN a[i] ELSE b[i - (p - 1)]
    BY <1>1, <1>3, <1>4, <1>5
  <2>2. CASE i < p  BY <2>1, <2>2, <1>1, <1>3
  <2>3. CASE ~(i < p)
    <3>1. i - (p - 1) \in 1..Len(s) - p /\ p + (i - (p - 1)) = i + 1  BY <2>3, <1>1
    <3> QED  BY <3>1, <2>1, <2>3, <1>1, <1>4
  <2> QED  BY <2>2, <2>3
<1>8. Len(a \o b) = Len(s) - 1  BY <1>1, <1>3, <1>4, <1>5
<1>9. a \o b \in Seq(S)  BY <1>5
<1> QED  BY <1>6, <1>7, <1>8, <1>9 DEF p

\* erase keeps a list free of duplicates and takes out x and nothing else.
LEMMA EraseElements ==
    ASSUME NEW S, NEW s \in Seq(S), NoDuplicates(s), NEW x \in Elements(s)
    PROVE  /\ NoDuplicates(Erase(s, x))
           /\ Elements(Erase(s, x)) = Elements(s) \ {x}
<1> DEFINE p == Position(s, x)
           e == Erase(s, x)
           Src(i) == IF i < p THEN i ELSE i + 1
<1>1. p \in 1..Len(s) /\ s[p] = x  BY PositionFound
<1>2. /\ Len(e) = Len(s) - 1 /\ Len(s) \in Nat
      /\ \A i \in 1..Len(s) - 1 : e[i] = IF i < p THEN s[i] ELSE s[i + 1]
  BY EraseIsSeq, LenProperties
<1> HIDE DEF p, e
<1>3. \A i \in 1..Len(e) : Src(i) \in 1..Len(s) /\ Src(i) # p /\ e[i] = s[Src(i)]
  BY <1>1, <1>2
<1>4. NoDuplicates(e)
  <2> SUFFICES ASSUME NEW i \in 1..Len(e), NEW j \in 1..Len(e), e[i] = e[j]
               PROVE  i = j
    BY DEF NoDuplicates
  <2>1. Src(i) = Src(j)  BY <1>3 DEF NoDuplicates
  <2> QED  BY <2>1, <1>1, <1>2
<1>5. Elements(e) \subseteq Elements(s) \ {x}
  BY <1>1, <1>3 DEF Elements, NoDuplicates
<1>6. Elements(s) \ {x} \subseteq Elements(e)
  <2> SUFFICES ASSUME NEW k \in 1..Len(s), s[k] # x
               PROVE  \E i \in 1..Len(e) : e[i] = s[k]
    BY DEF Elements
  <2>1. CASE k < p
    <3>1. k \in 1..Len(e) /\ e[k] = s[k]  BY <2>1, <1>1, <1>2
    <3> QED  BY <3>1
  <2>2. CASE k > p
    <3>1. k - 1 \in 1..Len(e) /\ ~(k - 1 < p) /\ (k - 1) + 1 = k  BY <2>2, <1>1, <1>2
    <3>2. e[k - 1] = s[(k - 1) + 1]  BY <3>1, <1>2
    <3> QED  BY <3>1, <3>2
  <2>3. k # p  BY <1>1
  <2> QED  BY <2>1, <2>2, <2>3, <1>1, <1>2
<1> QED  BY <1>4, <1>5, <1>6 DEF e

\* The front stays the front when another element is erased.
LEMMA EraseKeepsFront ==
    ASSUME NEW S, NEW s \in Seq(S), NEW x \in Elements(s), NEW y, AtFront(s, y), y # x
    PROVE  AtFront(Erase(s, x), y)
<1> DEFINE p == Position(s, x)
           e == Erase(s, x)
<1>1. p \in 1..Len(s) /\ s[p] = x  BY PositionFound
<1>2. /\ e \in Seq(S) /\ Len(e) = Len(s) - 1 /\ Len(s) \in Nat
      /\ \A i \in 1..Len(s) - 1 : e[i] = IF i < p THEN s[i] ELSE s[i + 1]
  BY EraseIsSeq, LenProperties
<1> HIDE DEF p, e
<1>3. s[1] = y  BY DEF AtFront
<1>4. p > 1 /\ Len(s) > 1  BY <1>1, <1>3
<1>5. 1 \in 1..Len(s) - 1 /\ e[1] = s[1]  BY <1>4, <1>2
<1>6. e # <<>>  BY <1>2, <1>4
<1> QED  BY <1>2, <1>3, <1>5, <1>6 DEF e, AtFront

\* push_front puts x in front of what was there.
LEMMA PushFrontElements ==
    ASSUME NEW S, NEW s \in Seq(S), NEW x \in S
    PROVE  /\ PushFront(s, x) \in Seq(S)
           /\ AtFront(PushFront(s, x), x)
           /\ Elements(PushFront(s, x)) = Elements(s) \cup {x}
           /\ NoDuplicates(s) /\ x \notin Elements(s) => NoDuplicates(PushFront(s, x))
<1> DEFINE c == PushFront(s, x)
<1>1. Len(s) \in Nat  BY LenProperties
<1>2. <<x>> \in Seq(S) /\ Len(<<x>>) = 1 /\ <<x>>[1] = x  OBVIOUS
<1>3. /\ c \in Seq(S) /\ Len(c) = 1 + Len(s)
      /\ \A i \in 1..1 + Len(s) : c[i] = IF i <= 1 THEN <<x>>[i] ELSE s[i - 1]
  BY <1>2, ConcatProperties DEF PushFront
<1>4. c[1] = x /\ \A i \in 2..1 + Len(s) : c[i] = s[i - 1]
  BY <1>1, <1>2, <1>3
<1> HIDE DEF c
<1>5. AtFront(c, x)  BY <1>1, <1>3, <1>4 DEF AtFront
<1>6. Elements(c) \subseteq Elements(s) \cup {x}
  <2>1. ASSUME NEW i \in 1..Len(c), i # 1  PROVE c[i] \in Elements(s)
    <3>1. i \in 2..1 + Len(s) /\ i - 1 \in 1..Len(s)  BY <1>1, <1>3, <2>1
    <3> QED  BY <3>1, <1>4 DEF Elements
  <2>2. \A i \in 1..Len(c) : c[i] \in Elements(s) \cup {x}  BY <1>4, <2>1
  <2> QED  BY <2>2 DEF Elements
<1>7. Elements(s) \cup {x} \subseteq Elements(c)
  <2>1. x \in Elements(c)
    <3>1. 1 \in 1..Len(c)  BY <1>1, <1>3
    <3> QED  BY <3>1, <1>4 DEF Elements
  <2>2. ASSUME NEW k \in 1..Len(s)  PROVE s[k] \in Elements(c)
    <3>1. k + 1 \in 2..1 + Len(s) /\ (k + 1) - 1 = k /\ k + 1 \in 1..Len(c)  BY <1>1, <1>3
    <3>2. c[k + 1] = s[k]  BY <3>1, <1>4
    <3> QED  BY <3>1, <3>2 DEF Elements
  <2> QED  BY <2>1, <2>2 DEF Elements
<1>8. ASSUME NoDuplicates(s), x \notin Elements(s)  PROVE NoDuplicates(c)
  <2> SUFFICES ASSUME NEW i \in 1..Len(c), NEW j \in 1..Len(c), c[i] = c[j]  PROVE i = j
    BY DEF NoDuplicates
  <2>1. CASE i = 1 /\ j = 1  BY <2>1
  <2>2. CASE i = 1 /\ j # 1
    <3>1. j \in 2..1 + Len(s) /\ j - 1 \in 1..Len(s)  BY <2>2, <1>1, <1>3
    <3> QED  BY <3>1, <2>2, <1>4, <1>8 DEF Elements
  <2>3. CASE i # 1 /\ j = 1
    <3>1. i \in 2..1 + Len(s) /\ i - 1 \in 1..Len(s)  BY <2>3, <1>1, <1>3
    <3> QED  BY <3>1, <2>3, <1>4, <1>8 DEF Elements
  <2>4. CASE i # 1 /\ j # 1
    <3>1. /\ i \in 2..1 + Len(s) /\ i - 1 \in 1..Len(s)
          /\ j \in 2..1 + Len(s) /\ j - 1 \in 1..Len(s)
      BY <2>4, <1>1, <1>3
    <3>2. s[i - 1] = s[j - 1]  BY <3>1, <1>4
    <3>3. i - 1 = j - 1  BY <3>1, <3>2, <1>8 DEF NoDuplicates
    <3> QED  BY <3>1, <3>3
  <2> QED  BY <2>1, <2>2, <2>3, <2>4
<1> QED  BY <1>3, <1>5, <1>6, <1>7, <1>8 DEF c

\* insert puts x at position i and keeps the order of the others.
LEMMA InsertIsSeq ==
    ASSUME NEW S, NEW s \in Seq(S), NEW x \in S, NEW i \in 1..Len(s) + 1
    PROVE  /\ InsertAt(s, i, x) \in Seq(S)
           /\ Len(InsertAt(s, i, x)) = Len(s) + 1
           /\ \A j \in 1..Len(s) + 1 :
                 InsertAt(s, i, x)[j] = IF j < i THEN s[j] ELSE IF j = i THEN x ELSE s[j - 1]
<1> DEFINE a == SubSeq(s, 1, i - 1)
           b == SubSeq(s, i, Len(s))
           ax == a \o <<x>>
<1>1. Len(s) \in Nat /\ i \in Int /\ 1 <= i /\ i <= Len(s) + 1  BY LenProperties
<1>2. \A j \in 1..Len(s) : s[j] \in S  BY ElementOfSeq
<1>3. /\ a \in Seq(S) /\ Len(a) = i - 1
      /\ \A j \in 1..i - 1 : a[j] = s[j]
  <2>1. \A j \in 1..i - 1 : s[j] \in S  BY <1>1, <1>2
  <2>2. 1 \in Int /\ i - 1 \in Int  BY <1>1
  <2>3. /\ a \in Seq(S)
        /\ Len(a) = IF 1 <= i - 1 THEN (i - 1) - 1 + 1 ELSE 0
        /\ \A j \in 1..(i - 1) - 1 + 1 : a[j] = s[1 + j - 1]
    BY <2>1, <2>2, SubSeqProperties
  <2> QED  BY <2>3, <1>1
<1>4. /\ b \in Seq(S) /\ Len(b) = Len(s) - i + 1
      /\ \A j \in 1..Len(s) - i + 1 : b[j] = s[i + j - 1]
  <2>1. \A j \in i..Len(s) : s[j] \in S  BY <1>1, <1>2
  <2>3. /\ b \in Seq(S)
        /\ Len(b) = IF i <= Len(s) THEN Len(s) - i + 1 ELSE 0
        /\ \A j \in 1..Len(s) - i + 1 : b[j] = s[i + j - 1]
    BY <2>1, <1>1, SubSeqProperties
  <2> QED  BY <2>3, <1>1
<1> HIDE DEF a, b
<1>5. <<x>> \in Seq(S) /\ Len(<<x>>) = 1 /\ <<x>>[1] = x  OBVIOUS
<1>6. /\ ax \in Seq(S) /\ Len(ax) = i
      /\ \A j \in 1..i : ax[j] = IF j < i THEN s[j] ELSE x
  <2>1. /\ ax \in Seq(S) /\ Len(ax) = Len(a) + 1
        /\ \A j \in 1..Len(a) + 1 : ax[j] = IF j <= Len(a) THEN a[j] ELSE <<x>>[j - Len(a)]
    BY <1>3, <1>5, ConcatProperties
  <2> HIDE DEF ax
  <2>2. ASSUME NEW j \in 1..i  PROVE ax[j] = IF j < i THEN s[j] ELSE x
    <3>1. ax[j] = IF j <= i - 1 THEN a[j] ELSE <<x>>[j - (i - 1)]  BY <2>1, <1>1, <1>3
    <3>2. CASE j < i  BY <3>1, <3>2, <1>1, <1>3
    <3>3. CASE j = i
      <4>1. j - (i - 1) = 1 /\ ~(j <= i - 1)  BY <3>3, <1>1
      <4> QED  BY <4>1, <3>1, <3>3, <1>5
    <3> QED  BY <3>2, <3>3, <1>1
  <2> QED  BY <2>1, <2>2, <1>1, <1>3
<1> HIDE DEF ax
<1>7. /\ ax \o b \in Seq(S)
      /\ Len(ax \o b) = i + (Len(s) - i + 1)
      /\ \A j \in 1..i + (Len(s) - i + 1) :
            (ax \o b)[j] = IF j <= i THEN ax[j] ELSE b[j - i]
  BY <1>4, <1>6, ConcatProperties
<1>8. InsertAt(s, i, x) = ax \o b  BY DEF InsertAt, ax, a, b
<1>9. ASSUME NEW j \in 1..Len(s) + 1
      PROVE  (ax \o b)[j] = IF j < i THEN s[j] ELSE IF j = i THEN x ELSE s[j - 1]
  <2>1. (ax \o b)[j] = IF j <= i THEN ax[j] ELSE b[j - i]  BY <1>1, <1>7
  <2>2. CASE j <= i
    <3>1. j \in 1..i  BY <2>2, <1>1
    <3> QED  BY <3>1, <2>1, <2>2, <1>6, <1>1
  <2>3. CASE j > i
    <3>1. j - i \in 1..Len(s) - i + 1 /\ i + (j - i) - 1 = j - 1  BY <2>3, <1>1
    <3>2. b[j - i] = s[j - 1]  BY <3>1, <1>4
    <3> QED  BY <3>2, <2>1, <2>3, <1>1
  <2>4. j <= i \/ j > i  BY <1>1
  <2> QED  BY <2>2, <2>3, <2>4
<1>10. Len(ax \o b) = Len(s) + 1  BY <1>1, <1>7
<1>11. ax \o b \in Seq(S)  BY <1>7
<1> QED  BY <1>8, <1>9, <1>10, <1>11

\* insert adds x and nothing else.
LEMMA InsertElements ==
    ASSUME NEW S, NEW s \in Seq(S), NEW x \in S, NEW i \in 1..Len(s) + 1
    PROVE  /\ Elements(InsertAt(s, i, x)) = Elements(s) \cup {x}
           /\ NoDuplicates(s) /\ x \notin Elements(s) => NoDuplicates(InsertAt(s, i, x))
<1>9. /\ InsertAt(s, i, x) \in Seq(S)
      /\ Len(InsertAt(s, i, x)) = Len(s) + 1
      /\ \A j \in 1..Len(s) + 1 :
            InsertAt(s, i, x)[j] = IF j < i THEN s[j] ELSE IF j = i THEN x ELSE s[j - 1]
  BY InsertIsSeq
<1> DEFINE c == InsertAt(s, i, x)
           Src(j) == IF j < i THEN j ELSE j - 1
<1> HIDE DEF c
<1>1. Len(s) \in Nat /\ i \in 1..Len(s) + 1  BY LenProperties
<1>2. /\ Len(c) = Len(s) + 1
      /\ \A j \in 1..Len(s) + 1 :
            c[j] = IF j < i THEN s[j] ELSE IF j = i THEN x ELSE s[j - 1]
  BY <1>9 DEF c
<1>3. ASSUME NEW j \in 1..Len(c), j # i
      PROVE  Src(j) \in 1..Len(s) /\ c[j] = s[Src(j)]
  <2>1. j \in 1..Len(s) + 1  BY <1>2
  <2>2. Src(j) \in 1..Len(s)  BY <1>1, <1>3, <2>1
  <2>3. c[j] = s[Src(j)]  BY <1>2, <1>3, <2>1
  <2> QED  BY <2>2, <2>3
<1>4. i \in 1..Len(c) /\ c[i] = x  BY <1>1, <1>2
<1>5. Elements(c) \subseteq Elements(s) \cup {x}  BY <1>3, <1>4 DEF Elements
<1>6. ASSUME NEW k \in 1..Len(s)  PROVE s[k] \in Elements(c)
  <2>1. CASE k < i
    <3>1. k \in 1..Len(c) /\ c[k] = s[k]  BY <2>1, <1>1, <1>2
    <3> QED  BY <3>1 DEF Elements
  <2>2. CASE k >= i
    <3>1. k + 1 \in 1..Len(s) + 1 /\ ~(k + 1 < i) /\ k + 1 # i /\ (k + 1) - 1 = k
      BY <2>2, <1>1
    <3>2. c[k + 1] = s[(k + 1) - 1]  BY <3>1, <1>2
    <3> QED  BY <3>1, <3>2, <1>2 DEF Elements
  <2> QED  BY <2>1, <2>2, <1>1
<1>7. Elements(s) \cup {x} \subseteq Elements(c)  BY <1>4, <1>6 DEF Elements
<1>8. ASSUME NoDuplicates(s), x \notin Elements(s)  PROVE NoDuplicates(c)
  <2> SUFFICES ASSUME NEW j \in 1..Len(c), NEW k \in 1..Len(c), c[j] = c[k]  PROVE j = k
    BY DEF NoDuplicates
  <2>1. \A m \in 1..Len(c) : m # i => c[m] # x  BY <1>3, <1>8 DEF Elements
  <2>2. CASE j # i /\ k # i
    <3>1. Src(j) = Src(k)  BY <2>2, <1>3, <1>8 DEF NoDuplicates
    <3> QED  BY <3>1, <2>2, <1>1, <1>2
  <2> QED  BY <2>1, <2>2, <1>4
<1> QED  BY <1>5, <1>7, <1>8 DEF c

\* *find(old) = x puts x in the place of the old element.
LEMMA AssignElements ==
    ASSUME NEW S, NEW s \in Seq(S), NEW x \in S, NEW i \in 1..Len(s), NoDuplicates(s)
    PROVE  LET c == [s EXCEPT ![i] = x]
           IN  /\ c \in Seq(S) /\ Len(c) = Len(s) /\ c[i] = x
               /\ \A j \in 1..Len(s) : j # i => c[j] = s[j]
               /\ Elements(c) = (Elements(s) \ {s[i]}) \cup {x}
               /\ x \notin Elements(s) => NoDuplicates(c)
<1> DEFINE c == [s EXCEPT ![i] = x]
<1>1. c \in Seq(S) /\ Len(c) = Len(s) /\ \A j \in 1..Len(s) : c[j] = IF j = i THEN x ELSE s[j]
  BY ExceptSeq
<1> HIDE DEF c
<1>2. Elements(c) \subseteq (Elements(s) \ {s[i]}) \cup {x}
  BY <1>1 DEF Elements, NoDuplicates
<1>3. (Elements(s) \ {s[i]}) \cup {x} \subseteq Elements(c)
  BY <1>1 DEF Elements
<1>4. x \notin Elements(s) => NoDuplicates(c)
  BY <1>1 DEF Elements, NoDuplicates
<1> QED  BY <1>1, <1>2, <1>3, <1>4 DEF c

\* std::swap of two places of a list changes what it holds in nothing.
LEMMA SwapElements ==
    ASSUME NEW S, NEW s \in Seq(S), NEW i \in 1..Len(s), NEW j \in 1..Len(s), NoDuplicates(s)
    PROVE  LET c == [s EXCEPT ![i] = s[j], ![j] = s[i]]
           IN  /\ c \in Seq(S) /\ Len(c) = Len(s)
               /\ Elements(c) = Elements(s) /\ NoDuplicates(c)
<1> DEFINE c == [s EXCEPT ![i] = s[j], ![j] = s[i]]
           Src(k) == IF k = j THEN i ELSE IF k = i THEN j ELSE k
<1>1. s[i] \in S /\ s[j] \in S /\ Len(s) \in Nat /\ DOMAIN s = 1..Len(s)
  BY ElementOfSeq, LenProperties
<1>2. c \in Seq(S) /\ Len(c) = Len(s) /\ \A k \in 1..Len(s) : c[k] = s[Src(k)]
  BY <1>1, ExceptSeq
<1> HIDE DEF c
<1>3. \A k \in 1..Len(s) : Src(k) \in 1..Len(s) /\ Src(Src(k)) = k  OBVIOUS
<1>4. Elements(c) = Elements(s)
  <2>1. \A k \in 1..Len(s) : c[Src(k)] = s[k]  BY <1>2, <1>3
  <2> QED  BY <1>2, <1>3, <2>1 DEF Elements
<1>5. NoDuplicates(c)
  BY <1>2, <1>3 DEF NoDuplicates
<1> QED  BY <1>2, <1>4, <1>5 DEF c
=============================================================================

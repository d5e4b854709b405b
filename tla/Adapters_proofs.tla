--------------------------- MODULE Adapters_proofs ---------------------------
(* Proofs about Adapters, for every board, page size and place, and for as *)
(* many changes between the requests as there may be: what a fetch misses  *)
(* or repeats, what it says of a missing board, and that it gets on.       *)
EXTENDS Adapters, FiniteSetTheorems, SequenceTheorems, TLAPS

-----------------------------------------------------------------------------
(* A board after a change, position by position.                           *)
LEMMA Inserted ==
    ASSUME NEW S, NEW b \in Seq(S), NEW e \in S, NEW i \in 1..(Len(b) + 1)
    PROVE  /\ InsertAt(b, i, e) \in Seq(S) /\ Len(InsertAt(b, i, e)) = Len(b) + 1
           /\ \A k \in 1..(Len(b) + 1) : InsertAt(b, i, e)[k] =
                IF k < i THEN b[k] ELSE IF k = i THEN e ELSE b[k - 1]
<1> DEFINE x == SubSeq(b, 1, i - 1)
           y == SubSeq(b, i, Len(b))
<1>1. Len(b) \in Nat /\ i \in Int /\ i - 1 \in Int /\ \A k \in 1..Len(b) : b[k] \in S
  BY LenProperties, ElementOfSeq
<1>2. /\ x \in Seq(S) /\ Len(x) = i - 1
      /\ \A k \in 1..(i - 1) : x[k] = b[k]
  <2>1. \A k \in 1..(i - 1) : b[k] \in S
    BY <1>1
  <2>2. /\ x \in Seq(S) /\ Len(x) = IF 1 <= i - 1 THEN i - 1 - 1 + 1 ELSE 0
        /\ \A k \in 1..(i - 1 - 1 + 1) : x[k] = b[1 + k - 1]
    BY <1>1, <2>1, SubSeqProperties
  <2> HIDE DEF x
  <2> QED BY <1>1, <2>2
<1>3. /\ y \in Seq(S) /\ Len(y) = Len(b) - i + 1
      /\ \A k \in 1..(Len(b) - i + 1) : y[k] = b[i + k - 1]
  <2>1. \A k \in i..Len(b) : b[k] \in S
    BY <1>1
  <2>2. /\ y \in Seq(S) /\ Len(y) = IF i <= Len(b) THEN Len(b) - i + 1 ELSE 0
        /\ \A k \in 1..(Len(b) - i + 1) : y[k] = b[i + k - 1]
    BY <1>1, <2>1, SubSeqProperties
  <2> HIDE DEF y
  <2> QED BY <1>1, <2>2
<1> HIDE DEF x, y
<1> DEFINE one == <<e>>
<1>4. one \in Seq(S) /\ Len(one) = 1 /\ one[1] = e
  OBVIOUS
<1> HIDE DEF one
<1>5. /\ x \o one \in Seq(S) /\ Len(x \o one) = i
      /\ \A k \in 1..i : (x \o one)[k] = IF k <= i - 1 THEN b[k] ELSE e
  <2> DEFINE xe == x \o one
  <2>a. x \in Seq(S) /\ one \in Seq(S)
    BY <1>2, <1>4
  <2>1. /\ xe \in Seq(S) /\ Len(xe) = Len(x) + Len(one)
        /\ \A k \in 1..Len(x) + Len(one) : xe[k] =
                IF k <= Len(x) THEN x[k] ELSE one[k - Len(x)]
    BY Zenon, <2>a, ConcatProperties
  <2> HIDE DEF xe
  <2>2. Len(x) + Len(one) = i /\ Len(x) = i - 1
    BY <1>1, <1>2, <1>4
  <2>3. ASSUME NEW k \in 1..i PROVE xe[k] = IF k <= i - 1 THEN b[k] ELSE e
    <3>1. k > i - 1 => k - (i - 1) = 1
      BY <1>1
    <3> QED BY <1>1, <1>2, <1>4, <2>1, <2>2, <3>1
  <2>4. xe \in Seq(S) /\ Len(xe) = i
    BY <2>1, <2>2
  <2> QED BY <2>3, <2>4 DEF xe
<1> DEFINE w == x \o one
           z == w \o y
<1>6. InsertAt(b, i, e) = z
  BY DEF InsertAt, x, y, one
<1>7. /\ w \in Seq(S) /\ Len(w) = i
      /\ \A k \in 1..i : w[k] = IF k <= i - 1 THEN b[k] ELSE e
  BY <1>5
<1> HIDE DEF w
<1>8. /\ z \in Seq(S) /\ Len(z) = Len(b) + 1
      /\ \A k \in 1..(Len(b) + 1) : z[k] = IF k <= i THEN w[k] ELSE y[k - i]
  <2>a. w \in Seq(S) /\ y \in Seq(S)
    BY <1>3, <1>7
  <2>1. /\ z \in Seq(S) /\ Len(z) = Len(w) + Len(y)
        /\ \A k \in 1..Len(w) + Len(y) : z[k] =
                IF k <= Len(w) THEN w[k] ELSE y[k - Len(w)]
    BY Zenon, <2>a, ConcatProperties
  <2>2. Len(w) + Len(y) = Len(b) + 1 /\ Len(w) = i
    BY <1>1, <1>3, <1>7
  <2> HIDE DEF z
  <2> QED BY <2>1, <2>2
<1> HIDE DEF z
<1>9. ASSUME NEW k \in 1..(Len(b) + 1)
      PROVE  z[k] = IF k < i THEN b[k] ELSE IF k = i THEN e ELSE b[k - 1]
  <2>1. CASE k <= i
    BY <1>1, <1>7, <1>8, <2>1
  <2>2. CASE k > i
    <3>1. k - i \in 1..(Len(b) - i + 1) /\ i + (k - i) - 1 = k - 1
      BY <1>1, <2>2
    <3>2. y[k - i] = b[k - 1]
      BY <1>3, <3>1
    <3> QED BY <1>1, <1>8, <2>2, <3>2
  <2> QED BY <1>1, <2>1, <2>2
<1> QED BY <1>6, <1>8, <1>9

LEMMA Removed ==
    ASSUME NEW S, NEW b \in Seq(S), NEW i \in 1..Len(b)
    PROVE  /\ RemoveAt(b, i) \in Seq(S) /\ Len(RemoveAt(b, i)) = Len(b) - 1
           /\ \A k \in 1..(Len(b) - 1) : RemoveAt(b, i)[k] =
                IF k < i THEN b[k] ELSE b[k + 1]
<1> DEFINE x == SubSeq(b, 1, i - 1)
           y == SubSeq(b, i + 1, Len(b))
<1>1. Len(b) \in Nat /\ i - 1 \in Int /\ i + 1 \in Int /\ \A k \in 1..Len(b) : b[k] \in S
  BY LenProperties, ElementOfSeq
<1>2. /\ x \in Seq(S) /\ Len(x) = i - 1
      /\ \A k \in 1..(i - 1) : x[k] = b[k]
  <2>1. \A k \in 1..(i - 1) : b[k] \in S
    BY <1>1
  <2>2. /\ x \in Seq(S) /\ Len(x) = IF 1 <= i - 1 THEN i - 1 - 1 + 1 ELSE 0
        /\ \A k \in 1..(i - 1 - 1 + 1) : x[k] = b[1 + k - 1]
    BY <1>1, <2>1, SubSeqProperties
  <2> HIDE DEF x
  <2> QED BY <1>1, <2>2
<1>3. /\ y \in Seq(S) /\ Len(y) = Len(b) - i
      /\ \A k \in 1..(Len(b) - i) : y[k] = b[i + k]
  <2>1. \A k \in (i + 1)..Len(b) : b[k] \in S
    BY <1>1
  <2>2. /\ y \in Seq(S) /\ Len(y) = IF i + 1 <= Len(b) THEN Len(b) - (i + 1) + 1 ELSE 0
        /\ \A k \in 1..(Len(b) - (i + 1) + 1) : y[k] = b[i + 1 + k - 1]
    BY <1>1, <2>1, SubSeqProperties
  <2> HIDE DEF y
  <2> QED BY <1>1, <2>2
<1> HIDE DEF x, y
<1> DEFINE z == x \o y
<1>4. RemoveAt(b, i) = z
  BY DEF RemoveAt, x, y
<1>5. /\ z \in Seq(S) /\ Len(z) = Len(x) + Len(y)
      /\ \A k \in 1..Len(x) + Len(y) : z[k] =
              IF k <= Len(x) THEN x[k] ELSE y[k - Len(x)]
  <2>1. x \in Seq(S) /\ y \in Seq(S)
    BY <1>2, <1>3
  <2> QED BY Zenon, <2>1, ConcatProperties
<1> HIDE DEF z
<1>6. Len(x) + Len(y) = Len(b) - 1
  BY <1>1, <1>2, <1>3
<1>7. /\ z \in Seq(S) /\ Len(z) = Len(b) - 1
      /\ \A k \in 1..(Len(b) - 1) : z[k] = IF k <= i - 1 THEN x[k] ELSE y[k - (i - 1)]
  BY <1>2, <1>5, <1>6
<1>8. ASSUME NEW k \in 1..(Len(b) - 1)
      PROVE  z[k] = IF k < i THEN b[k] ELSE b[k + 1]
  <2>1. CASE k < i
    <3>1. k \in 1..(i - 1)
      BY <1>1, <2>1
    <3> QED BY <1>2, <1>7, <2>1, <3>1
  <2>2. CASE k >= i
    <3>1. k - (i - 1) \in 1..(Len(b) - i) /\ i + (k - (i - 1)) = k + 1
      BY <1>1, <2>2
    <3>2. y[k - (i - 1)] = b[k + 1]
      BY <1>3, <3>1
    <3>3. ~(k <= i - 1) /\ ~(k < i)
      BY <1>1, <2>2
    <3> QED BY <1>7, <3>2, <3>3
  <2> QED BY <1>1, <2>1, <2>2
<1> QED BY <1>4, <1>7, <1>8

LEMMA MovedUp ==
    ASSUME NEW S, NEW b \in Seq(S), NEW i \in 1..Len(b)
    PROVE  LET c == <<b[i]>> \o RemoveAt(b, i)
           IN  /\ c \in Seq(S) /\ Len(c) = Len(b)
               /\ \A k \in 1..Len(b) : c[k] =
                    IF k = 1 THEN b[i] ELSE IF k <= i THEN b[k - 1] ELSE b[k]
<1> DEFINE r == RemoveAt(b, i)
<1>1. Len(b) \in Nat /\ b[i] \in S
  BY LenProperties, ElementOfSeq
<1>2. /\ r \in Seq(S) /\ Len(r) = Len(b) - 1
      /\ \A k \in 1..(Len(b) - 1) : r[k] = IF k < i THEN b[k] ELSE b[k + 1]
  BY Removed
<1> HIDE DEF r
<1> DEFINE top == <<b[i]>>
           c == top \o r
<1>3. top \in Seq(S) /\ Len(top) = 1 /\ top[1] = b[i]
  BY <1>1
<1> HIDE DEF top
<1>a. /\ c \in Seq(S) /\ Len(c) = Len(top) + Len(r)
      /\ \A k \in 1..Len(top) + Len(r) : c[k] =
              IF k <= Len(top) THEN top[k] ELSE r[k - Len(top)]
  <2>1. top \in Seq(S) /\ r \in Seq(S)
    BY <1>2, <1>3
  <2> QED BY Zenon, <2>1, ConcatProperties
<1> HIDE DEF c
<1>4. /\ c \in Seq(S) /\ Len(c) = 1 + (Len(b) - 1)
      /\ \A k \in 1..(1 + (Len(b) - 1)) : c[k] = IF k <= 1 THEN top[k] ELSE r[k - 1]
  BY <1>2, <1>3, <1>a
<1>5. c \in Seq(S) /\ Len(c) = Len(b)
  BY <1>1, <1>2, <1>4
<1>6. ASSUME NEW k \in 1..Len(b)
      PROVE  c[k] = IF k = 1 THEN b[i] ELSE IF k <= i THEN b[k - 1] ELSE b[k]
  <2>1. CASE k = 1
    BY <1>2, <1>3, <1>4, <2>1
  <2>2. CASE k # 1
    <3>1. k - 1 \in 1..(Len(b) - 1) /\ (k - 1 < i <=> k <= i) /\ (k - 1) + 1 = k
      BY <1>1, <2>2
    <3>2. c[k] = r[k - 1]
      BY <1>1, <1>2, <1>4, <2>2
    <3> QED BY <1>2, <2>2, <3>1, <3>2
  <2> QED BY <2>1, <2>2
<1> QED BY <1>5, <1>6 DEF c, top, r

(* The same as sets: which postings stand at a position up to n, and which *)
(* after it.  A change brings one posting more over the line, at most, on  *)
(* the one side or on the other.                                           *)
UpTo(b, n) == {b[k] : k \in {k \in DOMAIN b : k <= n}}
After(b, n) == {b[k] : k \in {k \in DOMAIN b : k > n}}

LEMMA OpenMoves ==
    ASSUME NEW S, NEW b \in Seq(S), IsInjective(b), NEW e \in S \ Range(b),
           NEW i \in 1..(Len(b) + 1), NEW n \in Nat
    PROVE  LET c == InsertAt(b, i, e)
           IN  /\ c \in Seq(S) /\ IsInjective(c) /\ Range(c) = Range(b) \cup {e}
               /\ UpTo(c, n) \subseteq UpTo(b, n) \cup {e}
               /\ After(c, n) \subseteq After(b, n) \cup {e, b[n]}
<1> DEFINE c == InsertAt(b, i, e)
<1>1. Len(b) \in Nat /\ DOMAIN b = 1..Len(b) /\ \A k \in 1..Len(b) : b[k] \in S
  BY LenProperties, ElementOfSeq
<1>2. /\ c \in Seq(S) /\ Len(c) = Len(b) + 1
      /\ \A k \in 1..(Len(b) + 1) : c[k] =
            IF k < i THEN b[k] ELSE IF k = i THEN e ELSE b[k - 1]
  BY Inserted
<1>3. c = InsertAt(b, i, e)
  OBVIOUS
<1> HIDE DEF c
<1>4. DOMAIN c = 1..(Len(b) + 1)
  BY <1>2, LenProperties
<1>5. \A k \in 1..(Len(b) + 1) :
        \/ k < i /\ k \in DOMAIN b /\ c[k] = b[k]
        \/ k = i /\ c[k] = e
        \/ k > i /\ k - 1 \in DOMAIN b /\ c[k] = b[k - 1]
  BY <1>1, <1>2
<1>6. e \notin Range(b) /\ \A k \in DOMAIN b : b[k] # e
  BY DEF Range
<1>7. IsInjective(c)
  <2>1. \A k, l \in DOMAIN b : b[k] = b[l] => k = l
    BY DEF IsInjective
  <2>2. ASSUME NEW k \in 1..(Len(b) + 1), NEW l \in 1..(Len(b) + 1), c[k] = c[l]
        PROVE  k = l
    <3>1. k = i <=> l = i
      BY <1>5, <1>6, <2>2
    <3>2. CASE k < i
      <4>1. l < i \/ l > i
        BY <1>1, <3>1, <3>2
      <4>2. ~(l > i)
        BY <1>1, <1>5, <2>1, <2>2, <3>2
      <4> QED BY <1>1, <1>5, <2>1, <2>2, <3>2, <4>1, <4>2
    <3>3. CASE k > i
      <4>1. l < i \/ l > i
        BY <1>1, <3>1, <3>3
      <4>2. ~(l < i)
        BY <1>1, <1>5, <2>1, <2>2, <3>3
      <4>3. c[k] = b[k - 1] /\ c[l] = b[l - 1] /\ k - 1 \in DOMAIN b /\ l - 1 \in DOMAIN b
        BY <1>1, <1>5, <3>3, <4>1, <4>2
      <4>4. k - 1 = l - 1
        BY <2>1, <2>2, <4>3
      <4> QED BY <4>4
    <3> QED BY <1>1, <3>1, <3>2, <3>3
  <2> QED BY <1>4, <2>2 DEF IsInjective
<1>8. Range(c) = Range(b) \cup {e}
  <2>1. Range(c) \subseteq Range(b) \cup {e}
    BY <1>4, <1>5 DEF Range
  <2>2. ASSUME NEW k \in DOMAIN b PROVE b[k] \in Range(c)
    <3>1. CASE k < i
      <4>1. k \in DOMAIN c /\ c[k] = b[k]
        BY <1>1, <1>2, <1>4, <3>1
      <4> QED BY <4>1 DEF Range
    <3>2. CASE k >= i
      <4>1. k + 1 \in DOMAIN c /\ k + 1 > i /\ (k + 1) - 1 = k
        BY <1>1, <1>4, <3>2
      <4>2. c[k + 1] = b[k]
        BY <1>2, <1>4, <4>1
      <4> QED BY <4>1, <4>2 DEF Range
    <3> QED BY <1>1, <3>1, <3>2
  <2>3. e \in Range(c)
    BY <1>1, <1>2, <1>4 DEF Range
  <2> QED BY <2>1, <2>2, <2>3 DEF Range
<1>9. UpTo(c, n) \subseteq UpTo(b, n) \cup {e}
  <2>1. ASSUME NEW k \in DOMAIN c, k <= n PROVE c[k] \in UpTo(b, n) \cup {e}
    <3>1. CASE k < i /\ k \in DOMAIN b /\ c[k] = b[k]
      BY <2>1, <3>1 DEF UpTo
    <3>2. CASE k > i /\ k - 1 \in DOMAIN b /\ c[k] = b[k - 1]
      <4>1. k - 1 <= n
        BY <1>4, <2>1
      <4> QED BY <3>2, <4>1 DEF UpTo
    <3> QED BY <1>4, <1>5, <3>1, <3>2
  <2> QED BY <2>1 DEF UpTo
<1>10. After(c, n) \subseteq After(b, n) \cup {e, b[n]}
  <2>1. ASSUME NEW k \in DOMAIN c, k > n PROVE c[k] \in After(b, n) \cup {e, b[n]}
    <3>1. CASE k < i /\ k \in DOMAIN b /\ c[k] = b[k]
      BY <2>1, <3>1 DEF After
    <3>2. CASE k > i /\ k - 1 \in DOMAIN b /\ c[k] = b[k - 1]
      <4>1. k - 1 > n \/ k - 1 = n
        BY <1>4, <2>1
      <4> QED BY <3>2, <4>1 DEF After
    <3> QED BY <1>4, <1>5, <3>1, <3>2
  <2> QED BY <2>1 DEF After
<1> QED BY <1>2, <1>3, <1>7, <1>8, <1>9, <1>10

LEMMA CloseMoves ==
    ASSUME NEW S, NEW b \in Seq(S), IsInjective(b), NEW i \in DOMAIN b, NEW n \in Nat
    PROVE  LET c == RemoveAt(b, i)
           IN  /\ c \in Seq(S) /\ IsInjective(c) /\ Range(c) = Range(b) \ {b[i]}
               /\ UpTo(c, n) \subseteq UpTo(b, n) \cup {b[n + 1]}
               /\ After(c, n) \subseteq After(b, n)
<1> DEFINE c == RemoveAt(b, i)
<1>1. Len(b) \in Nat /\ DOMAIN b = 1..Len(b) /\ \A k \in 1..Len(b) : b[k] \in S
  BY LenProperties, ElementOfSeq
<1>2. /\ c \in Seq(S) /\ Len(c) = Len(b) - 1
      /\ \A k \in 1..(Len(b) - 1) : c[k] = IF k < i THEN b[k] ELSE b[k + 1]
  BY <1>1, Removed
<1>3. c = RemoveAt(b, i)
  OBVIOUS
<1> HIDE DEF c
<1>4. DOMAIN c = 1..(Len(b) - 1)
  BY <1>2, LenProperties
<1>5. \A k \in 1..(Len(b) - 1) :
        \/ k < i /\ k \in DOMAIN b /\ c[k] = b[k]
        \/ k >= i /\ k + 1 \in DOMAIN b /\ c[k] = b[k + 1]
  BY <1>1, <1>2
<1>6. \A k, l \in DOMAIN b : b[k] = b[l] => k = l
  BY DEF IsInjective
<1>7. IsInjective(c)
  <2>1. \A k, l \in 1..(Len(b) - 1) : c[k] = c[l] => k = l
    BY <1>1, <1>5, <1>6
  <2> QED BY <1>4, <2>1 DEF IsInjective
<1>8. Range(c) = Range(b) \ {b[i]}
  <2>1. Range(c) \subseteq Range(b)
    BY <1>4, <1>5 DEF Range
  <2>2. \A k \in DOMAIN c : c[k] # b[i]
    BY <1>1, <1>4, <1>5, <1>6
  <2>3. ASSUME NEW k \in DOMAIN b, k # i PROVE b[k] \in Range(c)
    <3>1. CASE k < i
      <4>1. k \in DOMAIN c /\ c[k] = b[k]
        BY <1>1, <1>2, <1>4, <3>1
      <4> QED BY <4>1 DEF Range
    <3>2. CASE k > i
      <4>1. k - 1 \in DOMAIN c /\ k - 1 >= i /\ (k - 1) + 1 = k
        BY <1>1, <1>4, <3>2
      <4>2. c[k - 1] = b[k]
        BY <1>1, <1>2, <1>4, <4>1
      <4> QED BY <4>1, <4>2 DEF Range
    <3> QED BY <1>1, <2>3, <3>1, <3>2
  <2> QED BY <2>1, <2>2, <2>3 DEF Range
<1>9. UpTo(c, n) \subseteq UpTo(b, n) \cup {b[n + 1]}
  <2>1. ASSUME NEW k \in DOMAIN c, k <= n PROVE c[k] \in UpTo(b, n) \cup {b[n + 1]}
    <3>1. CASE k < i /\ k \in DOMAIN b /\ c[k] = b[k]
      BY <2>1, <3>1 DEF UpTo
    <3>2. CASE k >= i /\ k + 1 \in DOMAIN b /\ c[k] = b[k + 1]
      <4>1. k + 1 <= n \/ k + 1 = n + 1
        BY <1>4, <2>1
      <4> QED BY <3>2, <4>1 DEF UpTo
    <3> QED BY <1>4, <1>5, <3>1, <3>2
  <2> QED BY <2>1 DEF UpTo
<1>10. After(c, n) \subseteq After(b, n)
  <2>1. ASSUME NEW k \in DOMAIN c, k > n PROVE c[k] \in After(b, n)
    <3>1. CASE k < i /\ k \in DOMAIN b /\ c[k] = b[k]
      BY <2>1, <3>1 DEF After
    <3>2. CASE k >= i /\ k + 1 \in DOMAIN b /\ c[k] = b[k + 1]
      <4>1. k + 1 > n
        BY <1>4, <2>1
      <4> QED BY <3>2, <4>1 DEF After
    <3> QED BY <1>4, <1>5, <3>1, <3>2
  <2> QED BY <2>1 DEF After
<1> QED BY <1>2, <1>3, <1>7, <1>8, <1>9, <1>10

LEMMA MoveUpMoves ==
    ASSUME NEW S, NEW b \in Seq(S), IsInjective(b), NEW i \in DOMAIN b, NEW n \in Nat
    PROVE  LET c == <<b[i]>> \o RemoveAt(b, i)
           IN  /\ c \in Seq(S) /\ IsInjective(c) /\ Range(c) = Range(b)
               /\ UpTo(c, n) \subseteq UpTo(b, n) \cup {b[i]}
               /\ After(c, n) \subseteq After(b, n) \cup {b[n]}
<1> DEFINE c == <<b[i]>> \o RemoveAt(b, i)
<1>1. Len(b) \in Nat /\ DOMAIN b = 1..Len(b) /\ \A k \in 1..Len(b) : b[k] \in S
  BY LenProperties, ElementOfSeq
<1>2. /\ c \in Seq(S) /\ Len(c) = Len(b)
      /\ \A k \in 1..Len(b) : c[k] =
            IF k = 1 THEN b[i] ELSE IF k <= i THEN b[k - 1] ELSE b[k]
  <2>1. i \in 1..Len(b)
    BY <1>1
  <2> QED BY ONLY b \in Seq(S), <2>1, MovedUp
<1>3. c = <<b[i]>> \o RemoveAt(b, i)
  OBVIOUS
<1> HIDE DEF c
<1>4. DOMAIN c = 1..Len(b)
  BY <1>2, LenProperties
<1>5. \A k \in 1..Len(b) :
        \/ k = 1 /\ c[k] = b[i]
        \/ k # 1 /\ k <= i /\ k - 1 \in DOMAIN b /\ k - 1 # i /\ c[k] = b[k - 1]
        \/ k # 1 /\ k > i /\ k \in DOMAIN b /\ k # i /\ c[k] = b[k]
  BY <1>1, <1>2
<1>6. \A k, l \in DOMAIN b : b[k] = b[l] => k = l
  BY DEF IsInjective
<1>7. IsInjective(c)
  <2>1. \A k, l \in 1..Len(b) : c[k] = c[l] => k = l
    BY <1>1, <1>5, <1>6
  <2> QED BY <1>4, <2>1 DEF IsInjective
<1>8. Range(c) = Range(b)
  <2>1. Range(c) \subseteq Range(b)
    BY <1>4, <1>5 DEF Range
  <2>2. ASSUME NEW k \in DOMAIN b PROVE b[k] \in Range(c)
    <3>1. CASE k < i
      <4>1. k + 1 \in DOMAIN c /\ k + 1 # 1 /\ k + 1 <= i /\ (k + 1) - 1 = k
        BY <1>1, <1>4, <3>1
      <4>2. c[k + 1] = b[k]
        BY <1>2, <1>4, <4>1
      <4> QED BY <4>1, <4>2 DEF Range
    <3>2. CASE k = i
      <4>1. 1 \in DOMAIN c /\ c[1] = b[k]
        BY <1>1, <1>2, <1>4, <3>2
      <4> QED BY <4>1 DEF Range
    <3>3. CASE k > i
      <4>1. k \in DOMAIN c /\ c[k] = b[k]
        BY <1>1, <1>2, <1>4, <3>3
      <4> QED BY <4>1 DEF Range
    <3> QED BY <1>1, <3>1, <3>2, <3>3
  <2> QED BY <2>1, <2>2 DEF Range
<1>9. UpTo(c, n) \subseteq UpTo(b, n) \cup {b[i]}
  <2>1. ASSUME NEW k \in DOMAIN c, k <= n PROVE c[k] \in UpTo(b, n) \cup {b[i]}
    <3>1. CASE k # 1 /\ k <= i /\ k - 1 \in DOMAIN b /\ c[k] = b[k - 1]
      <4>1. k - 1 <= n
        BY <1>4, <2>1
      <4> QED BY <3>1, <4>1 DEF UpTo
    <3>2. CASE k > i /\ k \in DOMAIN b /\ c[k] = b[k]
      BY <2>1, <3>2 DEF UpTo
    <3> QED BY <1>4, <1>5, <3>1, <3>2
  <2> QED BY <2>1 DEF UpTo
<1>10. After(c, n) \subseteq After(b, n) \cup {b[n]}
  <2>1. ASSUME NEW k \in DOMAIN c, k > n PROVE c[k] \in After(b, n) \cup {b[n]}
    <3>1. CASE k # 1 /\ k <= i /\ k - 1 \in DOMAIN b /\ c[k] = b[k - 1]
      <4>1. k - 1 > n \/ k - 1 = n
        BY <1>4, <2>1
      <4> QED BY <3>1, <4>1 DEF After
    <3>2. CASE k > i /\ k \in DOMAIN b /\ c[k] = b[k]
      BY <2>1, <3>2 DEF After
    <3>3. CASE k = 1 /\ c[k] = b[i]
      <4>1. i > n
        BY <1>1, <2>1, <3>3
      <4> QED BY <3>3, <4>1 DEF After
    <3> QED BY <1>4, <1>5, <3>1, <3>2, <3>3
  <2> QED BY <2>1 DEF After
<1> QED BY <1>2, <1>3, <1>7, <1>8, <1>9, <1>10

-----------------------------------------------------------------------------
(* Lists.                                                                  *)
LEMMA IdsFinite ==
    ASSUME NEW S, NEW s \in Seq(S)
    PROVE  IsFiniteSet(IdsOf(s)) /\ Cardinality(IdsOf(s)) \in Nat
<1> DEFINE f == [i \in DOMAIN s |-> s[i].id]
<1>1. DOMAIN s = 1..Len(s) /\ Len(s) \in Nat
  BY LenProperties
<1>2. IsFiniteSet(DOMAIN s)
  BY <1>1, FS_Interval
<1>3. f \in Surjection(DOMAIN s, IdsOf(s))
  BY DEF Surjection, IdsOf
<1>4. IsFiniteSet(IdsOf(s))
  BY <1>2, <1>3, FS_Surjection
<1> QED BY <1>4, FS_CardinalityType

LEMMA DistinctCount ==
    ASSUME NEW S, NEW s \in Seq(S), IsInjective(s)
    PROVE  /\ IsFiniteSet(Range(s)) /\ Cardinality(Range(s)) = Len(s)
<1>1. DOMAIN s = 1..Len(s) /\ Len(s) \in Nat /\ s \in [1..Len(s) -> S]
  BY LenProperties
<1>2. IsFiniteSet(1..Len(s)) /\ Cardinality(1..Len(s)) = Len(s)
  <2>1. \A n \in Nat : IsFiniteSet(1..n) /\ Cardinality(1..n) = n
    BY FS_Interval
  <2> QED BY Zenon, <1>1, <2>1
<1>3. s \in Surjection(1..Len(s), Range(s))
  BY <1>1 DEF Surjection, Range
<1>4. s \in Injection(1..Len(s), Range(s))
  BY <1>1, <1>3 DEF Surjection, Injection
<1> DEFINE D == 1..Len(s)
           R == Range(s)
<1>5. IsFiniteSet(D) /\ s \in Surjection(D, R) /\ s \in Injection(D, R)
  BY <1>2, <1>3, <1>4
<1> HIDE DEF D, R
<1>6. IsFiniteSet(R) /\ (Cardinality(R) = Cardinality(D) <=> s \in Injection(D, R))
  BY <1>5, FS_Surjection
<1> QED BY <1>2, <1>5, <1>6 DEF D, R

LEMMA SetAsSeq ==
    ASSUME NEW S, IsFiniteSet(S)
    PROVE  /\ SetToSeq(S) \in Seq(S) /\ Len(SetToSeq(S)) = Cardinality(S)
           /\ Range(SetToSeq(S)) = S /\ IsInjective(SetToSeq(S))
<1>1. Cardinality(S) \in Nat /\ ExistsBijection(1..Cardinality(S), S)
  BY FS_CardinalityType
<1>2. \E f \in [1..Cardinality(S) -> S] : IsInjective(f)
  BY <1>1 DEF ExistsBijection, Bijection, Injection
<1> DEFINE q == SetToSeq(S)
<1>3. q \in [1..Cardinality(S) -> S] /\ IsInjective(q)
  BY <1>2 DEF SetToSeq
<1> HIDE DEF q
<1>4. q \in Seq(S) /\ Len(q) = Cardinality(S)
  BY <1>1, <1>3
<1>5. Range(q) = S
  <2>1. IsFiniteSet(Range(q)) /\ Cardinality(Range(q)) = Cardinality(S)
    BY <1>3, <1>4, DistinctCount
  <2>2. Range(q) \in SUBSET S
    BY <1>3 DEF Range
  <2> QED BY <2>1, <2>2, FS_Subset
<1> QED BY <1>3, <1>4, <1>5 DEF q

(* A list that is taken as it stands.                                      *)
LEMMA ListedWhole ==
    ASSUME NEW b \in Seq(Job), IsInjective(b)
    PROVE  LET s == [i \in DOMAIN b |-> Listed(b[i])]
           IN  /\ s \in Seq(Listing) /\ Len(s) = Len(b) /\ IdsOf(s) = Range(b)
               /\ Cardinality(IdsOf(s)) = Len(b)
<1> DEFINE s == [i \in DOMAIN b |-> Listed(b[i])]
<1>1. DOMAIN b = 1..Len(b) /\ Len(b) \in Nat /\ \A i \in DOMAIN b : b[i] \in Job
  BY LenProperties, ElementOfSeq
<1>2. \A i \in DOMAIN b : s[i] \in Listing /\ s[i].id = b[i]
  BY <1>1, PlacesAssumption DEF Listed, FirstPlace, Listing, Range
<1>3. DOMAIN s = 1..Len(b)
  BY <1>1
<1>4. s \in [1..Len(b) -> Listing]
  BY <1>1, <1>2
<1> HIDE DEF s
<1>5. s \in Seq(Listing) /\ Len(s) = Len(b)
  BY <1>1, <1>3, <1>4
<1>6. IdsOf(s) = Range(b)
  BY <1>1, <1>2, <1>3 DEF IdsOf, Range
<1>7. Cardinality(IdsOf(s)) = Len(b)
  BY <1>6, DistinctCount
<1> QED BY <1>1, <1>2, <1>3, <1>5, <1>6, <1>7 DEF s

(* A posting has a row for each of its places; after _collapse it is one,  *)
(* with all of them.                                                       *)
LEMMA RowsOfFinite ==
    ASSUME NEW j \in Job
    PROVE  IsFiniteSet(RowsOf(j)) /\ FirstRow(j) \in RowsOf(j)
<1>1. IsFiniteSet(PlacesOf[j]) /\ PlacesOf[j] # {}
  BY PlacesAssumption
<1>2. [p \in PlacesOf[j] |-> [id |-> j, place |-> p]] \in Surjection(PlacesOf[j], RowsOf(j))
  BY DEF Surjection, RowsOf
<1>3. FirstPlace(j) \in PlacesOf[j]
  BY <1>1 DEF FirstPlace
<1>4. FirstRow(j) \in RowsOf(j)
  BY <1>3 DEF FirstRow, RowsOf
<1> QED BY <1>1, <1>2, <1>4, FS_Surjection

LEMMA RowsAreAll ==
    ASSUME NEW b \in Seq(Job), board = b
    PROVE  LET all == UNION {RowsOf(j) : j \in Range(b)}
           IN  Rows \in Seq(all) /\ Range(Rows) = all
<1> DEFINE all == UNION {RowsOf(j) : j \in Range(b)}
           sets == {RowsOf(j) \ {FirstRow(j)} : j \in Range(b)}
           first == [i \in DOMAIN b |-> FirstRow(b[i])]
           rest == SetToSeq(UNION sets)
<1>1. DOMAIN b = 1..Len(b) /\ Len(b) \in Nat /\ \A i \in DOMAIN b : b[i] \in Job
  BY LenProperties, ElementOfSeq
<1>2. \A j \in Range(b) : j \in Job /\ IsFiniteSet(RowsOf(j)) /\ FirstRow(j) \in RowsOf(j)
  BY <1>1, RowsOfFinite DEF Range
<1>3. IsFiniteSet(UNION sets)
  <2> DEFINE f == [i \in 1..Len(b) |-> RowsOf(b[i]) \ {FirstRow(b[i])}]
  <2>1. f \in Surjection(1..Len(b), sets)
    BY <1>1 DEF Surjection, Range
  <2>2. IsFiniteSet(1..Len(b))
    BY <1>1, FS_Interval
  <2>3. \A T \in sets : IsFiniteSet(T)
    <3>1. ASSUME NEW j \in Range(b) PROVE IsFiniteSet(RowsOf(j) \ {FirstRow(j)})
      BY <1>2, FS_Difference
    <3> QED BY <3>1
  <2> HIDE DEF f, sets
  <2>4. IsFiniteSet(sets)
    BY <2>1, <2>2, FS_Surjection
  <2> QED BY <2>3, <2>4, FS_UNION
<1>4. rest \in Seq(UNION sets) /\ Range(rest) = UNION sets
  <2> HIDE DEF sets
  <2> QED BY <1>3, SetAsSeq
<1>5. UNION sets \subseteq all
  OBVIOUS
<1>6. rest \in Seq(all)
  <2> HIDE DEF sets, rest, all
  <2> QED BY <1>4, <1>5, SeqMonotonic
<1>7. first \in Seq(all) /\ Range(first) = {FirstRow(j) : j \in Range(b)}
  <2>1. first \in [1..Len(b) -> all]
    BY <1>1, <1>2 DEF Range
  <2>2. Range(first) = {FirstRow(j) : j \in Range(b)}
    BY <1>1 DEF Range
  <2> HIDE DEF first, all
  <2>3. first \in Seq(all)
    BY <1>1, <2>1
  <2> QED BY <2>2, <2>3
<1>8. all = (UNION sets) \cup {FirstRow(j) : j \in Range(b)}
  BY <1>2
<1>9. Rows = first \o rest
  BY DEF Rows
<1> HIDE DEF all, sets, first, rest
<1>10. first \o rest \in Seq(all) /\ Range(first \o rest) = all
  <2>a. first \in Seq(all) /\ rest \in Seq(all)
    BY <1>6, <1>7
  <2>1. first \o rest \in Seq(all)
    BY Zenon, <2>a, ConcatProperties
  <2>2. Range(first \o rest) = Range(first) \cup Range(rest)
    BY <2>a, RangeConcatenation
  <2> QED BY <1>4, <1>6, <1>7, <1>8, <2>1, <2>2
<1> QED BY <1>9, <1>10 DEF all

LEMMA Collapsed ==
    ASSUME NEW b \in Seq(Job), board = b, IsInjective(b)
    PROVE  /\ Collapse(Rows) \in Seq(Listing) /\ Len(Collapse(Rows)) = Len(b)
           /\ IdsOf(Collapse(Rows)) = Range(b)
           /\ Cardinality(IdsOf(Collapse(Rows))) = Len(b)
           /\ \A i \in DOMAIN Collapse(Rows) :
                Collapse(Rows)[i].places = PlacesOf[Collapse(Rows)[i].id]
<1> DEFINE all == UNION {RowsOf(j) : j \in Range(b)}
           ids == SetToSeq(IdsOf(Rows))
           named(id) == {r.place : r \in {r \in Range(Rows) : r.id = id}}
           s == [n \in DOMAIN ids |-> [id |-> ids[n], places |-> named(ids[n])]]
<1>1. DOMAIN b = 1..Len(b) /\ Len(b) \in Nat /\ \A i \in DOMAIN b : b[i] \in Job
  BY LenProperties, ElementOfSeq
<1>2. Rows \in Seq(all) /\ Range(Rows) = all
  BY RowsAreAll
<1>3. IdsOf(Rows) = {r.id : r \in Range(Rows)}
  BY DEF IdsOf, Range
<1>4. \A j \in Range(b) : j \in Job /\ PlacesOf[j] # {}
  BY <1>1, PlacesAssumption DEF Range
<1>5. IdsOf(Rows) = Range(b)
  <2>1. \A r \in all : r.id \in Range(b)
    BY DEF RowsOf
  <2>2. ASSUME NEW j \in Range(b) PROVE \E r \in all : r.id = j
    <3>1. PICK p \in PlacesOf[j] : TRUE
      BY <1>4
    <3>2. [id |-> j, place |-> p] \in RowsOf(j)
      BY DEF RowsOf
    <3> QED BY <3>2
  <2> HIDE DEF all
  <2> QED BY <1>2, <1>3, <2>1, <2>2
<1>6. /\ ids \in Seq(Range(b)) /\ Len(ids) = Len(b)
      /\ Range(ids) = Range(b)
  BY <1>5, DistinctCount, SetAsSeq
<1>7. ASSUME NEW j \in Range(b) PROVE named(j) = PlacesOf[j]
  <2>1. ASSUME NEW r \in all, r.id = j PROVE r.place \in PlacesOf[j]
    BY <2>1 DEF RowsOf
  <2>2. ASSUME NEW p \in PlacesOf[j] PROVE \E r \in all : r.id = j /\ r.place = p
    <3>1. [id |-> j, place |-> p] \in RowsOf(j)
      BY DEF RowsOf
    <3> QED BY <3>1
  <2> HIDE DEF all
  <2> QED BY <1>2, <2>1, <2>2
<1>8. DOMAIN ids = 1..Len(b) /\ \A n \in 1..Len(b) : ids[n] \in Range(b)
  BY <1>6, LenProperties, ElementOfSeq
<1>9. Collapse(Rows) = s
  BY DEF Collapse
<1>10. /\ DOMAIN s = 1..Len(b)
       /\ \A n \in 1..Len(b) : s[n] = [id |-> ids[n], places |-> PlacesOf[ids[n]]]
  BY <1>7, <1>8
<1>11. s \in [1..Len(b) -> [id : Range(b), places : {PlacesOf[j] : j \in Range(b)}]]
  <2> HIDE DEF ids, named, all
  <2> QED BY <1>7, <1>8
<1> HIDE DEF s, ids, named, all
<1>12. [id : Range(b), places : {PlacesOf[j] : j \in Range(b)}] \subseteq Listing
  <2>1. \A j \in Range(b) : PlacesOf[j] \in SUBSET UNION Range(PlacesOf)
    BY <1>4, PlacesAssumption DEF Range
  <2> QED BY <1>4, <2>1 DEF Listing
<1>13. \A n \in 1..Len(b) : s[n] \in Listing /\ s[n].id = ids[n] /\ s[n].places = PlacesOf[s[n].id]
  BY <1>8, <1>10, <1>11, <1>12
<1>14. s \in Seq(Listing) /\ Len(s) = Len(b)
  BY <1>1, <1>10, <1>13, <1>11
<1>15. IdsOf(s) = Range(b)
  <2>1. IdsOf(s) = Range(ids)
    BY <1>8, <1>10, <1>13 DEF IdsOf, Range
  <2> QED BY <1>6, <2>1
<1> QED BY <1>9, <1>10, <1>13, <1>14, <1>15, DistinctCount

(* A page: the postings that follow a position, none of them only past the *)
(* end.                                                                    *)
LEMMA PageShape ==
    ASSUME board \in Seq(Job), IsInjective(board), NEW o \in Nat
    PROVE  LET page == PageAt(o)
           IN  /\ page \in Seq(Job) /\ IsInjective(page)
               /\ Len(page) \in Nat /\ DOMAIN page = 1..Len(page)
               /\ \A k \in 1..Len(page) : o + k \in DOMAIN board /\ page[k] = board[o + k]
               /\ Len(page) = 0 => Len(board) <= o
<1> DEFINE m == IF o + PageSize < Len(board) THEN o + PageSize ELSE Len(board)
           page == SubSeq(board, o + 1, m)
<1>1. /\ DOMAIN board = 1..Len(board) /\ Len(board) \in Nat
      /\ \A i \in DOMAIN board : board[i] \in Job
  BY LenProperties, ElementOfSeq
<1>2. /\ m \in Nat /\ m <= Len(board) /\ o + 1 \in Int
      /\ m <= o => Len(board) <= o
  BY <1>1, NumbersAssumption
<1> HIDE DEF m
<1>3. \A i \in (o + 1)..m : board[i] \in Job /\ i \in DOMAIN board
  BY <1>1, <1>2
<1>4. /\ page \in Seq(Job)
      /\ Len(page) = IF o + 1 <= m THEN m - (o + 1) + 1 ELSE 0
      /\ \A i \in 1..(m - (o + 1) + 1) : page[i] = board[o + 1 + i - 1]
  <2>1. \A i \in (o + 1)..m : board[i] \in Job
    BY <1>3
  <2> QED BY <1>2, <2>1, SubSeqProperties
<1>5. PageAt(o) = page
  BY DEF PageAt, m
<1> HIDE DEF page
<1>6. Len(page) \in Nat /\ DOMAIN page = 1..Len(page)
  BY <1>4, LenProperties
<1>7. Len(page) = 0 => Len(board) <= o
  BY <1>2, <1>4
<1>8. ASSUME NEW k \in 1..Len(page)
      PROVE  o + k \in DOMAIN board /\ page[k] = board[o + k]
  <2>1. o + 1 <= m /\ Len(page) = m - o /\ k \in 1..(m - (o + 1) + 1) /\ o + 1 + k - 1 = o + k
    BY <1>2, <1>4, <1>6
  <2>2. o + k \in (o + 1)..m
    BY <1>2, <2>1
  <2> QED BY <1>3, <1>4, <2>1, <2>2
<1>9. IsInjective(page)
  <2>1. ASSUME NEW k \in 1..Len(page), NEW l \in 1..Len(page), page[k] = page[l] PROVE k = l
    <3>1. o + k = o + l
      BY <1>8, <2>1 DEF IsInjective
    <3> QED BY <1>6, <3>1
  <2> QED BY <1>6, <2>1 DEF IsInjective
<1> QED BY <1>4, <1>5, <1>6, <1>7, <1>8, <1>9

-----------------------------------------------------------------------------
(* Adapters.TypeOK always holds: a board lists no posting twice, and what  *)
(* was there all along is still there.                                     *)
LEMMA TypeStep ==
    ASSUME TypeOK, [Next]_vars
    PROVE  TypeOK'
<1> USE DEF TypeOK
<1>1. CASE UNCHANGED vars
  BY <1>1 DEF vars, boardVars, observers
<1>2. ASSUME NEW j \in Job, Open(j) PROVE TypeOK'
  <2>1. PICK i \in 1..(Len(board) + 1) : board' = InsertAt(board, i, j)
    BY <1>2 DEF Open
  <2>2. j \in Job \ Range(board)
    BY <1>2 DEF Open
  <2>3. /\ board' \in Seq(Job) /\ IsInjective(board')
        /\ Range(board') = Range(board) \cup {j}
    BY <2>1, <2>2, OpenMoves, 0 \in Nat
  <2>4. changes' \in 0..MaxChanges
    BY <1>2, NumbersAssumption DEF Open, Change
  <2> QED BY <1>2, <2>3, <2>4 DEF Open, Change
<1>3. ASSUME NEW i \in DOMAIN board, Close(i) PROVE TypeOK'
  <2>1. /\ board' \in Seq(Job) /\ IsInjective(board')
        /\ Range(board') = Range(board) \ {board[i]}
    BY <1>3, CloseMoves, 0 \in Nat DEF Close
  <2>2. changes' \in 0..MaxChanges
    BY <1>3, NumbersAssumption DEF Close, Change
  <2> QED BY <1>3, <2>1, <2>2 DEF Close, Change
<1>4. ASSUME NEW i \in DOMAIN board, MoveUp(i) PROVE TypeOK'
  <2>1. /\ board' \in Seq(Job) /\ IsInjective(board') /\ Range(board') = Range(board)
    BY <1>4, MoveUpMoves, 0 \in Nat DEF MoveUp
  <2>2. changes' \in 0..MaxChanges
    BY <1>4, NumbersAssumption DEF MoveUp, Change
  <2>3. /\ grown' = grown + 1 /\ shrunk' = shrunk + 1
        /\ UNCHANGED <<shown, kept, ats, host, quirk, faults, step, error,
                       shard, offset, todo, got>>
    BY <1>4 DEF MoveUp, Change
  <2> QED BY <2>1, <2>2, <2>3
<1>5. ASSUME NEW e \in {"missing", "other"}, Refused(e) PROVE TypeOK'
  <2>1. faults' \in 0..MaxFaults
    BY <1>5, NumbersAssumption DEF Refused
  <2>2. CASE FallsBack(e)
    <3>1. /\ step = "list" /\ shard' = "eu" /\ UNCHANGED <<step, error, offset, todo, got>>
          /\ UNCHANGED <<boardVars, observers>>
      BY <1>5, <2>2 DEF Refused
    <3> QED BY <2>1, <3>1 DEF boardVars, observers, Busy
  <2>3. CASE ~FallsBack(e)
    BY <1>5, <2>1, <2>3 DEF Refused, Raise, boardVars, observers, Busy
  <2> QED BY <2>2, <2>3
<1>6. CASE ListWhole
  <2>1. got' \in Seq(Listing)
    BY <1>6, ListedWhole DEF ListWhole
  <2> QED BY <1>6, <2>1 DEF ListWhole, boardVars, observers, Busy
<1>7. CASE ListShard
  <2>1. got' \in Seq(Listing)
    BY <1>7, ListedWhole DEF ListShard
  <2> QED BY <1>7, <2>1 DEF ListShard, boardVars, observers, Busy
<1>8. CASE ListOpenings
  <2>1. todo' \in Seq(Listing)
    BY <1>8, ListedWhole DEF ListOpenings
  <2> QED BY <1>8, <2>1 DEF ListOpenings, boardVars, observers, Busy
<1>9. CASE ListRows
  <2>1. todo' \in Seq(Listing)
    BY <1>9, Collapsed DEF ListRows
  <2> QED BY <1>9, <2>1 DEF ListRows, boardVars, observers, Busy
<1>10. CASE ListPage
  <2> DEFINE o == IF quirk = "stuck" THEN 0 ELSE offset
             page == PageAt(o)
             more == [i \in DOMAIN page |-> Listed(page[i])]
  <2>1. o \in Nat
    OBVIOUS
  <2>2. page \in Seq(Job) /\ IsInjective(page) /\ Len(page) \in Nat
    <3> HIDE DEF o
    <3> QED BY <2>1, PageShape
  <2>3. /\ todo' = todo \o more
        /\ \/ offset' = Advance(page) /\ UNCHANGED step
           \/ step' = "details" /\ UNCHANGED offset
        /\ UNCHANGED <<boardVars, faults, error, shard, got, observers>>
        /\ step = "list"
    BY <1>10 DEF ListPage
  <2> HIDE DEF page, o
  <2>4. more \in Seq(Listing)
    BY <2>2, ListedWhole
  <2> HIDE DEF more
  <2>5. todo' \in Seq(Listing)
    BY <2>3, <2>4, ConcatProperties
  <2>6. offset' \in Nat
    BY <2>2, <2>3 DEF Advance
  <2> QED BY <2>3, <2>5, <2>6 DEF boardVars, observers, Busy
<1>11. CASE Detail
  <2>1. todo # <<>> /\ Head(todo) \in Listing /\ Tail(todo) \in Seq(Listing)
    BY <1>11, HeadTailProperties DEF Detail
  <2>2. PICK named \in {PlacesOf[Head(todo).id], {}} :
            got' = Append(got, Mapped(Head(todo), named))
    BY <1>11 DEF Detail
  <2>3. Mapped(Head(todo), named) \in Listing
    BY <2>1, <2>2, PlacesAssumption DEF Mapped, Listing, Range
  <2>4. got' \in Seq(Listing)
    BY <2>2, <2>3, AppendProperties
  <2> QED BY <1>11, <2>1, <2>4 DEF Detail, boardVars, observers, Busy
<1>12. CASE DetailRefused
  <2>1. faults' \in 0..MaxFaults
    BY <1>12, NumbersAssumption DEF DetailRefused
  <2> QED BY <1>12, <2>1 DEF DetailRefused, Raise, boardVars, observers, Busy
<1>13. CASE Return
  BY <1>13 DEF Return, boardVars, observers, Busy
<1>14. CASE FetchAgain
  <2>1. Range(board) \subseteq Job
    BY RangeOfSeq
  <2> QED BY <1>14, <2>1, EmptySeq DEF FetchAgain, boardVars, Busy
<1> QED BY <1>1, <1>2, <1>3, <1>4, <1>5, <1>6, <1>7, <1>8, <1>9, <1>10, <1>11, <1>12, <1>13, <1>14
        DEF Next, Fetch

(* The variables keep their types, and a board lists a posting once,       *)
(* whatever changes on it while it is fetched.                             *)
THEOREM TypeCorrect == Spec => []TypeOK
<1>1. Init => TypeOK
  <2> SUFFICES ASSUME Init PROVE TypeOK
    OBVIOUS
  <2>1. board \in Seq(Job) /\ IsInjective(board) /\ Range(board) \subseteq Job
    BY BoardsAssumption, RangeOfSeq DEF Init
  <2>2. quirk \in Quirks \cup {"none"}
    BY DEF Init
  <2> QED BY <2>1, <2>2, NumbersAssumption, EmptySeq DEF Init, TypeOK, Busy
<1>2. TypeOK /\ [Next]_vars => TypeOK'
  BY TypeStep
<1> QED BY <1>1, <1>2, PTL DEF Spec

-----------------------------------------------------------------------------
(* Only Lever's second shard is asked for, and only once the first has     *)
(* said that it does not have the board.                                   *)
Shards ==
    /\ Access[ats] # "sharded" => host # "eu" /\ shard = "us"
    /\ shard = "eu" => host # "us"
    /\ error = "missing" => host = "none"

LEMMA ShardsStep ==
    ASSUME TypeOK, Shards, [Next]_vars
    PROVE  Shards'
<1> USE DEF Shards
<1>1. CASE UNCHANGED vars
  BY <1>1 DEF vars, boardVars
<1>2. CASE \E j \in Job : Open(j)
  BY <1>2 DEF Open, Change
<1>3. CASE \E i \in DOMAIN board : Close(i)
  BY <1>3 DEF Close, Change
<1>4. CASE \E i \in DOMAIN board : MoveUp(i)
  BY <1>4 DEF MoveUp, Change
<1>5. CASE Refused("missing")
  <2>1. host # shard /\ host \in {"us", "eu", "none"} /\ shard \in {"us", "eu"}
    BY <1>5 DEF Refused, TypeOK
  <2>2. CASE FallsBack("missing")
    <3>1. /\ Access[ats] = "sharded" /\ shard = "us"
          /\ shard' = "eu" /\ UNCHANGED <<ats, host, error>>
      BY <1>5, <2>2 DEF Refused, FallsBack, boardVars
    <3> QED BY <2>1, <3>1
  <2>3. CASE ~FallsBack("missing")
    <3>1. /\ Access[ats] # "sharded" \/ shard # "us"
          /\ UNCHANGED <<ats, host, shard>>
      BY <1>5, <2>3 DEF Refused, Raise, FallsBack, boardVars
    <3>2. host = "none"
      BY <2>1, <3>1
    <3> QED BY <3>1, <3>2
  <2> QED BY <2>2, <2>3
<1>6. CASE Refused("other")
  <2>1. ~FallsBack("other")
    BY DEF FallsBack
  <2>2. error' = "other" /\ UNCHANGED <<ats, host, shard>>
    BY <1>6, <2>1 DEF Refused, Raise, boardVars
  <2> QED BY <2>2
<1>7. CASE ListWhole \/ ListShard \/ ListOpenings \/ ListRows
  BY <1>7 DEF ListWhole, ListShard, ListOpenings, ListRows, boardVars
<1>8. CASE ListPage \/ Detail \/ Return
  BY <1>8 DEF ListPage, Detail, Return, boardVars
<1>9. CASE DetailRefused
  BY <1>9 DEF DetailRefused, Raise, boardVars
<1>10. CASE FetchAgain
  BY <1>10 DEF FetchAgain, boardVars
<1> QED BY <1>1, <1>2, <1>3, <1>4, <1>5, <1>6, <1>7, <1>8, <1>9, <1>10 DEF Next, Fetch

(* Adapters.MissingMeansMissing always holds, whichever shard has the      *)
(* board and however often either of them fails.                           *)
THEOREM MissingIsMissing == Spec => []MissingMeansMissing
<1>1. Init => Shards
  BY DEF Init, Shards
<1>2. TypeOK /\ Shards /\ [Next]_vars => Shards'
  BY ShardsStep
<1>3. Shards => MissingMeansMissing
  BY DEF Shards, MissingMeansMissing
<1> QED BY <1>1, <1>2, <1>3, TypeCorrect, PTL DEF Spec

-----------------------------------------------------------------------------
(* What Rippling lists has all its places already, and keeps them.         *)
Full(s) == \A i \in DOMAIN s : s[i].places = PlacesOf[s[i].id]
Places == Access[ats] = "collapsed" => Full(todo) /\ Full(got)

LEMMA PlacesStep ==
    ASSUME TypeOK, Places, [Next]_vars
    PROVE  Places'
<1> USE DEF boardVars
<1>0. board \in Seq(Job) /\ IsInjective(board) /\ todo \in Seq(Listing) /\ got \in Seq(Listing)
  BY DEF TypeOK
<1>1. CASE UNCHANGED <<ats, todo, got>>
  BY <1>1 DEF Places
<1>2. CASE ListWhole \/ ListShard \/ ListOpenings \/ ListPage
  <2>1. Access[ats] # "collapsed" /\ UNCHANGED ats
    BY <1>2 DEF ListWhole, ListShard, ListOpenings, ListPage
  <2> QED BY <2>1 DEF Places
<1>3. CASE ListRows
  <2>1. todo' = Collapse(Rows) /\ UNCHANGED <<ats, got>>
    BY <1>3 DEF ListRows
  <2>2. Full(todo)'
    BY <1>0, <2>1, Collapsed DEF Full
  <2> QED BY <2>1, <2>2 DEF Places
<1>4. CASE Detail
  <2> DEFINE item == Head(todo)
  <2>1. /\ todo # <<>> /\ item \in Listing /\ Tail(todo) \in Seq(Listing)
        /\ Len(Tail(todo)) = Len(todo) - 1
        /\ \A i \in 1..Len(Tail(todo)) : Tail(todo)[i] = todo[i + 1]
    BY <1>0, <1>4, HeadTailProperties DEF Detail
  <2>2. /\ DOMAIN todo = 1..Len(todo) /\ Len(todo) \in Nat /\ Len(todo) # 0
        /\ DOMAIN Tail(todo) = 1..Len(Tail(todo))
        /\ item = todo[1]
    BY <1>0, <2>1, LenProperties, EmptySeq
  <2>5. todo' = Tail(todo) /\ ats' = ats
    BY <1>4 DEF Detail
  <2> SUFFICES ASSUME Access[ats] = "collapsed" PROVE Full(todo)' /\ Full(got)'
    BY <2>5 DEF Places
  <2>3. item.places = PlacesOf[item.id]
    BY <2>2 DEF Places, Full
  <2>4. PICK named \in {PlacesOf[item.id], {}} : got' = Append(got, Mapped(item, named))
    BY <1>4 DEF Detail
  <2> DEFINE mapped == Mapped(item, named)
  <2>6. mapped \in Listing /\ mapped.places = PlacesOf[mapped.id]
    BY <2>1, <2>3, <2>4, PlacesAssumption DEF Mapped, Listing, Range
  <2> HIDE DEF item, mapped
  <2>7. Full(todo)'
    <3>1. \A i \in DOMAIN Tail(todo) : i + 1 \in DOMAIN todo /\ Tail(todo)[i] = todo[i + 1]
      BY <2>1, <2>2
    <3> QED BY <2>5, <3>1 DEF Places, Full
  <2>8. Full(got)'
    <3> DEFINE all == Append(got, mapped)
    <3>1. /\ all \in Seq(Listing) /\ Len(all) = Len(got) + 1
          /\ \A i \in 1..Len(got) : all[i] = got[i]
          /\ all[Len(got) + 1] = mapped
      BY <1>0, <2>6, AppendProperties
    <3> HIDE DEF all
    <3>2. DOMAIN all = 1..(Len(got) + 1) /\ DOMAIN got = 1..Len(got) /\ Len(got) \in Nat
      BY <1>0, <3>1, LenProperties
    <3>3. \A i \in DOMAIN all : (i \in DOMAIN got /\ all[i] = got[i]) \/ all[i] = mapped
      BY <3>1, <3>2
    <3>4. Full(all)
      BY <2>6, <3>3 DEF Places, Full
    <3> QED BY <2>4, <3>4 DEF Full, all, mapped
  <2> QED BY <2>7, <2>8
<1>5. CASE FetchAgain
  <2>1. todo' = <<>> /\ got' = <<>> /\ DOMAIN (<<>>) = {}
    BY <1>5 DEF FetchAgain
  <2> QED BY <2>1 DEF Places, Full
<1>6. CASE Refused("missing") \/ Refused("other")
  BY <1>1, <1>6 DEF Refused, Raise
<1>7. CASE DetailRefused \/ Return
  BY <1>1, <1>7 DEF DetailRefused, Raise, Return
<1>8. CASE \E j \in Job : Open(j)
  BY <1>1, <1>8 DEF Open, Change
<1>9. CASE \E i \in DOMAIN board : Close(i) \/ MoveUp(i)
  BY <1>1, <1>9 DEF Close, MoveUp, Change
<1>10. CASE UNCHANGED vars
  BY <1>1, <1>10 DEF vars
<1> HIDE DEF boardVars
<1> QED BY <1>2, <1>3, <1>4, <1>5, <1>6, <1>7, <1>8, <1>9, <1>10 DEF Next, Fetch

(* However many rows of places _collapse puts together, and whether the    *)
(* detail names the places or not, a posting of Rippling has all of them.  *)
THEOREM PlacesAreKept == Spec => []CollapseKeepsEveryPlace
<1>1. Init => Places
  <2>1. DOMAIN (<<>>) = {}
    OBVIOUS
  <2> QED BY <2>1 DEF Init, Places, Full
<1>2. TypeOK /\ Places /\ [Next]_vars => Places'
  BY PlacesStep
<1>3. Places => CollapseKeepsEveryPlace
  BY DEF Places, Full, CollapseKeepsEveryPlace
<1> QED BY <1>1, <1>2, <1>3, TypeCorrect, PTL DEF Spec

-----------------------------------------------------------------------------
(* The pages.  offset divides the board into what the walk has passed and  *)
(* what is ahead.  It loses a posting that was there all along when that   *)
(* one gets behind the line unseen, and takes one twice when that one is   *)
(* in hand and ahead again: each change brings one posting over the line,  *)
(* at most, and so adds one to either, for which shrunk or grown counts    *)
(* one more.  That these last is why the bound on what is lost or doubled  *)
(* in the end is not inductive without them.                               *)
Missed == (kept \ IdsOf(todo)) \cap UpTo(board, offset)
Again == IdsOf(todo) \cap After(board, offset)
InHand == IdsOf(got) \cup IdsOf(todo)

Walk ==
    step = "list" /\ quirk = "none" =>
        /\ got = <<>> /\ offset = Len(todo) /\ IdsOf(todo) \subseteq shown
        /\ Access[ats] # "paged" => todo = <<>>
        /\ Cardinality(Missed) <= shrunk
        /\ Len(todo) - Cardinality(IdsOf(todo)) + Cardinality(Again) <= grown

Fetched ==
    step \in {"details", "returned"} /\ quirk = "none" =>
        /\ step = "returned" => todo = <<>>
        /\ Cardinality(kept \ InHand) <= shrunk
        /\ Len(got) + Len(todo) - Cardinality(InHand) <= grown

LEMMA OneMore ==
    ASSUME NEW S, NEW T, NEW x, IsFiniteSet(S), T \subseteq S \cup {x}
    PROVE  Cardinality(T) <= Cardinality(S) + 1
<1>0. Cardinality(S) \in Nat
  BY FS_CardinalityType
<1>1. IsFiniteSet(S \cup {x}) /\ Cardinality(S \cup {x}) <= Cardinality(S) + 1
  BY <1>0, FS_AddElement
<1>2. Cardinality(T) <= Cardinality(S \cup {x}) /\ Cardinality(T) \in Nat
  BY <1>1, FS_Subset, FS_CardinalityType
<1> QED BY <1>1, <1>2, FS_CardinalityType

LEMMA NoMore ==
    ASSUME NEW S, NEW T, IsFiniteSet(S), T \subseteq S
    PROVE  Cardinality(T) <= Cardinality(S) /\ Cardinality(T) \in Nat /\ IsFiniteSet(T)
BY FS_Subset, FS_CardinalityType

LEMMA KeptFinite ==
    ASSUME TypeOK
    PROVE  IsFiniteSet(kept)
<1>1. IsFiniteSet(Range(board)) /\ kept \subseteq Range(board)
  BY DistinctCount DEF TypeOK
<1> QED BY <1>1, FS_Subset

(* A change of the board, of which it is known what gets over the line.    *)
LEMMA ChangeStep ==
    ASSUME TypeOK, TypeOK', Walk, Fetched, Change, NEW x, NEW y,
           kept' \subseteq kept, shown \subseteq shown',
           grown' >= grown, shrunk' >= shrunk,
           \/ kept' \cap UpTo(board', offset) \subseteq UpTo(board, offset)
           \/ /\ kept' \cap UpTo(board', offset) \subseteq UpTo(board, offset) \cup {x}
              /\ shrunk' = shrunk + 1,
           \/ shown \cap After(board', offset) \subseteq After(board, offset)
           \/ /\ shown \cap After(board', offset) \subseteq After(board, offset) \cup {y}
              /\ grown' = grown + 1
    PROVE  Walk' /\ Fetched'
<1>1. UNCHANGED <<ats, quirk, step, offset, todo, got>>
  BY DEF Change
<1>2. /\ grown \in Nat /\ grown' \in Nat /\ shrunk \in Nat /\ shrunk' \in Nat
      /\ todo \in Seq(Listing) /\ got \in Seq(Listing)
  BY DEF TypeOK
<1>3. Len(todo) \in Nat /\ Len(got) \in Nat
  BY <1>2, LenProperties
<1>4. /\ IsFiniteSet(kept) /\ IsFiniteSet(IdsOf(todo)) /\ Cardinality(IdsOf(todo)) \in Nat
      /\ IsFiniteSet(IdsOf(got))
  BY <1>2, KeptFinite, IdsFinite
<1>5. ASSUME step = "list", quirk = "none" PROVE Walk'
  <2>1. /\ got = <<>> /\ offset = Len(todo) /\ IdsOf(todo) \subseteq shown
        /\ Access[ats] # "paged" => todo = <<>>
        /\ Cardinality(Missed) <= shrunk
        /\ Len(todo) - Cardinality(IdsOf(todo)) + Cardinality(Again) <= grown
    BY <1>5 DEF Walk
  <2>2. Cardinality(Missed') <= shrunk'
    <3>1. IsFiniteSet(Missed) /\ Cardinality(Missed) \in Nat
      BY <1>4, NoMore DEF Missed
    <3>2. Missed' \subseteq Missed \/ (Missed' \subseteq Missed \cup {x} /\ shrunk' = shrunk + 1)
      BY <1>1 DEF Missed
    <3>3. CASE Missed' \subseteq Missed
      <4>1. Cardinality(Missed') <= Cardinality(Missed) /\ Cardinality(Missed') \in Nat
        BY <3>1, <3>3, NoMore
      <4> QED BY <1>2, <2>1, <3>1, <4>1
    <3>4. CASE Missed' \subseteq Missed \cup {x} /\ shrunk' = shrunk + 1
      <4>1. Cardinality(Missed') <= Cardinality(Missed) + 1
        BY <3>1, <3>4, OneMore
      <4>2. Cardinality(Missed') \in Nat
        BY <3>1, <3>4, FS_AddElement, NoMore
      <4> QED BY <1>2, <2>1, <3>1, <3>4, <4>1, <4>2
    <3> QED BY <3>2, <3>3, <3>4
  <2>3. Len(todo) - Cardinality(IdsOf(todo)) + Cardinality(Again') <= grown'
    <3>1. IsFiniteSet(Again) /\ Cardinality(Again) \in Nat
      BY <1>4, NoMore DEF Again
    <3>2. Again' \subseteq Again \/ (Again' \subseteq Again \cup {y} /\ grown' = grown + 1)
      BY <1>1, <2>1 DEF Again
    <3>3. CASE Again' \subseteq Again
      <4>1. Cardinality(Again') <= Cardinality(Again) /\ Cardinality(Again') \in Nat
        BY <3>1, <3>3, NoMore
      <4> QED BY <1>2, <1>3, <1>4, <2>1, <3>1, <4>1
    <3>4. CASE Again' \subseteq Again \cup {y} /\ grown' = grown + 1
      <4>1. Cardinality(Again') <= Cardinality(Again) + 1
        BY <3>1, <3>4, OneMore
      <4>2. Cardinality(Again') \in Nat
        BY <3>1, <3>4, FS_AddElement, NoMore
      <4> QED BY <1>2, <1>3, <1>4, <2>1, <3>1, <3>4, <4>1, <4>2
    <3> QED BY <3>2, <3>3, <3>4
  <2> QED BY <1>1, <2>1, <2>2, <2>3 DEF Walk
<1>6. ASSUME step \in {"details", "returned"}, quirk = "none" PROVE Fetched'
  <2>1. /\ step = "returned" => todo = <<>>
        /\ Cardinality(kept \ InHand) <= shrunk
        /\ Len(got) + Len(todo) - Cardinality(InHand) <= grown
    BY <1>6 DEF Fetched
  <2>2. InHand' = InHand /\ IsFiniteSet(InHand) /\ Cardinality(InHand) \in Nat
    BY <1>1, <1>4, FS_Union, FS_CardinalityType DEF InHand
  <2>3. IsFiniteSet(kept \ InHand) /\ kept' \ InHand \subseteq kept \ InHand
    BY <1>4, FS_Difference
  <2>4. Cardinality(kept' \ InHand) <= Cardinality(kept \ InHand)
        /\ Cardinality(kept' \ InHand) \in Nat /\ Cardinality(kept \ InHand) \in Nat
    BY <2>3, NoMore
  <2>5. Cardinality(kept' \ InHand') <= shrunk'
    BY <1>2, <2>1, <2>2, <2>4
  <2>6. Len(got) + Len(todo) - Cardinality(InHand') <= grown'
    BY <1>2, <1>3, <2>1, <2>2
  <2> QED BY <1>1, <2>1, <2>5, <2>6 DEF Fetched
<1> QED BY <1>1, <1>5, <1>6 DEF Walk, Fetched

(* The whole list, taken or still to be fetched: what there is, once.      *)
LEMMA AllListed ==
    ASSUME TypeOK, Walk, step = "list", Access[ats] # "paged",
           NEW s, IdsOf(s) = Range(board), Len(s) = Len(board),
           Cardinality(IdsOf(s)) = Len(board), UNCHANGED observers,
           \/ step' = "returned" /\ got' = s /\ UNCHANGED <<quirk, todo>>
           \/ step' = "details" /\ todo' = s /\ UNCHANGED <<quirk, got>>
    PROVE  Walk' /\ Fetched'
<1>1. Len(board) \in Nat /\ grown \in Nat /\ shrunk \in Nat /\ kept \subseteq Range(board)
  BY LenProperties DEF TypeOK
<1>2. IdsOf(<<>>) = {} /\ Len(<<>>) = 0
  BY DEF IdsOf
<1>3. ASSUME quirk = "none" PROVE Fetched'
  <2>1. got = <<>> /\ todo = <<>>
    BY <1>3 DEF Walk
  <2>2. InHand' = Range(board)
    BY <1>2, <2>1 DEF InHand
  <2>3. Len(got') + Len(todo') = Len(board)
    BY <1>1, <1>2, <2>1
  <2>4. kept' \ InHand' = {} /\ grown' = grown /\ shrunk' = shrunk
    BY <1>1, <2>2 DEF observers
  <2>5. Cardinality(InHand') = Len(board)
    BY <2>2
  <2>6. Cardinality(kept' \ InHand') = 0
    BY <2>4, FS_EmptySet
  <2>7. step' = "returned" => todo' = <<>>
    BY <2>1
  <2> QED BY <1>1, <2>3, <2>4, <2>5, <2>6, <2>7 DEF Fetched
<1>4. quirk' = quirk /\ step' # "list"
  OBVIOUS
<1> QED BY <1>3, <1>4 DEF Walk, Fetched

(* A page: the line moves on by as many postings as are added, those among *)
(* them that were in hand already are no longer ahead.                     *)
LEMMA PageStep ==
    ASSUME TypeOK, TypeOK', Walk, ListPage
    PROVE  Walk' /\ Fetched'
<1> SUFFICES ASSUME quirk = "none" PROVE Walk' /\ Fetched'
  BY DEF ListPage, boardVars, Walk, Fetched
<1> DEFINE page == PageAt(offset)
           more == [i \in DOMAIN page |-> Listed(page[i])]
           P == Range(page)
           T == IdsOf(todo)
           n == offset + Len(page)
<1>1. /\ step = "list" /\ Access[ats] = "paged"
      /\ todo' = todo \o more
      /\ IF GoesOn(page, Len(todo'), TotalFound)
         THEN offset' = n /\ step' = step
         ELSE step' = "details" /\ offset' = offset
      /\ UNCHANGED <<ats, board, quirk, got, shown, kept, grown, shrunk>>
  BY DEF ListPage, Advance, boardVars, observers
<1>2. /\ got = <<>> /\ offset = Len(todo) /\ T \subseteq shown
      /\ Cardinality(Missed) <= shrunk
      /\ Len(todo) - Cardinality(T) + Cardinality(Again) <= grown
  BY <1>1 DEF Walk
<1>3. /\ board \in Seq(Job) /\ IsInjective(board) /\ todo \in Seq(Listing)
      /\ offset \in Nat /\ Len(todo) \in Nat /\ grown \in Nat /\ shrunk \in Nat
      /\ Range(board) \subseteq shown /\ kept \subseteq Range(board)
      /\ DOMAIN board = 1..Len(board) /\ Len(board) \in Nat
  BY LenProperties DEF TypeOK
<1>4. /\ page \in Seq(Job) /\ IsInjective(page)
      /\ Len(page) \in Nat /\ DOMAIN page = 1..Len(page)
      /\ \A k \in 1..Len(page) : offset + k \in DOMAIN board /\ page[k] = board[offset + k]
      /\ Len(page) = 0 => Len(board) <= offset
  BY <1>3, PageShape
<1> HIDE DEF page
<1>5. /\ more \in Seq(Listing) /\ Len(more) = Len(page) /\ IdsOf(more) = P
      /\ Cardinality(P) = Len(page)
  BY <1>4, ListedWhole
<1>6. IsFiniteSet(P)
  BY <1>4, DistinctCount
<1> HIDE DEF more
<1>7. /\ todo \o more \in Seq(Listing) /\ Len(todo \o more) = Len(todo) + Len(page)
      /\ IdsOf(todo \o more) = T \cup P
  <2>1. /\ todo \o more \in Seq(Listing) /\ Len(todo \o more) = Len(todo) + Len(more)
    BY <1>3, <1>5, ConcatProperties
  <2>2. Range(todo \o more) = Range(todo) \cup Range(more)
    BY <1>3, <1>5, RangeConcatenation
  <2>3. \A s : IdsOf(s) = {r.id : r \in Range(s)}
    BY DEF IdsOf, Range
  <2>4. IdsOf(todo \o more) = T \cup IdsOf(more)
    BY <2>2, <2>3
  <2> QED BY <1>5, <2>1, <2>4
<1>8. P = {board[i] : i \in {i \in DOMAIN board : i > offset /\ i <= n}}
  <2>1. \A k \in 1..Len(page) :
            offset + k \in {i \in DOMAIN board : i > offset /\ i <= n} /\ page[k] = board[offset + k]
    BY <1>3, <1>4
  <2>2. ASSUME NEW i \in DOMAIN board, i > offset, i <= n PROVE board[i] \in P
    <3>1. i - offset \in 1..Len(page) /\ offset + (i - offset) = i
      BY <1>3, <1>4, <2>2
    <3> QED BY <1>4, <3>1 DEF Range
  <2> QED BY <1>4, <2>1, <2>2 DEF Range
<1>9. n \in Nat
  BY <1>3, <1>4
<1>10. UpTo(board, n) = UpTo(board, offset) \cup P
  <2>1. \A i \in DOMAIN board : i <= n <=> (i <= offset \/ (i > offset /\ i <= n))
    BY <1>3, <1>4
  <2> QED BY <1>8, <2>1 DEF UpTo
<1>11. After(board, n) = After(board, offset) \ P /\ P \subseteq After(board, offset)
  <2>1. \A i \in DOMAIN board : i > n <=> (i > offset /\ ~(i > offset /\ i <= n))
    BY <1>3, <1>4
  <2>2. \A i, k \in DOMAIN board : board[i] = board[k] => i = k
    BY <1>3 DEF IsInjective
  <2> HIDE DEF n
  <2> QED BY <1>8, <2>1, <2>2 DEF After
<1> HIDE DEF P
<1>12. /\ IsFiniteSet(T) /\ Cardinality(T) \in Nat /\ IsFiniteSet(Again)
       /\ Cardinality(Again) \in Nat /\ IsFiniteSet(Missed) /\ Cardinality(Missed) \in Nat
  <2>1. IsFiniteSet(IdsOf(todo)) /\ Cardinality(IdsOf(todo)) \in Nat
    BY <1>3, IdsFinite
  <2>2. Again \subseteq IdsOf(todo) /\ Missed \subseteq kept
    BY DEF Again, Missed
  <2>3. IsFiniteSet(Again) /\ Cardinality(Again) \in Nat
    BY <2>1, <2>2, NoMore
  <2>4. IsFiniteSet(Missed) /\ Cardinality(Missed) \in Nat
    BY <2>2, KeptFinite, NoMore
  <2> QED BY <2>1, <2>3, <2>4
<1> DEFINE missed == (kept \ (T \cup P)) \cap UpTo(board, n)
           again == (T \cup P) \cap After(board, n)
<1> HIDE DEF T, n
<1>13. Cardinality(missed) <= shrunk /\ Cardinality(missed) \in Nat
  <2>1. missed \subseteq Missed
    BY <1>10 DEF Missed, T
  <2>2. Cardinality(missed) <= Cardinality(Missed) /\ Cardinality(missed) \in Nat
    BY <1>12, <2>1, NoMore
  <2> QED BY <1>2, <1>3, <1>12, <2>2
<1>14. Len(todo) + Len(page) - Cardinality(T \cup P) + Cardinality(again) <= grown
       /\ Cardinality(again) \in Nat /\ Cardinality(T \cup P) \in Nat
  <2>1. again = Again \ P /\ Again \cap P = T \cap P
    BY <1>11 DEF Again, T
  <2>2. Cardinality(again) = Cardinality(Again) - Cardinality(Again \cap P)
    BY <1>12, <2>1, FS_Difference
  <2>3. Cardinality(T \cup P) = Cardinality(T) + Cardinality(P) - Cardinality(T \cap P)
    BY <1>6, <1>12, FS_Union
  <2>4. Cardinality(T \cap P) \in Nat
    BY <1>6, NoMore
  <2>5. IsFiniteSet(T \cup P) /\ IsFiniteSet(again)
    BY <1>6, <1>12, <2>1, FS_Union, FS_Difference
  <2>6. Cardinality(T \cup P) \in Nat /\ Cardinality(again) \in Nat
    BY <2>5, FS_CardinalityType
  <2>7. Len(todo) + Len(page) - Cardinality(T \cup P) + Cardinality(again)
            = Len(todo) - Cardinality(T) + Cardinality(Again)
    <3>1. Cardinality(Again \cap P) = Cardinality(T \cap P)
      BY <2>1
    <3>2. \A t, l, a, p, m \in Nat : t + l - (a + l - m) + (p - m) = t - a + p
      OBVIOUS
    <3>3. Cardinality(T \cup P) = Cardinality(T) + Len(page) - Cardinality(T \cap P)
      BY <1>5, <2>3
    <3>4. Cardinality(again) = Cardinality(Again) - Cardinality(T \cap P)
      BY <2>2, <3>1
    <3> HIDE DEF again
    <3> QED BY <1>3, <1>4, <1>12, <2>4, <3>2, <3>3, <3>4
  <2> QED BY <1>2, <2>6, <2>7 DEF T
<1>15. Len(todo') = Len(todo) + Len(page) /\ IdsOf(todo') = T \cup P
  BY <1>1, <1>7
<1>16. CASE step' = "list"
  <2>1. offset' = n
    BY <1>1, <1>16
  <2>2. Missed' = missed /\ Again' = again
    BY <1>1, <1>15, <2>1 DEF Missed, Again
  <2>3. offset' = Len(todo')
    BY <1>2, <1>15, <2>1 DEF n
  <2>4. IdsOf(todo') \subseteq shown'
    BY <1>1, <1>2, <1>3, <1>11, <1>15 DEF After, Range, T
  <2> HIDE DEF missed, again
  <2> QED BY <1>1, <1>2, <1>13, <1>14, <1>15, <1>16, <2>2, <2>3, <2>4 DEF Walk, Fetched
<1>17. CASE step' # "list"
  <2>1. ~GoesOn(page, Len(todo'), TotalFound) /\ step' = "details"
    BY <1>1, <1>17
  <2>2. TotalFound = Len(board)
    BY <1>3 DEF TotalFound, Miscount
  <2>3. Len(board) <= n
    <3>1. page = <<>> \/ None = Len(board) \/ ~(Len(todo') < Len(board))
      BY <2>1, <2>2 DEF GoesOn
    <3>2. None # Len(board)
      BY <1>3, NumbersAssumption
    <3>3. page = <<>> => Len(page) = 0
      OBVIOUS
    <3> QED BY <1>2, <1>3, <1>4, <1>15, <3>1, <3>2, <3>3 DEF n
  <2>4. kept \subseteq UpTo(board, n)
    BY <1>3, <1>9, <2>3 DEF UpTo, Range
  <2>5. kept \ (T \cup P) = missed
    BY <2>4
  <2>6. InHand' = T \cup P /\ got' = <<>> /\ Len(got') = 0
    BY <1>1, <1>2, <1>15 DEF InHand, IdsOf
  <2> HIDE DEF missed, again
  <2>7. Cardinality(kept' \ InHand') <= shrunk'
    BY <1>1, <1>13, <2>5, <2>6
  <2>8. Len(got') + Len(todo') - Cardinality(InHand') <= grown'
    BY <1>1, <1>3, <1>4, <1>14, <1>15, <2>6
  <2> QED BY <1>17, <2>1, <2>7, <2>8 DEF Walk, Fetched
<1> QED BY <1>16, <1>17

(* A detail takes the posting from the one list to the other.              *)
LEMMA DetailStep ==
    ASSUME TypeOK, TypeOK', Fetched, Detail
    PROVE  Walk' /\ Fetched'
<1> DEFINE item == Head(todo)
<1>1. /\ step = "details" /\ todo # <<>> /\ todo' = Tail(todo)
      /\ UNCHANGED <<step, quirk, kept, grown, shrunk>>
  BY DEF Detail, boardVars, observers
<1>2. PICK named : got' = Append(got, Mapped(item, named))
  BY DEF Detail
<1>3. todo \in Seq(Listing) /\ got \in Seq(Listing)
  BY DEF TypeOK
<1>4. /\ item \in Listing /\ Len(todo') = Len(todo) - 1
      /\ \A i \in 1..Len(todo') : todo'[i] = todo[i + 1]
      /\ DOMAIN todo = 1..Len(todo) /\ Len(todo) \in Nat /\ Len(todo) # 0
      /\ DOMAIN todo' = 1..Len(todo') /\ Len(todo') \in Nat /\ item = todo[1]
  <2>1. todo' \in Seq(Listing)
    BY DEF TypeOK
  <2> QED BY <1>1, <1>3, <2>1, HeadTailProperties, LenProperties, EmptySeq
<1> DEFINE mapped == Mapped(item, named)
<1>5. mapped.id = item.id
  BY <1>4 DEF Mapped, Listing
<1> HIDE DEF mapped, item
<1>6. /\ Len(got') = Len(got) + 1 /\ DOMAIN got' = 1..(Len(got) + 1)
      /\ DOMAIN got = 1..Len(got) /\ Len(got) \in Nat
      /\ \A i \in 1..Len(got) : got'[i] = got[i]
      /\ got'[Len(got) + 1] = mapped
  BY <1>2, <1>3 DEF mapped
<1>7. IdsOf(todo) = IdsOf(todo') \cup {item.id}
  <2>1. \A i \in DOMAIN todo : i = 1 \/ (i - 1 \in DOMAIN todo' /\ todo'[i - 1] = todo[i])
    BY <1>4
  <2>2. \A i \in DOMAIN todo' : i + 1 \in DOMAIN todo /\ todo'[i] = todo[i + 1]
    BY <1>4
  <2>3. 1 \in DOMAIN todo
    BY <1>4
  <2> QED BY <1>4, <2>1, <2>2, <2>3 DEF IdsOf
<1>8. IdsOf(got') = IdsOf(got) \cup {item.id}
  <2>1. \A i \in DOMAIN got' : (i \in DOMAIN got /\ got'[i] = got[i]) \/ got'[i] = mapped
    BY <1>6
  <2>2. \A i \in DOMAIN got : i \in DOMAIN got' /\ got'[i] = got[i]
    BY <1>6
  <2>3. Len(got) + 1 \in DOMAIN got'
    BY <1>6
  <2> QED BY <1>5, <1>6, <2>1, <2>2, <2>3 DEF IdsOf
<1>9. InHand' = InHand
  BY <1>7, <1>8 DEF InHand
<1>10. Len(got') + Len(todo') = Len(got) + Len(todo)
  BY <1>4, <1>6
<1>11. quirk = "none" => /\ Cardinality(kept \ InHand) <= shrunk
                         /\ Len(got) + Len(todo) - Cardinality(InHand) <= grown
  BY <1>1 DEF Fetched
<1>12. quirk' = "none" => /\ Cardinality(kept' \ InHand') <= shrunk'
                          /\ Len(got') + Len(todo') - Cardinality(InHand') <= grown'
  <2> HIDE DEF InHand
  <2>1. kept' \ InHand' = kept \ InHand
    BY <1>1, <1>9
  <2>2. grown' = grown /\ shrunk' = shrunk /\ quirk' = quirk
    BY <1>1
  <2>3. Cardinality(kept' \ InHand') = Cardinality(kept \ InHand)
    BY <2>1
  <2>4. Len(got') + Len(todo') - Cardinality(InHand') = Len(got) + Len(todo) - Cardinality(InHand)
    <3>1. Cardinality(InHand') = Cardinality(InHand)
      BY <1>9
    <3>2. IsFiniteSet(InHand)
      BY <1>3, IdsFinite, FS_Union DEF InHand
    <3>3. Cardinality(InHand) \in Nat
      BY <3>2, FS_CardinalityType
    <3>4. Len(got') \in Nat /\ Len(todo') \in Nat /\ Len(got) \in Nat /\ Len(todo) \in Nat
      BY <1>4, <1>6
    <3> QED BY ONLY <1>10, <3>1, <3>3, <3>4
  <2> QED BY ONLY <1>11, <2>2, <2>3, <2>4
<1>13. step' = "details"
  BY <1>1
<1> QED BY <1>12, <1>13 DEF Walk, Fetched

LEMMA WalkStep ==
    ASSUME TypeOK, TypeOK', Walk, Fetched, [Next]_vars
    PROVE  Walk' /\ Fetched'
<1>0. /\ board \in Seq(Job) /\ IsInjective(board) /\ offset \in Nat
      /\ kept \subseteq Range(board) /\ Range(board) \subseteq shown
      /\ grown \in Nat /\ shrunk \in Nat
  BY DEF TypeOK
<1>1. CASE UNCHANGED vars
  BY <1>1 DEF vars, boardVars, observers, Walk, Fetched, Missed, Again, InHand
<1>2. ASSUME NEW j \in Job, Open(j) PROVE Walk' /\ Fetched'
  <2>1. /\ Change /\ j \notin shown /\ UNCHANGED <<kept, shrunk>>
        /\ shown' = shown \cup {j} /\ grown' = grown + 1
    BY <1>2 DEF Open
  <2>2. PICK i \in 1..(Len(board) + 1) : board' = InsertAt(board, i, j)
    BY <1>2 DEF Open
  <2>3. j \in Job \ Range(board)
    BY <1>0, <2>1
  <2>4. /\ UpTo(board', offset) \subseteq UpTo(board, offset) \cup {j}
        /\ After(board', offset) \subseteq After(board, offset) \cup {j, board[offset]}
    BY <1>0, <2>2, <2>3, OpenMoves
  <2>5. kept' \cap UpTo(board', offset) \subseteq UpTo(board, offset)
    BY <1>0, <2>1, <2>4
  <2>6. shown \cap After(board', offset) \subseteq After(board, offset) \cup {board[offset]}
    BY <2>1, <2>4
  <2>7. kept' \subseteq kept /\ shown \subseteq shown' /\ grown' >= grown /\ shrunk' >= shrunk
    BY <1>0, <2>1
  <2> QED BY <2>1, <2>5, <2>6, <2>7, ChangeStep
<1>3. ASSUME NEW i \in DOMAIN board, Close(i) PROVE Walk' /\ Fetched'
  <2>1. /\ Change /\ board' = RemoveAt(board, i) /\ UNCHANGED <<shown, grown>>
        /\ kept' \subseteq kept /\ shrunk' = shrunk + 1
    BY <1>3 DEF Close
  <2>2. /\ UpTo(board', offset) \subseteq UpTo(board, offset) \cup {board[offset + 1]}
        /\ After(board', offset) \subseteq After(board, offset)
    BY <1>0, <2>1, CloseMoves
  <2>3. kept' \cap UpTo(board', offset) \subseteq UpTo(board, offset) \cup {board[offset + 1]}
    BY <2>2
  <2>4. shown \cap After(board', offset) \subseteq After(board, offset)
    BY <2>2
  <2>5. kept' \subseteq kept /\ shown \subseteq shown' /\ grown' >= grown /\ shrunk' >= shrunk
    BY <1>0, <2>1
  <2>6. shrunk' = shrunk + 1
    BY <2>1
  <2> QED BY <2>1, <2>3, <2>4, <2>5, <2>6, ChangeStep
<1>4. ASSUME NEW i \in DOMAIN board, MoveUp(i) PROVE Walk' /\ Fetched'
  <2>1. /\ Change /\ board' = <<board[i]>> \o RemoveAt(board, i) /\ UNCHANGED <<shown, kept>>
        /\ grown' = grown + 1 /\ shrunk' = shrunk + 1
    BY <1>4 DEF MoveUp
  <2>2. /\ UpTo(board', offset) \subseteq UpTo(board, offset) \cup {board[i]}
        /\ After(board', offset) \subseteq After(board, offset) \cup {board[offset]}
    BY <1>0, <2>1, MoveUpMoves
  <2>3. kept' \cap UpTo(board', offset) \subseteq UpTo(board, offset) \cup {board[i]}
    BY <2>2
  <2>4. shown \cap After(board', offset) \subseteq After(board, offset) \cup {board[offset]}
    BY <2>2
  <2>5. /\ kept' \subseteq kept /\ shown \subseteq shown' /\ grown' >= grown /\ shrunk' >= shrunk
        /\ grown' = grown + 1 /\ shrunk' = shrunk + 1 /\ Change
    BY <1>0, <2>1
  <2> QED BY ONLY TypeOK, TypeOK', Walk, Fetched, <2>3, <2>4, <2>5, ChangeStep
<1>5. ASSUME NEW e \in {"missing", "other"}, Refused(e) PROVE Walk' /\ Fetched'
  <2>1. /\ step = "list" /\ UNCHANGED <<ats, board, quirk, kept, shown, grown, shrunk>>
        /\ UNCHANGED <<offset, todo, got>>
        /\ UNCHANGED step \/ step' = "raised"
    <3>1. CASE FallsBack(e)
      BY <1>5, <3>1 DEF Refused, boardVars, observers
    <3>2. CASE ~FallsBack(e)
      BY <1>5, <3>2 DEF Refused, Raise, boardVars, observers
    <3> QED BY <3>1, <3>2
  <2> QED BY <2>1 DEF Walk, Fetched, Missed, Again
<1>6. CASE ListWhole \/ ListShard \/ ListOpenings
  <2> DEFINE s == [i \in DOMAIN board |-> Listed(board[i])]
  <2>1. /\ step = "list" /\ Access[ats] # "paged" /\ UNCHANGED observers /\ UNCHANGED quirk
        /\ \/ step' = "returned" /\ got' = s /\ UNCHANGED todo
           \/ step' = "details" /\ todo' = s /\ UNCHANGED got
    BY <1>6 DEF ListWhole, ListShard, ListOpenings, boardVars
  <2>2. IdsOf(s) = Range(board) /\ Len(s) = Len(board) /\ Cardinality(IdsOf(s)) = Len(board)
    BY <1>0, ListedWhole
  <2> HIDE DEF s
  <2> QED BY <2>1, <2>2, AllListed
<1>7. CASE ListRows
  <2> DEFINE s == Collapse(Rows)
  <2>1. /\ step = "list" /\ Access[ats] # "paged" /\ UNCHANGED observers /\ UNCHANGED quirk
        /\ step' = "details" /\ todo' = s /\ UNCHANGED got
    BY <1>7 DEF ListRows, boardVars
  <2>2. IdsOf(s) = Range(board) /\ Len(s) = Len(board) /\ Cardinality(IdsOf(s)) = Len(board)
    BY <1>0, Collapsed
  <2> HIDE DEF s
  <2> QED BY <2>1, <2>2, AllListed
<1>8. CASE ListPage
  BY <1>8, PageStep
<1>9. CASE Detail
  BY <1>9, DetailStep
<1>10. CASE DetailRefused
  BY <1>10 DEF DetailRefused, Raise, Walk, Fetched
<1>11. CASE Return
  <2>1. /\ step = "details" /\ step' = "returned" /\ todo = <<>>
        /\ UNCHANGED <<quirk, todo, got, kept, grown, shrunk>>
    BY <1>11 DEF Return, boardVars, observers
  <2>2. InHand' = InHand
    BY <2>1 DEF InHand
  <2> QED BY <2>1, <2>2 DEF Walk, Fetched
<1>12. CASE FetchAgain
  <2>1. /\ step' = "list" /\ offset' = 0 /\ todo' = <<>> /\ got' = <<>>
        /\ grown' = 0 /\ shrunk' = 0 /\ IdsOf(<<>>) = {} /\ Len(<<>>) = 0
    BY <1>12 DEF FetchAgain, IdsOf
  <2>2. UpTo(board', 0) = {}
    <3>1. DOMAIN board' = 1..Len(board') /\ Len(board') \in Nat
      BY LenProperties DEF TypeOK
    <3> QED BY <3>1 DEF UpTo
  <2>3. Missed' = {} /\ Again' = {}
    BY <2>1, <2>2 DEF Missed, Again
  <2>4. /\ Cardinality(Missed') = 0 /\ Cardinality(Again') = 0
        /\ Cardinality(IdsOf(todo')) = 0 /\ IdsOf(todo') = {} /\ Len(todo') = 0
    BY <2>1, <2>3, FS_EmptySet
  <2> QED BY <2>1, <2>4 DEF Walk, Fetched
<1> QED BY <1>1, <1>2, <1>3, <1>4, <1>5, <1>6, <1>7, <1>8, <1>9, <1>10, <1>11, <1>12
        DEF Next, Fetch

(* The walk never loses or doubles more than the board has moved, page by  *)
(* page and detail by detail.                                              *)
THEOREM WalkHolds == Spec => [](Walk /\ Fetched)
<1>1. Init => Walk /\ Fetched
  <2> SUFFICES ASSUME Init PROVE Walk /\ Fetched
    OBVIOUS
  <2>1. /\ step = "list" /\ offset = 0 /\ todo = <<>> /\ got = <<>>
        /\ grown = 0 /\ shrunk = 0 /\ IdsOf(<<>>) = {} /\ Len(<<>>) = 0
        /\ board \in Seq(Job)
    BY BoardsAssumption DEF Init, IdsOf
  <2>2. UpTo(board, 0) = {}
    <3>1. DOMAIN board = 1..Len(board) /\ Len(board) \in Nat
      BY <2>1, LenProperties
    <3> QED BY <3>1 DEF UpTo
  <2>3. Missed = {} /\ Again = {}
    BY <2>1, <2>2 DEF Missed, Again
  <2>4. /\ Cardinality(Missed) = 0 /\ Cardinality(Again) = 0
        /\ Cardinality(IdsOf(todo)) = 0 /\ IdsOf(todo) = {} /\ Len(todo) = 0
    BY <2>1, <2>3, FS_EmptySet
  <2> QED BY <2>1, <2>4 DEF Walk, Fetched
<1>2. TypeOK /\ TypeOK' /\ Walk /\ Fetched /\ [Next]_vars => (Walk /\ Fetched)'
  BY WalkStep
<1> QED BY <1>1, <1>2, TypeCorrect, PTL DEF Spec

(* Adapters.ErrorIsBoundedByChange always holds, of whatever size the      *)
(* board and its pages are, and wherever in the list it changes while it   *)
(* is walked.                                                              *)
THEOREM ErrorIsBounded == Spec => []ErrorIsBoundedByChange
<1>1. Walk /\ Fetched /\ TypeOK => ErrorIsBoundedByChange
  <2> SUFFICES ASSUME Fetched, TypeOK, step = "returned", quirk = "none"
               PROVE  /\ Cardinality(kept \ Ids) <= shrunk
                      /\ Len(got) - Cardinality(Ids) <= grown
    BY DEF ErrorIsBoundedByChange, Honest
  <2>1. /\ todo = <<>> /\ Cardinality(kept \ InHand) <= shrunk
        /\ Len(got) + Len(todo) - Cardinality(InHand) <= grown
    BY DEF Fetched
  <2>2. InHand = Ids /\ Len(todo) = 0 /\ Len(got) \in Nat
    BY <2>1, LenProperties DEF InHand, Ids, IdsOf, TypeOK
  <2>3. Cardinality(Ids) \in Nat /\ grown \in Nat
    BY IdsFinite DEF Ids, TypeOK
  <2> QED BY <2>1, <2>2, <2>3
<1> QED BY <1>1, WalkHolds, TypeCorrect, PTL
-----------------------------------------------------------------------------
(* The requests a fetch can still make, and the changes it can still see:  *)
(* a shard to ask; pages while less is listed than the count may come to,  *)
(* each with a posting at least; the details of what may yet be listed.    *)
Calm == MaxChanges - changes
ShardsLeft == IF Access[ats] = "sharded" /\ shard = "us" THEN 1 ELSE 0
Most == Len(board) + Calm + 1
PagesLeft == IF Len(todo) < Most THEN Most - Len(todo) ELSE 0
Room == (IF Len(todo) < Most THEN Most ELSE Len(todo)) + Len(board) + Calm
Left ==
    IF step = "list" THEN ShardsLeft + PagesLeft + Room + 2 + Calm
    ELSE IF step = "details" THEN Len(todo) + 1 + Calm
    ELSE 0

LEMMA LeftIs ==
    ASSUME TypeOK
    PROVE  /\ Len(board) \in Nat /\ Len(todo) \in Nat /\ Calm \in Nat
           /\ ShardsLeft \in 0..1 /\ PagesLeft \in Nat /\ Room \in Nat
           /\ Room >= Len(board) /\ Room >= Len(todo)
           /\ Left \in Nat /\ (step \in Busy => Left > 0)
<1>1. Len(board) \in Nat /\ Len(todo) \in Nat /\ Calm \in Nat /\ ShardsLeft \in 0..1
  BY LenProperties, NumbersAssumption DEF TypeOK, Calm, ShardsLeft
<1> DEFINE b == Len(board)
           l == Len(todo)
<1>2. PagesLeft \in Nat /\ Room \in Nat /\ Room >= b /\ Room >= l
  <2>1. b \in Nat /\ l \in Nat
    BY <1>1
  <2>2. /\ PagesLeft = IF l < b + Calm + 1 THEN b + Calm + 1 - l ELSE 0
        /\ Room = (IF l < b + Calm + 1 THEN b + Calm + 1 ELSE l) + b + Calm
    BY <1>1, <2>1 DEF PagesLeft, Room, Most
  <2> HIDE DEF b, l, Calm
  <2> QED BY <1>1, <2>1, <2>2
<1> HIDE DEF Calm, ShardsLeft, PagesLeft, Room
<1>3. Left \in Nat
  BY <1>1, <1>2 DEF Left
<1>4. step \in Busy => Left > 0
  BY <1>1, <1>2 DEF Left, Busy
<1> QED BY <1>1, <1>2, <1>3, <1>4

(* The employer's step: the board grows by one at most, and one change     *)
(* less is to come.                                                        *)
LEMMA ChangeIsProgress ==
    ASSUME TypeOK, TypeOK', Change, Len(board') <= Len(board) + 1
    PROVE  Left' < Left
<1>1. /\ step \in {"list", "details"} /\ Calm' = Calm - 1
      /\ UNCHANGED <<ats, shard, todo, step>>
  BY NumbersAssumption DEF Change, Busy, Calm, TypeOK
<1> DEFINE b == Len(board)
           c == Len(board')
           l == Len(todo)
<1>2. b \in Nat /\ c \in Nat /\ l \in Nat /\ Calm \in Nat /\ Calm' \in Nat /\ ShardsLeft \in 0..1
      /\ c <= b + 1
  <2>1. b \in Nat /\ l \in Nat /\ Calm \in Nat /\ ShardsLeft \in 0..1
    BY LeftIs
  <2>2. c \in Nat
    <3>1. board' \in Seq(Job)
      BY DEF TypeOK
    <3> QED BY <3>1, LenProperties
  <2>3. Calm' \in Nat
    <3>1. changes' \in 0..MaxChanges /\ MaxChanges \in Nat
      BY NumbersAssumption DEF TypeOK
    <3>2. Calm' = MaxChanges - changes'
      BY DEF Calm
    <3>3. \A m \in Nat : \A n \in 0..m : m - n \in Nat
      OBVIOUS
    <3> QED BY Zenon, <3>1, <3>2, <3>3
  <2> QED BY <2>1, <2>2, <2>3
<1>3. /\ PagesLeft = IF l < b + Calm + 1 THEN b + Calm + 1 - l ELSE 0
      /\ Room = (IF l < b + Calm + 1 THEN b + Calm + 1 ELSE l) + b + Calm
      /\ PagesLeft' = IF l < c + Calm' + 1 THEN c + Calm' + 1 - l ELSE 0
      /\ Room' = (IF l < c + Calm' + 1 THEN c + Calm' + 1 ELSE l) + c + Calm'
  BY <1>1, <1>2 DEF PagesLeft, Room, Most
<1>4. ShardsLeft' = ShardsLeft
  BY <1>1 DEF ShardsLeft
<1>5. /\ step = "list" => /\ Left = ShardsLeft + PagesLeft + Room + 2 + Calm
                          /\ Left' = ShardsLeft' + PagesLeft' + Room' + 2 + Calm'
      /\ step = "details" => Left = l + 1 + Calm /\ Left' = l + 1 + Calm'
  BY <1>1 DEF Left
<1> HIDE DEF b, c, l, Calm, PagesLeft, Room, ShardsLeft, Left
<1> QED BY <1>1, <1>2, <1>3, <1>4, <1>5

(* A page that is not the last adds a posting, and the count it is held    *)
(* against may be one too many.                                            *)
LEMMA PageIsProgress ==
    ASSUME TypeOK, TypeOK', ListPage
    PROVE  Left' < Left
<1> DEFINE o == IF quirk = "stuck" THEN 0 ELSE offset
           page == PageAt(o)
           more == [i \in DOMAIN page |-> Listed(page[i])]
<1>1. /\ page \in Seq(Job) /\ IsInjective(page) /\ Len(page) \in Nat /\ Len(page) <= Len(board)
      /\ page # <<>> => Len(page) > 0
  <2>1. o \in Nat /\ board \in Seq(Job) /\ IsInjective(board)
    BY DEF TypeOK
  <2> HIDE DEF o
  <2>2. /\ page \in Seq(Job) /\ IsInjective(page) /\ Len(page) \in Nat
        /\ \A k \in 1..Len(page) : o + k \in DOMAIN board
    BY <2>1, PageShape
  <2> HIDE DEF page
  <2>3. DOMAIN board = 1..Len(board) /\ Len(board) \in Nat
    BY <2>1, LenProperties
  <2>4. Len(page) <= Len(board)
    <3>1. CASE Len(page) = 0
      BY <2>3, <3>1
    <3>2. CASE Len(page) # 0
      <4>1. o + Len(page) \in DOMAIN board
        BY <2>2, <3>2
      <4> QED BY <2>1, <2>2, <2>3, <4>1
    <3> QED BY <3>1, <3>2
  <2> QED BY <2>2, <2>4, EmptySeq
<1>2. /\ step = "list" /\ todo' = todo \o more
      /\ \/ GoesOn(page, Len(todo'), TotalFound) /\ step' = "list"
         \/ step' = "details"
      /\ UNCHANGED <<ats, board, quirk, changes, shard>>
  BY DEF ListPage, boardVars
<1> HIDE DEF o, page
<1> DEFINE b == Len(board)
           l == Len(todo)
           m == Len(todo')
           k == Len(page)
<1>3. m = l + k /\ l \in Nat /\ k \in Nat /\ b \in Nat /\ m \in Nat /\ k <= b
  <2>1. more \in Seq(Listing) /\ Len(more) = k
    BY <1>1, ListedWhole
  <2> HIDE DEF more
  <2>2. todo \in Seq(Listing)
    BY DEF TypeOK
  <2>3. m = l + Len(more)
    BY <1>2, <2>1, <2>2, ConcatProperties
  <2> QED BY <1>1, <2>1, <2>2, <2>3, LenProperties, LeftIs
<1>4. /\ Calm' = Calm /\ ShardsLeft' = ShardsLeft
      /\ Calm \in Nat /\ ShardsLeft \in 0..1 /\ PagesLeft \in Nat
  BY <1>2, LeftIs DEF Calm, ShardsLeft
<1>5. /\ PagesLeft = IF l < b + Calm + 1 THEN b + Calm + 1 - l ELSE 0
      /\ Room = (IF l < b + Calm + 1 THEN b + Calm + 1 ELSE l) + b + Calm
      /\ PagesLeft' = IF m < b + Calm + 1 THEN b + Calm + 1 - m ELSE 0
      /\ Room' = (IF m < b + Calm + 1 THEN b + Calm + 1 ELSE m) + b + Calm
  BY <1>2, <1>4 DEF PagesLeft, Room, Most
<1>6. /\ Left = ShardsLeft + PagesLeft + Room + 2 + Calm
      /\ step' = "list" => Left' = ShardsLeft' + PagesLeft' + Room' + 2 + Calm'
      /\ step' = "details" => Left' = m + 1 + Calm'
  BY <1>2 DEF Left
<1>7. ASSUME GoesOn(page, m, TotalFound) PROVE k > 0 /\ m < b + 1
  <2>1. page # <<>> /\ TotalFound # None /\ m < TotalFound
    BY <1>7 DEF GoesOn
  <2>2. TotalFound = b + Miscount[quirk]
    BY <2>1 DEF TotalFound
  <2>3. quirk \in {"none", "stuck", "fewer", "more"}
    BY <2>1, QuirksAssumption DEF TotalFound, TypeOK
  <2>4. Miscount[quirk] \in {0, -1, 1}
    BY <2>3 DEF Miscount
  <2> HIDE DEF b, m, k
  <2>5. m < b + 1
    BY <1>3, <2>1, <2>2, <2>4
  <2> QED BY <1>1, <2>1, <2>5 DEF k
<1> HIDE DEF b, l, m, k, Calm, PagesLeft, Room, ShardsLeft, Left
<1>8. CASE step' = "details"
  BY <1>3, <1>4, <1>5, <1>6, <1>8
<1>9. CASE GoesOn(page, m, TotalFound) /\ step' = "list"
  BY <1>3, <1>4, <1>5, <1>6, <1>7, <1>9
<1> QED BY <1>2, <1>8, <1>9 DEF m

(* A fetch does not go round in circles, whatever the API counts, whatever *)
(* page it repeats, and however the board changes meanwhile: each request, *)
(* answered or not, and each change leaves fewer to come.                  *)
Counts == Left \in Nat /\ (step \in Busy => Left' < Left)
EveryStepCounts == [][Counts]_vars

(* A fetch that is busy is nearer its end after each request and each      *)
(* change of the board.                                                    *)
THEOREM EveryStepIsProgress == Spec => EveryStepCounts
<1>1. TypeOK /\ TypeOK' /\ [Next]_vars => [Counts]_vars
  <2> SUFFICES ASSUME TypeOK, TypeOK', Next, step \in Busy PROVE Left' < Left
    BY LeftIs DEF Counts
  <2>0. /\ board \in Seq(Job) /\ IsInjective(board) /\ todo \in Seq(Listing)
        /\ Len(board) \in Nat /\ DOMAIN board = 1..Len(board)
    BY LenProperties DEF TypeOK
  <2>1. CASE step' \notin Busy
    <3>1. Left' = 0
      BY <2>1 DEF Left, Busy
    <3> QED BY <3>1, LeftIs
  <2>2. ASSUME NEW j \in Job, Open(j) PROVE Left' < Left
    <3>1. PICK i \in 1..(Len(board) + 1) : board' = InsertAt(board, i, j)
      BY <2>2 DEF Open
    <3>2. Len(board') = Len(board) + 1
      BY <2>0, <3>1, Inserted
    <3> QED BY <2>0, <2>2, <3>2, ChangeIsProgress DEF Open
  <2>3. ASSUME NEW i \in DOMAIN board, Close(i) PROVE Left' < Left
    <3>1. Len(board') = Len(board) - 1
      BY <2>0, <2>3, Removed DEF Close
    <3> QED BY <2>0, <2>3, <3>1, ChangeIsProgress DEF Close
  <2>4. ASSUME NEW i \in DOMAIN board, MoveUp(i) PROVE Left' < Left
    <3>1. Len(board') = Len(board)
      BY <2>0, <2>4, MovedUp DEF MoveUp
    <3> QED BY <2>0, <2>4, <3>1, ChangeIsProgress DEF MoveUp
  <2>5. ASSUME NEW e \in {"missing", "other"}, Refused(e), step' \in Busy PROVE Left' < Left
    <3>1. /\ step = "list" /\ Access[ats] = "sharded" /\ shard = "us" /\ shard' = "eu"
          /\ UNCHANGED <<ats, board, changes, step, todo>>
      BY <2>5 DEF Refused, FallsBack, Raise, Busy, boardVars
    <3>2. ShardsLeft = 1 /\ ShardsLeft' = 0 /\ UNCHANGED <<Calm, PagesLeft, Room>>
      BY <3>1 DEF ShardsLeft, Calm, PagesLeft, Room, Most
    <3>3. Left = 1 + PagesLeft + Room + 2 + Calm /\ Left' = 0 + PagesLeft + Room + 2 + Calm
      BY <3>1, <3>2 DEF Left
    <3> HIDE DEF PagesLeft, Room, Calm, Left
    <3> QED BY <3>3, LeftIs
  <2>6. CASE ListOpenings \/ ListRows
    <3>1. /\ step = "list" /\ step' = "details" /\ UNCHANGED changes
          /\ Len(todo') = Len(board)
      BY <2>0, <2>6, ListedWhole, Collapsed DEF ListOpenings, ListRows, boardVars
    <3>2. /\ Left = ShardsLeft + PagesLeft + Room + 2 + Calm
          /\ Left' = Len(board) + 1 + Calm
      BY <3>1 DEF Left, Calm
    <3>3. /\ Len(board) \in Nat /\ Calm \in Nat /\ ShardsLeft \in 0..1 /\ PagesLeft \in Nat
          /\ Room \in Nat /\ Room >= Len(board)
      BY LeftIs
    <3> HIDE DEF ShardsLeft, PagesLeft, Room, Calm, Left
    <3> QED BY <3>2, <3>3
  <2>7. CASE ListPage
    BY <2>7, PageIsProgress
  <2>8. CASE Detail
    <3>1. /\ step = "details" /\ step' = "details" /\ UNCHANGED changes
          /\ Len(todo') = Len(todo) - 1
      BY <2>0, <2>8, HeadTailProperties DEF Detail, boardVars
    <3>2. Left = Len(todo) + 1 + Calm /\ Left' = Len(todo) - 1 + 1 + Calm
      BY <3>1 DEF Left, Calm
    <3> HIDE DEF Calm, Left
    <3> QED BY <3>2, LeftIs
  <2>9. CASE ListWhole \/ ListShard \/ DetailRefused \/ Return \/ FetchAgain
    BY <2>1, <2>9 DEF ListWhole, ListShard, DetailRefused, Raise, Return, FetchAgain, Busy
  <2> QED BY <2>1, <2>2, <2>3, <2>4, <2>5, <2>6, <2>7, <2>8, <2>9 DEF Next, Fetch
<1> QED BY <1>1, TypeCorrect, PTL DEF Spec, EveryStepCounts
=============================================================================

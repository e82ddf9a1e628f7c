---------------------------- MODULE FormTextProofs ----------------------------
(***************************************************************************)
(* Proofs about FormText: what the box reads from a form is what a page    *)
(* wrote into it.  The texts are read from the left, character by          *)
(* character, and what a text says is found by induction over its length.  *)
(***************************************************************************)
EXTENDS FormText, CountingProofs, SequenceTheorems, TLAPS

-------------------------------------------------------------------------------
(* Digits, and what is read of a text that is one character longer.           *)

LEMMA AppendFacts ==
  ASSUME NEW S, NEW x \in Seq(S), NEW c \in S
  PROVE  /\ Append(x, c) \in Seq(S) /\ Len(x) \in Nat /\ Len(Append(x, c)) = Len(x) + 1
         /\ \A k \in 1..Len(x) : Append(x, c)[k] = x[k]
         /\ Append(x, c)[Len(x) + 1] = c
OBVIOUS

\* A text of digits, from its last one.
Digit == ToSet(Hex) \cup ToSet(Capital)

LEMMA HexDigits ==
  /\ \A d \in 0..15 : Hex[d + 1] \in Digit /\ C2D[Hex[d + 1]] = d
  /\ \A d \in 0..9 : Decimal[d + 1] = Hex[d + 1]
  /\ \A c \in Digit : C2D[c] \in 0..15
  /\ \A d \in 0..15 : Hex[d + 1] \notin {".", ":", "/", " ", "%", "+"}
<1>1. DOMAIN Hex = 1..16 /\ DOMAIN Capital = 1..16
  BY DEF Hex, Capital
<1>2. \A d \in 0..15 : Hex[d + 1] \in Digit
  BY <1>1 DEF ToSet, Digit
<1>3. \A d, e \in 0..15 : Hex[d + 1] \in {Hex[e + 1], Capital[e + 1]} => d = e
  BY DEF Hex, Capital
<1>4. ASSUME NEW c \in Digit PROVE \E e \in 0..15 : c \in {Hex[e + 1], Capital[e + 1]}
  <2>1. PICK k \in 1..16 : c \in {Hex[k], Capital[k]}
    BY <1>1 DEF Digit, ToSet
  <2>2. k - 1 \in 0..15 /\ (k - 1) + 1 = k
    OBVIOUS
  <2> QED
    BY <2>1, <2>2
<1>5. \A c \in Digit : C2D[c] = CHOOSE n \in 0..15 : c \in {Hex[n + 1], Capital[n + 1]}
  BY DEF C2D, Digit
<1> QED
  <2>1. \A d \in 0..15 : C2D[Hex[d + 1]] = d
    <3> TAKE d \in 0..15
    <3>1. C2D[Hex[d + 1]] = CHOOSE n \in 0..15 : Hex[d + 1] \in {Hex[n + 1], Capital[n + 1]}
      BY <1>2, <1>5
    <3>2. \A n \in 0..15 : Hex[d + 1] \in {Hex[n + 1], Capital[n + 1]} <=> n = d
      BY <1>3
    <3> QED
      BY <3>1, <3>2
  <2>2. \A d \in 0..9 : Decimal[d + 1] = Hex[d + 1]
    BY DEF Decimal, Hex
  <2>3. \A c \in Digit : C2D[c] \in 0..15
    <3> TAKE c \in Digit
    <3>1. C2D[c] = CHOOSE n \in 0..15 : c \in {Hex[n + 1], Capital[n + 1]}
      BY <1>5
    <3>2. \E n \in 0..15 : c \in {Hex[n + 1], Capital[n + 1]}
      BY <1>4
    <3> QED
      BY <3>1, <3>2
  <2>4. \A d \in 0..15 : Hex[d + 1] \notin {".", ":", "/", " ", "%", "+"}
    <3>1. \A d \in 0..15 : Hex[d + 1] # "." /\ Hex[d + 1] # ":" /\ Hex[d + 1] # "/"
      BY DEF Hex
    <3>2. \A d \in 0..15 : Hex[d + 1] # " "
      <4>1. \A d \in 0..15 : Hex[d + 1] \in {"0", "1", "2", "3", "4", "5", "6", "7", "8", "9",
                                            "a", "b", "c", "d", "e", "f"}
        BY DEF Hex
      <4>2. \A c \in {"0", "1", "2", "3", "4", "5", "6", "7", "8", "9",
                      "a", "b", "c", "d", "e", "f"} : c # " "
        OBVIOUS
      <4> QED
        BY <4>1, <4>2
    <3>3. \A d \in 0..15 : Hex[d + 1] # "%"
      BY DEF Hex
    <3>4. \A d \in 0..15 : Hex[d + 1] # "+"
      BY DEF Hex
    <3> QED
      BY <3>1, <3>2, <3>3, <3>4
  <2> QED
    BY <1>2, <2>1, <2>2, <2>3, <2>4

\* A number is read from the left,
ReadsNumber(base) ==
  /\ Number(<<>>, base) = 0
  /\ \A x \in Seq(Digit) : Number(x, base) \in Int
  /\ \A x \in Seq(Digit), c \in Digit : Number(Append(x, c), base) = Number(x, base) * base + C2D[c]
LEMMA NumberIsFromTheLeft == ASSUME NEW base \in Nat PROVE ReadsNumber(base)
<1> DEFINE first == 0
           next(v, k, c) == v * base + C2D[c]
           Read(x, g) == /\ g[0] = first /\ \A n \in 1..Len(x) : g[n] = next(g[n - 1], n, x[n])
                         /\ \A n \in 0..Len(x) : g[n] \in Int
                         /\ Number(x, base) = g[Len(x)]
<1>0. first \in Int /\ \A v \in Int, k \in Nat, c \in Digit : next(v, k, c) \in Int
  <2>1. ASSUME NEW v \in Int, NEW c \in Digit PROVE v * base + C2D[c] \in Int
    <3>1. v * base \in Int
      OBVIOUS
    <3>2. C2D[c] \in 0..15
      BY HexDigits
    <3> QED
      BY <3>1, <3>2
  <2>2. first \in Int
    OBVIOUS
  <2>3. ASSUME NEW v \in Int, NEW k \in Nat, NEW c \in Digit PROVE next(v, k, c) \in Int
    BY <2>1
  <2> HIDE DEF next, first
  <2> QED
    BY <2>2, <2>3
<1>1. ASSUME NEW x \in Seq(Digit) PROVE \E g : Read(x, g)
  <2> DEFINE L == Len(x)
             step == [n \in 1..L |-> [v \in Int |-> next(v, n, x[n])]]
             Is(g) == g = [n \in 0..L |-> IF n = 0 THEN first ELSE next(g[n - 1], n, x[n])]
             num == CHOOSE g : Is(g)
  <2>1. Number(x, base) = num[L]
    BY DEF Number
  <2>2. L \in Nat /\ \A n \in 1..L : n \in Nat /\ x[n] \in Digit
    OBVIOUS
  <2> HIDE DEF L, next, first
  <2>3. step \in [1..L -> [Int -> Int]]
    <3>1. ASSUME NEW n \in 1..L PROVE \A v \in Int : next(v, n, x[n]) \in Int
      BY <1>0, <2>2
    <3> QED
      BY <3>1
  <2>4. \A n \in 1..L, v \in Int : step[n][v] = next(v, n, x[n])
    OBVIOUS
  <2> HIDE DEF step
  <2>5. PICK h : IsRecursive(h, L, Int, first, step)
    BY <1>0, <2>2, <2>3, Recursion
  <2>6. /\ h \in [0..L -> Int] /\ h[0] = first
        /\ \A k \in 1..L : h[k] = step[k][h[k - 1]]
    BY <2>5 DEF IsRecursive
  <2>7. \A k \in 0..L : k # 0 => k \in 1..L /\ k - 1 \in 0..L
    BY <2>2
  <2>8. ASSUME NEW k \in 1..L PROVE h[k] = next(h[k - 1], k, x[k])
    <3>1. k - 1 \in 0..L
      BY <2>2
    <3>2. h[k - 1] \in Int
      BY <2>6, <3>1
    <3> QED
      BY <2>4, <2>6, <3>2
  <2>9. Is(h)
    BY <2>6, <2>7, <2>8
  <2>10. Is(num)
    BY <2>9
  <2> HIDE DEF num
  <2>11. /\ num[0] = first
         /\ \A n \in 1..L : num[n] = next(num[n - 1], n, x[n])
    BY <2>2, <2>10
  <2>12. \A n \in 0..L : num[n] \in Int
    <3>1. num[0] \in Int
      BY <1>0, <2>11
    <3>2. ASSUME NEW n \in 1..L, num[n - 1] \in Int PROVE num[n] \in Int
      <4>1. n \in Nat /\ x[n] \in Digit /\ num[n] = next(num[n - 1], n, x[n])
        BY <2>2, <2>11
      <4> QED
        BY <1>0, <3>2, <4>1
    <3> QED
      BY <2>2, <3>1, <3>2, RecursionIsTyped
  <2>13. Read(x, num)
    BY <2>1, <2>11, <2>12 DEF L
  <2> QED
    BY <2>13
<1> HIDE DEF next, first
<1>2. ASSUME NEW x \in Seq(Digit), NEW c \in Digit
      PROVE  Number(Append(x, c), base) = next(Number(x, base), Len(x) + 1, c)
  <2> DEFINE y == Append(x, c)
             L == Len(x)
  <2>1. /\ y \in Seq(Digit) /\ L \in Nat /\ Len(y) = L + 1
        /\ \A k \in 1..L : y[k] = x[k]
        /\ y[L + 1] = c
    BY AppendFacts
  <2> HIDE DEF y
  <2>2. PICK g : Read(x, g)
    BY <1>1
  <2>3. PICK h : Read(y, h)
    BY <1>1, <2>1
  <2>4. g[L] = h[L]
    <3>1. \A k \in 1..L : g[k] = next(g[k - 1], k, x[k]) /\ h[k] = next(h[k - 1], k, x[k])
      BY <2>1, <2>2, <2>3
    <3>2. g[0] = h[0] /\ \A k \in 1..L : g[k - 1] = h[k - 1] => g[k] = h[k]
      BY <2>2, <2>3, <3>1
    <3> HIDE DEF Read, L
    <3> QED
      BY <2>1, <3>2, RecursionIsOne
  <2>5. L + 1 \in 1..Len(y) /\ L \in 0..L /\ (L + 1) - 1 = L
    BY <2>1
  <2>6. Number(y, base) = next(h[L], L + 1, c)
    BY <2>1, <2>3, <2>5
  <2>7. Number(x, base) = g[L] /\ g[L] \in Int
    BY <2>2, <2>5
  <2> QED
    BY <2>4, <2>6, <2>7 DEF y
<1>3. Number(<<>>, base) = first
  <2>1. <<>> \in Seq(Digit) /\ Len(<<>>) = 0
    OBVIOUS
  <2>2. PICK g : Read(<<>>, g)
    BY <1>1, <2>1
  <2> QED
    BY <2>1, <2>2
<1>4. ASSUME NEW x \in Seq(Digit) PROVE Number(x, base) \in Int
  <2>1. PICK g : Read(x, g)
    BY <1>1
  <2>2. Len(x) \in 0..Len(x)
    OBVIOUS
  <2> QED
    BY <2>1, <2>2
<1> QED
  BY <1>2, <1>3, <1>4 DEF next, first, ReadsNumber

\* so are the pieces of a text,
PieceLists(C) == Seq(Seq(C)) \ {<<>>}
LEMMA AppendToPieces ==
  ASSUME NEW C, NEW v \in PieceLists(C), NEW c \in C
  PROVE  /\ v \in Seq(Seq(C)) /\ Len(v) \in Nat /\ Len(v) # 0
         /\ Last(v) \in Seq(C) /\ Front(v) \in Seq(Seq(C))
         /\ Append(v, <<>>) \in PieceLists(C)
         /\ Append(Front(v), Append(Last(v), c)) \in PieceLists(C)
<1>1. v \in Seq(Seq(C)) /\ Len(v) \in Nat /\ Len(v) # 0
  BY DEF PieceLists
<1>2. Last(v) \in Seq(C) /\ Front(v) \in Seq(Seq(C))
  BY <1>1 DEF Last, Front
<1>3. <<>> \in Seq(C) /\ Append(Last(v), c) \in Seq(C)
  BY <1>2
<1>4. ASSUME NEW u \in Seq(Seq(C)), NEW t \in Seq(C) PROVE Append(u, t) \in PieceLists(C)
  <2>1. Append(u, t) \in Seq(Seq(C)) /\ Append(u, t) # <<>>
    BY AppendProperties
  <2> QED
    BY <2>1 DEF PieceLists
<1> QED
  BY <1>1, <1>2, <1>3, <1>4
ReadsPieces(C, d) ==
  /\ Pieces(<<>>, d) = << <<>> >>
  /\ \A x \in Seq(C) : Pieces(x, d) \in PieceLists(C)
  /\ \A x \in Seq(C), c \in C :
       Pieces(Append(x, c), d) =
         IF c = d THEN Append(Pieces(x, d), <<>>)
         ELSE Append(Front(Pieces(x, d)), Append(Last(Pieces(x, d)), c))
LEMMA PiecesAreFromTheLeft == ASSUME NEW C, NEW d PROVE ReadsPieces(C, d)
<1> DEFINE first == << <<>> >>
           next(v, k, c) == IF c = d THEN Append(v, <<>>) ELSE Append(Front(v), Append(Last(v), c))
           Read(x, g) == /\ g[0] = first /\ \A n \in 1..Len(x) : g[n] = next(g[n - 1], n, x[n])
                         /\ \A n \in 0..Len(x) : g[n] \in PieceLists(C)
                         /\ Pieces(x, d) = g[Len(x)]
<1>0. first \in PieceLists(C) /\ \A v \in PieceLists(C), k \in Nat, c \in C : next(v, k, c) \in PieceLists(C)
  <2>1. << <<>> >> \in PieceLists(C)
    BY DEF PieceLists
  <2>2. ASSUME NEW v \in PieceLists(C), NEW c \in C
        PROVE  /\ Append(v, <<>>) \in PieceLists(C)
               /\ Append(Front(v), Append(Last(v), c)) \in PieceLists(C)
    BY AppendToPieces
  <2> QED
    BY <2>1, <2>2
<1>1. ASSUME NEW x \in Seq(C) PROVE \E g : Read(x, g)
  <2> DEFINE L == Len(x)
             step == [n \in 1..L |-> [v \in PieceLists(C) |-> next(v, n, x[n])]]
             Is(g) == g = [n \in 0..L |-> IF n = 0 THEN first ELSE next(g[n - 1], n, x[n])]
             num == CHOOSE g : Is(g)
  <2>1. Pieces(x, d) = num[L]
    BY DEF Pieces
  <2>2. L \in Nat /\ \A n \in 1..L : n \in Nat /\ x[n] \in C
    OBVIOUS
  <2> HIDE DEF L, next, first
  <2>3. step \in [1..L -> [PieceLists(C) -> PieceLists(C)]]
    <3>1. ASSUME NEW n \in 1..L PROVE \A v \in PieceLists(C) : next(v, n, x[n]) \in PieceLists(C)
      BY <1>0, <2>2
    <3> QED
      BY <3>1
  <2>4. \A n \in 1..L, v \in PieceLists(C) : step[n][v] = next(v, n, x[n])
    OBVIOUS
  <2> HIDE DEF step
  <2>5. PICK h : IsRecursive(h, L, PieceLists(C), first, step)
    BY <1>0, <2>2, <2>3, Recursion
  <2>6. /\ h \in [0..L -> PieceLists(C)] /\ h[0] = first
        /\ \A k \in 1..L : h[k] = step[k][h[k - 1]]
    BY <2>5 DEF IsRecursive
  <2>7. \A k \in 0..L : k # 0 => k \in 1..L /\ k - 1 \in 0..L
    BY <2>2
  <2>8. ASSUME NEW k \in 1..L PROVE h[k] = next(h[k - 1], k, x[k])
    <3>1. k - 1 \in 0..L
      BY <2>2
    <3>2. h[k - 1] \in PieceLists(C)
      BY <2>6, <3>1
    <3> QED
      BY <2>4, <2>6, <3>2
  <2>9. Is(h)
    BY <2>6, <2>7, <2>8
  <2>10. Is(num)
    BY <2>9
  <2> HIDE DEF num
  <2>11. /\ num[0] = first
         /\ \A n \in 1..L : num[n] = next(num[n - 1], n, x[n])
    BY <2>2, <2>10
  <2>12. \A n \in 0..L : num[n] \in PieceLists(C)
    <3>1. num[0] \in PieceLists(C)
      BY <1>0, <2>11
    <3>2. ASSUME NEW n \in 1..L, num[n - 1] \in PieceLists(C) PROVE num[n] \in PieceLists(C)
      <4>1. n \in Nat /\ x[n] \in C /\ num[n] = next(num[n - 1], n, x[n])
        BY <2>2, <2>11
      <4> QED
        BY <1>0, <3>2, <4>1
    <3> QED
      BY <2>2, <3>1, <3>2, RecursionIsTyped
  <2>13. Read(x, num)
    BY <2>1, <2>11, <2>12 DEF L
  <2> QED
    BY <2>13
<1> HIDE DEF next, first
<1>2. ASSUME NEW x \in Seq(C), NEW c \in C
      PROVE  Pieces(Append(x, c), d) = next(Pieces(x, d), Len(x) + 1, c)
  <2> DEFINE y == Append(x, c)
             L == Len(x)
  <2>1. /\ y \in Seq(C) /\ L \in Nat /\ Len(y) = L + 1
        /\ \A k \in 1..L : y[k] = x[k]
        /\ y[L + 1] = c
    BY AppendFacts
  <2> HIDE DEF y
  <2>2. PICK g : Read(x, g)
    BY <1>1
  <2>3. PICK h : Read(y, h)
    BY <1>1, <2>1
  <2>4. g[L] = h[L]
    <3>1. \A k \in 1..L : g[k] = next(g[k - 1], k, x[k]) /\ h[k] = next(h[k - 1], k, x[k])
      BY <2>1, <2>2, <2>3
    <3>2. g[0] = h[0] /\ \A k \in 1..L : g[k - 1] = h[k - 1] => g[k] = h[k]
      BY <2>2, <2>3, <3>1
    <3> HIDE DEF Read, L
    <3> QED
      BY <2>1, <3>2, RecursionIsOne
  <2>5. L + 1 \in 1..Len(y) /\ L \in 0..L /\ (L + 1) - 1 = L
    BY <2>1
  <2>6. Pieces(y, d) = next(h[L], L + 1, c)
    BY <2>1, <2>3, <2>5
  <2>7. Pieces(x, d) = g[L] /\ g[L] \in PieceLists(C)
    BY <2>2, <2>5
  <2> QED
    BY <2>4, <2>6, <2>7 DEF y
<1>3. Pieces(<<>>, d) = first
  <2>1. <<>> \in Seq(C) /\ Len(<<>>) = 0
    OBVIOUS
  <2>2. PICK g : Read(<<>>, g)
    BY <1>1, <2>1
  <2> QED
    BY <2>1, <2>2
<1>4. ASSUME NEW x \in Seq(C) PROVE Pieces(x, d) \in PieceLists(C)
  <2>1. PICK g : Read(x, g)
    BY <1>1
  <2>2. Len(x) \in 0..Len(x)
    OBVIOUS
  <2> QED
    BY <2>1, <2>2
<1> QED
  BY <1>2, <1>3, <1>4 DEF next, first, ReadsPieces

\* and texts are joined from the left
ReadsJoined(C, d) ==
  /\ Joined(<<>>, d) = <<>>
  /\ \A x \in Seq(Seq(C)) : Joined(x, d) \in Seq(C)
  /\ \A x \in Seq(Seq(C)), c \in Seq(C) :
       Joined(Append(x, c), d) = Joined(x, d) \o (IF Len(x) + 1 = 1 THEN <<>> ELSE <<d>>) \o c
LEMMA JoinedIsFromTheLeft == ASSUME NEW C, NEW d \in C PROVE ReadsJoined(C, d)
<1> DEFINE first == <<>>
           next(v, k, c) == v \o (IF k = 1 THEN <<>> ELSE <<d>>) \o c
           Read(x, g) == /\ g[0] = first /\ \A n \in 1..Len(x) : g[n] = next(g[n - 1], n, x[n])
                         /\ \A n \in 0..Len(x) : g[n] \in Seq(C)
                         /\ Joined(x, d) = g[Len(x)]
<1>0. first \in Seq(C) /\ \A v \in Seq(C), k \in Nat, c \in Seq(C) : next(v, k, c) \in Seq(C)
  <2>1. <<>> \in Seq(C) /\ <<d>> \in Seq(C)
    OBVIOUS
  <2>2. \A u \in Seq(C), w \in Seq(C) : u \o w \in Seq(C)
    OBVIOUS
  <2>3. ASSUME NEW v \in Seq(C), NEW k \in Nat, NEW c \in Seq(C) PROVE next(v, k, c) \in Seq(C)
    <3> DEFINE m == IF k = 1 THEN <<>> ELSE <<d>>
    <3>1. m \in Seq(C)
      BY <2>1
    <3> HIDE DEF m
    <3>2. v \o m \in Seq(C)
      BY <2>2, <3>1
    <3>3. (v \o m) \o c \in Seq(C)
      BY <2>2, <3>2
    <3> QED
      BY <3>3 DEF m
  <2> HIDE DEF next
  <2> QED
    BY <2>1, <2>3
<1>1. ASSUME NEW x \in Seq(Seq(C)) PROVE \E g : Read(x, g)
  <2> DEFINE L == Len(x)
             step == [n \in 1..L |-> [v \in Seq(C) |-> next(v, n, x[n])]]
             Is(g) == g = [n \in 0..L |-> IF n = 0 THEN first ELSE next(g[n - 1], n, x[n])]
             num == CHOOSE g : Is(g)
  <2>1. Joined(x, d) = num[L]
    BY DEF Joined
  <2>2. L \in Nat /\ \A n \in 1..L : n \in Nat /\ x[n] \in Seq(C)
    OBVIOUS
  <2> HIDE DEF L, next, first
  <2>3. step \in [1..L -> [Seq(C) -> Seq(C)]]
    <3>1. ASSUME NEW n \in 1..L PROVE \A v \in Seq(C) : next(v, n, x[n]) \in Seq(C)
      BY <1>0, <2>2
    <3> QED
      BY <3>1
  <2>4. \A n \in 1..L, v \in Seq(C) : step[n][v] = next(v, n, x[n])
    OBVIOUS
  <2> HIDE DEF step
  <2>5. PICK h : IsRecursive(h, L, Seq(C), first, step)
    BY <1>0, <2>2, <2>3, Recursion
  <2>6. /\ h \in [0..L -> Seq(C)] /\ h[0] = first
        /\ \A k \in 1..L : h[k] = step[k][h[k - 1]]
    BY <2>5 DEF IsRecursive
  <2>7. \A k \in 0..L : k # 0 => k \in 1..L /\ k - 1 \in 0..L
    BY <2>2
  <2>8. ASSUME NEW k \in 1..L PROVE h[k] = next(h[k - 1], k, x[k])
    <3>1. k - 1 \in 0..L
      BY <2>2
    <3>2. h[k - 1] \in Seq(C)
      BY <2>6, <3>1
    <3> QED
      BY <2>4, <2>6, <3>2
  <2>9. Is(h)
    BY <2>6, <2>7, <2>8
  <2>10. Is(num)
    BY <2>9
  <2> HIDE DEF num
  <2>11. /\ num[0] = first
         /\ \A n \in 1..L : num[n] = next(num[n - 1], n, x[n])
    BY <2>2, <2>10
  <2>12. \A n \in 0..L : num[n] \in Seq(C)
    <3>1. num[0] \in Seq(C)
      BY <1>0, <2>11
    <3>2. ASSUME NEW n \in 1..L, num[n - 1] \in Seq(C) PROVE num[n] \in Seq(C)
      <4>1. n \in Nat /\ x[n] \in Seq(C) /\ num[n] = next(num[n - 1], n, x[n])
        BY <2>2, <2>11
      <4> QED
        BY <1>0, <3>2, <4>1
    <3> QED
      BY <2>2, <3>1, <3>2, RecursionIsTyped
  <2>13. Read(x, num)
    BY <2>1, <2>11, <2>12 DEF L
  <2> QED
    BY <2>13
<1> HIDE DEF next, first
<1>2. ASSUME NEW x \in Seq(Seq(C)), NEW c \in Seq(C)
      PROVE  Joined(Append(x, c), d) = next(Joined(x, d), Len(x) + 1, c)
  <2> DEFINE y == Append(x, c)
             L == Len(x)
  <2>1. /\ y \in Seq(Seq(C)) /\ L \in Nat /\ Len(y) = L + 1
        /\ \A k \in 1..L : y[k] = x[k]
        /\ y[L + 1] = c
    BY AppendFacts
  <2> HIDE DEF y
  <2>2. PICK g : Read(x, g)
    BY <1>1
  <2>3. PICK h : Read(y, h)
    BY <1>1, <2>1
  <2>4. g[L] = h[L]
    <3>1. \A k \in 1..L : g[k] = next(g[k - 1], k, x[k]) /\ h[k] = next(h[k - 1], k, x[k])
      BY <2>1, <2>2, <2>3
    <3>2. g[0] = h[0] /\ \A k \in 1..L : g[k - 1] = h[k - 1] => g[k] = h[k]
      BY <2>2, <2>3, <3>1
    <3> HIDE DEF Read, L
    <3> QED
      BY <2>1, <3>2, RecursionIsOne
  <2>5. L + 1 \in 1..Len(y) /\ L \in 0..L /\ (L + 1) - 1 = L
    BY <2>1
  <2>6. Joined(y, d) = next(h[L], L + 1, c)
    BY <2>1, <2>3, <2>5
  <2>7. Joined(x, d) = g[L] /\ g[L] \in Seq(C)
    BY <2>2, <2>5
  <2> QED
    BY <2>4, <2>6, <2>7 DEF y
<1>3. Joined(<<>>, d) = first
  <2>1. <<>> \in Seq(Seq(C)) /\ Len(<<>>) = 0
    OBVIOUS
  <2>2. PICK g : Read(<<>>, g)
    BY <1>1, <2>1
  <2> QED
    BY <2>1, <2>2
<1>4. ASSUME NEW x \in Seq(Seq(C)) PROVE Joined(x, d) \in Seq(C)
  <2>1. PICK g : Read(x, g)
    BY <1>1
  <2>2. Len(x) \in 0..Len(x)
    OBVIOUS
  <2> QED
    BY <2>1, <2>2
<1> QED
  BY <1>2, <1>3, <1>4 DEF next, first, ReadsJoined

\* and encoded
Escapes == {"%", "+", "2", "3", "A", "F", ":", "/", " ", "other"}
LEMMA CharTextIsText ==
  ASSUME NEW C, Escapes \subseteq C, NEW c \in C
  PROVE  CharText(c) \in Seq(C)
<1>1. "%" \in C /\ "+" \in C /\ "2" \in C /\ "3" \in C /\ "A" \in C /\ "F" \in C
  BY DEF Escapes
<1>2. CharText(c) \in {<<"%", "3", "A">>, <<"%", "2", "F">>, <<"+">>, <<c>>}
  BY DEF CharText
<1>3. \A a, b, e \in C : <<a, b, e>> \in Seq(C) /\ <<a>> \in Seq(C)
  OBVIOUS
<1> QED
  BY <1>1, <1>2, <1>3
ReadsEncoded(C) ==
  /\ UrlEncoded(<<>>) = <<>>
  /\ \A x \in Seq(C) : UrlEncoded(x) \in Seq(C)
  /\ \A x \in Seq(C), c \in C : UrlEncoded(Append(x, c)) = UrlEncoded(x) \o CharText(c)
LEMMA EncodingIsFromTheLeft == ASSUME NEW C, Escapes \subseteq C PROVE ReadsEncoded(C)
<1> DEFINE first == <<>>
           next(v, k, c) == v \o CharText(c)
           Read(x, g) == /\ g[0] = first /\ \A n \in 1..Len(x) : g[n] = next(g[n - 1], n, x[n])
                         /\ \A n \in 0..Len(x) : g[n] \in Seq(C)
                         /\ UrlEncoded(x) = g[Len(x)]
<1>0. first \in Seq(C) /\ \A v \in Seq(C), k \in Nat, c \in C : next(v, k, c) \in Seq(C)
  <2>1. <<>> \in Seq(C) /\ \A u \in Seq(C), w \in Seq(C) : u \o w \in Seq(C)
    OBVIOUS
  <2>2. \A c \in C : CharText(c) \in Seq(C)
    BY CharTextIsText
  <2> QED
    BY <2>1, <2>2
<1>1. ASSUME NEW x \in Seq(C) PROVE \E g : Read(x, g)
  <2> DEFINE L == Len(x)
             step == [n \in 1..L |-> [v \in Seq(C) |-> next(v, n, x[n])]]
             Is(g) == g = [n \in 0..L |-> IF n = 0 THEN first ELSE next(g[n - 1], n, x[n])]
             num == CHOOSE g : Is(g)
  <2>1. UrlEncoded(x) = num[L]
    BY DEF UrlEncoded
  <2>2. L \in Nat /\ \A n \in 1..L : n \in Nat /\ x[n] \in C
    OBVIOUS
  <2> HIDE DEF L, next, first
  <2>3. step \in [1..L -> [Seq(C) -> Seq(C)]]
    <3>1. ASSUME NEW n \in 1..L PROVE \A v \in Seq(C) : next(v, n, x[n]) \in Seq(C)
      BY <1>0, <2>2
    <3> QED
      BY <3>1
  <2>4. \A n \in 1..L, v \in Seq(C) : step[n][v] = next(v, n, x[n])
    OBVIOUS
  <2> HIDE DEF step
  <2>5. PICK h : IsRecursive(h, L, Seq(C), first, step)
    BY <1>0, <2>2, <2>3, Recursion
  <2>6. /\ h \in [0..L -> Seq(C)] /\ h[0] = first
        /\ \A k \in 1..L : h[k] = step[k][h[k - 1]]
    BY <2>5 DEF IsRecursive
  <2>7. \A k \in 0..L : k # 0 => k \in 1..L /\ k - 1 \in 0..L
    BY <2>2
  <2>8. ASSUME NEW k \in 1..L PROVE h[k] = next(h[k - 1], k, x[k])
    <3>1. k - 1 \in 0..L
      BY <2>2
    <3>2. h[k - 1] \in Seq(C)
      BY <2>6, <3>1
    <3> QED
      BY <2>4, <2>6, <3>2
  <2>9. Is(h)
    BY <2>6, <2>7, <2>8
  <2>10. Is(num)
    BY <2>9
  <2> HIDE DEF num
  <2>11. /\ num[0] = first
         /\ \A n \in 1..L : num[n] = next(num[n - 1], n, x[n])
    BY <2>2, <2>10
  <2>12. \A n \in 0..L : num[n] \in Seq(C)
    <3>1. num[0] \in Seq(C)
      BY <1>0, <2>11
    <3>2. ASSUME NEW n \in 1..L, num[n - 1] \in Seq(C) PROVE num[n] \in Seq(C)
      <4>1. n \in Nat /\ x[n] \in C /\ num[n] = next(num[n - 1], n, x[n])
        BY <2>2, <2>11
      <4> QED
        BY <1>0, <3>2, <4>1
    <3> QED
      BY <2>2, <3>1, <3>2, RecursionIsTyped
  <2>13. Read(x, num)
    BY <2>1, <2>11, <2>12 DEF L
  <2> QED
    BY <2>13
<1> HIDE DEF next, first
<1>2. ASSUME NEW x \in Seq(C), NEW c \in C
      PROVE  UrlEncoded(Append(x, c)) = next(UrlEncoded(x), Len(x) + 1, c)
  <2> DEFINE y == Append(x, c)
             L == Len(x)
  <2>1. /\ y \in Seq(C) /\ L \in Nat /\ Len(y) = L + 1
        /\ \A k \in 1..L : y[k] = x[k]
        /\ y[L + 1] = c
    BY AppendFacts
  <2> HIDE DEF y
  <2>2. PICK g : Read(x, g)
    BY <1>1
  <2>3. PICK h : Read(y, h)
    BY <1>1, <2>1
  <2>4. g[L] = h[L]
    <3>1. \A k \in 1..L : g[k] = next(g[k - 1], k, x[k]) /\ h[k] = next(h[k - 1], k, x[k])
      BY <2>1, <2>2, <2>3
    <3>2. g[0] = h[0] /\ \A k \in 1..L : g[k - 1] = h[k - 1] => g[k] = h[k]
      BY <2>2, <2>3, <3>1
    <3> HIDE DEF Read, L
    <3> QED
      BY <2>1, <3>2, RecursionIsOne
  <2>5. L + 1 \in 1..Len(y) /\ L \in 0..L /\ (L + 1) - 1 = L
    BY <2>1
  <2>6. UrlEncoded(y) = next(h[L], L + 1, c)
    BY <2>1, <2>3, <2>5
  <2>7. UrlEncoded(x) = g[L] /\ g[L] \in Seq(C)
    BY <2>2, <2>5
  <2> QED
    BY <2>4, <2>6, <2>7 DEF y
<1>3. UrlEncoded(<<>>) = first
  <2>1. <<>> \in Seq(C) /\ Len(<<>>) = 0
    OBVIOUS
  <2>2. PICK g : Read(<<>>, g)
    BY <1>1, <2>1
  <2> QED
    BY <2>1, <2>2
<1>4. ASSUME NEW x \in Seq(C) PROVE UrlEncoded(x) \in Seq(C)
  <2>1. PICK g : Read(x, g)
    BY <1>1
  <2>2. Len(x) \in 0..Len(x)
    OBVIOUS
  <2> QED
    BY <2>1, <2>2
<1> QED
  BY <1>2, <1>3, <1>4 DEF next, first, ReadsEncoded

\* and decoded.
Decodings(C) == [text : Seq(C), code : {s \in Seq(C) : Len(s) \in {0, 1, 2}}]
LEMMA LengthOne == \A s : Len(s) \in {1, 2} => s # <<>>
  OBVIOUS
LEMMA HexValue == \A c : h2int(c) \in 0..15
<1>1. DOMAIN C2D = Digit
  BY DEF C2D, Digit
<1> QED
  <2>1. \A c : c \in Digit => h2int(c) = C2D[c]
    BY <1>1 DEF h2int
  <2>2. \A c : c \notin Digit => h2int(c) = 0
    BY <1>1 DEF h2int
  <2> TAKE c
  <2>3. 0 \in 0..15
    OBVIOUS
  <2>4. CASE c \in Digit
    BY <2>1, <2>4, HexDigits
  <2>5. CASE c \notin Digit
    BY <2>2, <2>3, <2>5
  <2> QED
    BY <2>4, <2>5
LEMMA DecodingFields ==
  ASSUME NEW C, NEW v \in Decodings(C), NEW c \in C
  PROVE  /\ v.text \in Seq(C) /\ v.code \in Seq(C) /\ Len(v.code) \in {0, 1, 2}
         /\ \A d \in C : Append(v.text, d) \in Seq(C)
BY DEF Decodings
LEMMA NewDecoding ==
  ASSUME NEW C, NEW t \in Seq(C), NEW s \in Seq(C), Len(s) \in {0, 1, 2}
  PROVE  [text |-> t, code |-> s] \in Decodings(C)
BY DEF Decodings
LEMMA ShortCodes ==
  ASSUME NEW C, NEW c \in C
  PROVE  /\ <<>> \in Seq(C) /\ Len(<<>>) = 0
         /\ <<c>> \in Seq(C) /\ Len(<<c>>) = 1
OBVIOUS
LEMMA AppendToOne ==
  ASSUME NEW C, NEW s \in Seq(C), Len(s) = 1, NEW c \in C
  PROVE  Append(s, c) \in Seq(C) /\ Len(Append(s, c)) = 2
<1>1. Append(s, c) \in Seq(C) /\ Len(Append(s, c)) = Len(s) + 1
  BY AppendFacts
<1>2. \A n \in Nat : n = 1 => n + 1 = 2
  OBVIOUS
<1> QED
  BY <1>1, <1>2
LEMMA NoLength == ASSUME NEW C, NEW s \in Seq(C), Len(s) = 0 PROVE s = <<>>
OBVIOUS
LEMMA ReadCharIsTyped ==
  ASSUME NEW C, Escapes \subseteq C, NEW v \in Decodings(C), NEW c \in C
  PROVE  ReadChar(v, c) \in Decodings(C)
<1>1. " " \in C /\ ":" \in C /\ "/" \in C /\ "other" \in C
  BY DEF Escapes
<1>2. CASE v.code = <<>>
  <2>1. CASE c = "%"
    <3>1. ReadChar(v, c) = [text |-> v.text, code |-> <<c>>]
      BY <1>2, <2>1 DEF ReadChar
    <3> QED
      BY <3>1, DecodingFields, ShortCodes, NewDecoding
  <2>2. CASE c = "+"
    <3>1. ReadChar(v, c) = [text |-> Append(v.text, " "), code |-> <<>>]
      BY <1>2, <2>2 DEF ReadChar
    <3> QED
      BY <1>1, <3>1, DecodingFields, ShortCodes, NewDecoding
  <2>3. CASE c \notin {"%", "+"}
    <3>1. ReadChar(v, c) = [text |-> Append(v.text, c), code |-> <<>>]
      BY <1>2, <2>3 DEF ReadChar
    <3> QED
      BY <3>1, DecodingFields, ShortCodes, NewDecoding
  <2> QED
    BY <2>1, <2>2, <2>3
<1>3. CASE Len(v.code) = 1
  <2>1. v.code # <<>>
    BY <1>3, LengthOne
  <2>2. ReadChar(v, c) = [text |-> v.text, code |-> Append(v.code, c)]
    BY <1>3, <2>1 DEF ReadChar
  <2>3. v.code \in Seq(C) /\ v.text \in Seq(C)
    BY DecodingFields
  <2>4. Append(v.code, c) \in Seq(C) /\ Len(Append(v.code, c)) = 2
    BY <1>3, <2>3, AppendToOne
  <2> QED
    BY <2>2, <2>3, <2>4, NewDecoding
<1>4. CASE Len(v.code) = 2
  <2> DEFINE code == h2int(v.code[2]) * 16 + h2int(c)
  <2>1. v.code # <<>>
    BY <1>4, LengthOne
  <2>2. code \in 0..255
    BY HexValue
  <2>3. CharOfCode[code] \in {":", "/", "other"}
    BY <2>2 DEF CharOfCode
  <2>4. ReadChar(v, c) = [text |-> Append(v.text, CharOfCode[code]), code |-> <<>>]
    BY <1>4, <2>1 DEF ReadChar
  <2> HIDE DEF code
  <2>5. Append(v.text, CharOfCode[code]) \in Seq(C)
    BY <1>1, <2>3, DecodingFields
  <2> QED
    BY <2>4, <2>5, ShortCodes, NewDecoding
<1> QED
  BY <1>2, <1>3, <1>4, DecodingFields, NoLength
ReadsDecoded(C) ==
  /\ Decoded(<<>>) = [text |-> <<>>, code |-> <<>>]
  /\ \A x \in Seq(C) : Decoded(x) \in Decodings(C)
  /\ \A x \in Seq(C), c \in C : Decoded(Append(x, c)) = ReadChar(Decoded(x), c)
LEMMA DecodingIsFromTheLeft == ASSUME NEW C, Escapes \subseteq C PROVE ReadsDecoded(C)
<1> DEFINE first == [text |-> <<>>, code |-> <<>>]
           next(v, k, c) == ReadChar(v, c)
           Read(x, g) == /\ g[0] = first /\ \A n \in 1..Len(x) : g[n] = next(g[n - 1], n, x[n])
                         /\ \A n \in 0..Len(x) : g[n] \in Decodings(C)
                         /\ Decoded(x) = g[Len(x)]
<1>0. first \in Decodings(C) /\ \A v \in Decodings(C), k \in Nat, c \in C : next(v, k, c) \in Decodings(C)
  <2>1. [text |-> <<>>, code |-> <<>>] \in Decodings(C)
    BY DEF Decodings
  <2>2. \A v \in Decodings(C), c \in C : ReadChar(v, c) \in Decodings(C)
    BY ReadCharIsTyped
  <2> QED
    BY <2>1, <2>2
<1>1. ASSUME NEW x \in Seq(C) PROVE \E g : Read(x, g)
  <2> DEFINE L == Len(x)
             step == [n \in 1..L |-> [v \in Decodings(C) |-> next(v, n, x[n])]]
             Is(g) == g = [n \in 0..L |-> IF n = 0 THEN first ELSE next(g[n - 1], n, x[n])]
             num == CHOOSE g : Is(g)
  <2>1. Decoded(x) = num[L]
    BY DEF Decoded
  <2>2. L \in Nat /\ \A n \in 1..L : n \in Nat /\ x[n] \in C
    OBVIOUS
  <2> HIDE DEF L, next, first
  <2>3. step \in [1..L -> [Decodings(C) -> Decodings(C)]]
    <3>1. ASSUME NEW n \in 1..L PROVE \A v \in Decodings(C) : next(v, n, x[n]) \in Decodings(C)
      BY <1>0, <2>2
    <3> QED
      BY <3>1
  <2>4. \A n \in 1..L, v \in Decodings(C) : step[n][v] = next(v, n, x[n])
    OBVIOUS
  <2> HIDE DEF step
  <2>5. PICK h : IsRecursive(h, L, Decodings(C), first, step)
    BY <1>0, <2>2, <2>3, Recursion
  <2>6. /\ h \in [0..L -> Decodings(C)] /\ h[0] = first
        /\ \A k \in 1..L : h[k] = step[k][h[k - 1]]
    BY <2>5 DEF IsRecursive
  <2>7. \A k \in 0..L : k # 0 => k \in 1..L /\ k - 1 \in 0..L
    BY <2>2
  <2>8. ASSUME NEW k \in 1..L PROVE h[k] = next(h[k - 1], k, x[k])
    <3>1. k - 1 \in 0..L
      BY <2>2
    <3>2. h[k - 1] \in Decodings(C)
      BY <2>6, <3>1
    <3> QED
      BY <2>4, <2>6, <3>2
  <2>9. Is(h)
    BY <2>6, <2>7, <2>8
  <2>10. Is(num)
    BY <2>9
  <2> HIDE DEF num
  <2>11. /\ num[0] = first
         /\ \A n \in 1..L : num[n] = next(num[n - 1], n, x[n])
    BY <2>2, <2>10
  <2>12. \A n \in 0..L : num[n] \in Decodings(C)
    <3>1. num[0] \in Decodings(C)
      BY <1>0, <2>11
    <3>2. ASSUME NEW n \in 1..L, num[n - 1] \in Decodings(C) PROVE num[n] \in Decodings(C)
      <4>1. n \in Nat /\ x[n] \in C /\ num[n] = next(num[n - 1], n, x[n])
        BY <2>2, <2>11
      <4> QED
        BY <1>0, <3>2, <4>1
    <3> QED
      BY <2>2, <3>1, <3>2, RecursionIsTyped
  <2>13. Read(x, num)
    BY <2>1, <2>11, <2>12 DEF L
  <2> QED
    BY <2>13
<1> HIDE DEF next, first
<1>2. ASSUME NEW x \in Seq(C), NEW c \in C
      PROVE  Decoded(Append(x, c)) = next(Decoded(x), Len(x) + 1, c)
  <2> DEFINE y == Append(x, c)
             L == Len(x)
  <2>1. /\ y \in Seq(C) /\ L \in Nat /\ Len(y) = L + 1
        /\ \A k \in 1..L : y[k] = x[k]
        /\ y[L + 1] = c
    BY AppendFacts
  <2> HIDE DEF y
  <2>2. PICK g : Read(x, g)
    BY <1>1
  <2>3. PICK h : Read(y, h)
    BY <1>1, <2>1
  <2>4. g[L] = h[L]
    <3>1. \A k \in 1..L : g[k] = next(g[k - 1], k, x[k]) /\ h[k] = next(h[k - 1], k, x[k])
      BY <2>1, <2>2, <2>3
    <3>2. g[0] = h[0] /\ \A k \in 1..L : g[k - 1] = h[k - 1] => g[k] = h[k]
      BY <2>2, <2>3, <3>1
    <3> HIDE DEF Read, L
    <3> QED
      BY <2>1, <3>2, RecursionIsOne
  <2>5. L + 1 \in 1..Len(y) /\ L \in 0..L /\ (L + 1) - 1 = L
    BY <2>1
  <2>6. Decoded(y) = next(h[L], L + 1, c)
    BY <2>1, <2>3, <2>5
  <2>7. Decoded(x) = g[L] /\ g[L] \in Decodings(C)
    BY <2>2, <2>5
  <2> QED
    BY <2>4, <2>6, <2>7 DEF y
<1>3. Decoded(<<>>) = first
  <2>1. <<>> \in Seq(C) /\ Len(<<>>) = 0
    OBVIOUS
  <2>2. PICK g : Read(<<>>, g)
    BY <1>1, <2>1
  <2> QED
    BY <2>1, <2>2
<1>4. ASSUME NEW x \in Seq(C) PROVE Decoded(x) \in Decodings(C)
  <2>1. PICK g : Read(x, g)
    BY <1>1
  <2>2. Len(x) \in 0..Len(x)
    OBVIOUS
  <2> QED
    BY <2>1, <2>2
<1> QED
  BY <1>2, <1>3, <1>4 DEF next, first, ReadsDecoded

-------------------------------------------------------------------------------
(* Numbers. *)

LEMMA OneDigit == \A base \in Nat, a \in Digit : Number(<<a>>, base) = C2D[a]
<1> TAKE base \in Nat, a \in Digit
<1>1. <<>> \in Seq(Digit) /\ <<a>> = Append(<<>>, a)
  OBVIOUS
<1>2. Number(<<a>>, base) = 0 * base + C2D[a]
  BY <1>1, NumberIsFromTheLeft DEF ReadsNumber
<1>3. C2D[a] \in 0..15
  BY HexDigits
<1>4. \A v \in 0..15 : 0 * base + v = v
  OBVIOUS
<1> QED
  BY <1>2, <1>3, <1>4

LEMMA TwoDigits == \A base \in Nat, a, b \in Digit :
  Number(<<a, b>>, base) = C2D[a] * base + C2D[b]
<1> TAKE base \in Nat, a, b \in Digit
<1>1. <<a>> \in Seq(Digit) /\ <<a, b>> = Append(<<a>>, b)
  OBVIOUS
<1>2. Number(<<a>>, base) = C2D[a]
  BY OneDigit
<1> QED
  BY <1>1, <1>2, NumberIsFromTheLeft DEF ReadsNumber

LEMMA ThreeDigits == \A base \in Nat, a, b, c \in Digit :
  Number(<<a, b, c>>, base) = Number(<<a, b>>, base) * base + C2D[c]
<1> TAKE base \in Nat, a, b, c \in Digit
<1>1. <<a, b>> \in Seq(Digit) /\ <<a, b, c>> = Append(<<a, b>>, c)
  OBVIOUS
<1> QED
  BY <1>1, NumberIsFromTheLeft DEF ReadsNumber

LEMMA FourDigits == \A base \in Nat, a, b, c, d \in Digit :
  Number(<<a, b, c, d>>, base) = Number(<<a, b, c>>, base) * base + C2D[d]
<1> TAKE base \in Nat, a, b, c, d \in Digit
<1>1. <<a, b, c>> \in Seq(Digit) /\ <<a, b, c, d>> = Append(<<a, b, c>>, d)
  OBVIOUS
<1> QED
  BY <1>1, NumberIsFromTheLeft DEF ReadsNumber

LEMMA FiveDigits == \A base \in Nat, a, b, c, d, e \in Digit :
  Number(<<a, b, c, d, e>>, base) = Number(<<a, b, c, d>>, base) * base + C2D[e]
<1> TAKE base \in Nat, a, b, c, d, e \in Digit
<1>1. <<a, b, c, d>> \in Seq(Digit) /\ <<a, b, c, d, e>> = Append(<<a, b, c, d>>, e)
  OBVIOUS
<1> QED
  BY <1>1, NumberIsFromTheLeft DEF ReadsNumber

\* A text of digits that is not empty.
DigitTexts == Seq(Digit) \ {<<>>}

LEMMA HexIsRead == \A n \in 0..255 : HexText(n) \in DigitTexts /\ ATOI(HexText(n), 16) = n
<1> TAKE n \in 0..255
<1> DEFINE high == n \div 16
           low == n % 16
           a == Hex[high + 1]
           b == Hex[low + 1]
<1>1. high \in 0..15 /\ low \in 0..15 /\ high * 16 + low = n
  OBVIOUS
<1>2. HexText(n) = <<a, b>>
  BY DEF HexText
<1> HIDE DEF high, low
<1>3. a \in Digit /\ b \in Digit /\ C2D[a] = high /\ C2D[b] = low
  BY <1>1, HexDigits
<1> HIDE DEF a, b
<1>4. <<a, b>> \in DigitTexts
  BY <1>3 DEF DigitTexts
<1>5. Number(<<a, b>>, 16) = high * 16 + low
  <2> DEFINE base == 16
  <2>1. base \in Nat
    OBVIOUS
  <2> HIDE DEF base
  <2>2. Number(<<a, b>>, base) = C2D[a] * base + C2D[b]
    BY <1>3, <2>1, TwoDigits
  <2> QED
    BY <1>3, <2>2 DEF base
<1>6. ATOI(<<a, b>>, 16) = n
  BY <1>1, <1>5 DEF ATOI, UnsignedInts
<1> QED
  BY <1>2, <1>4, <1>6

\* The digits of a number of 16 bits, and how many of them are leading zeros.
LEMMA DigitsOfNumber ==
  ASSUME NEW n \in Nat, n < UnsignedInts
  PROVE  /\ \A k \in 1..5 : Digits(n)[k] \in 0..9
         /\ (((Digits(n)[1] * 10 + Digits(n)[2]) * 10 + Digits(n)[3]) * 10 + Digits(n)[4]) * 10 + Digits(n)[5] = n
         /\ n < 10000 => ((Digits(n)[2] * 10 + Digits(n)[3]) * 10 + Digits(n)[4]) * 10 + Digits(n)[5] = n
         /\ n < 1000 => (Digits(n)[3] * 10 + Digits(n)[4]) * 10 + Digits(n)[5] = n
         /\ n < 100 => Digits(n)[4] * 10 + Digits(n)[5] = n
         /\ n < 10 => Digits(n)[5] = n
<1>1. Tens[1] = 10000 /\ Tens[2] = 1000 /\ Tens[3] = 100 /\ Tens[4] = 10 /\ Tens[5] = 1
  BY DEF Tens
<1> DEFINE p1 == n \div 10000
           p2 == n \div 1000
           p3 == n \div 100
           p4 == n \div 10
<1>a. n < 65536
  BY DEF UnsignedInts
<1>2. /\ p1 \in 0..6 /\ p2 \in Nat /\ p3 \in Nat /\ p4 \in Nat /\ n \in Nat
      /\ n \div 1 = n
  BY <1>a
<1>3. /\ p2 \div 10 = p1 /\ p3 \div 10 = p2 /\ p4 \div 10 = p3
  OBVIOUS
<1>4. n = 10 * p4 + (n % 10) /\ n % 10 \in 0..9
  OBVIOUS
<1>5. (n < 10000 => p1 = 0) /\ (n < 1000 => p2 = 0) /\ (n < 100 => p3 = 0) /\ (n < 10 => p4 = 0)
  OBVIOUS
<1> HIDE DEF p1, p2, p3, p4
<1>6. p4 = 10 * p3 + (p4 % 10) /\ p4 % 10 \in 0..9
  BY <1>2, <1>3
<1>7. p3 = 10 * p2 + (p3 % 10) /\ p3 % 10 \in 0..9
  BY <1>2, <1>3
<1>8. p2 = 10 * p1 + (p2 % 10) /\ p2 % 10 \in 0..9
  BY <1>2, <1>3
<1>9. p1 % 10 = p1
  BY <1>2
<1> DEFINE q == Digits(n)
<1>10. /\ q[1] = p1 % 10 /\ q[2] = p2 % 10 /\ q[3] = p3 % 10 /\ q[4] = p4 % 10 /\ q[5] = n % 10
  BY <1>1, <1>2 DEF p1, p2, p3, p4, Digits
<1> HIDE DEF q
<1>11. q[1] = p1 /\ q[1] \in 0..6
  BY <1>2, <1>9, <1>10
<1>12. p2 = 10 * q[1] + q[2] /\ q[2] \in 0..9
  BY <1>8, <1>10, <1>11
<1>13. p3 = 10 * p2 + q[3] /\ q[3] \in 0..9
  BY <1>7, <1>10
<1>14. p4 = 10 * p3 + q[4] /\ q[4] \in 0..9
  BY <1>6, <1>10
<1>15. n = 10 * p4 + q[5] /\ q[5] \in 0..9
  BY <1>4, <1>10
<1>16. \A k \in 1..5 : q[k] \in 0..9
  BY <1>11, <1>12, <1>13, <1>14, <1>15
<1>17. (((q[1] * 10 + q[2]) * 10 + q[3]) * 10 + q[4]) * 10 + q[5] = n
  BY <1>11, <1>12, <1>13, <1>14, <1>15
<1>18. n < 10000 => ((q[2] * 10 + q[3]) * 10 + q[4]) * 10 + q[5] = n
  BY <1>5, <1>11, <1>12, <1>13, <1>14, <1>15
<1>19. n < 1000 => (q[3] * 10 + q[4]) * 10 + q[5] = n
  BY <1>5, <1>13, <1>14, <1>15
<1>20. n < 100 => q[4] * 10 + q[5] = n
  BY <1>5, <1>14, <1>15
<1>21. n < 10 => q[5] = n
  BY <1>5, <1>15
<1> QED
  BY <1>16, <1>17, <1>18, <1>19, <1>20, <1>21 DEF q

LEMMA LeadingZeros ==
  ASSUME NEW n \in Nat, n < UnsignedInts
  PROVE  \/ Zeros(n) = 0
         \/ Zeros(n) = 1 /\ n < 10000
         \/ Zeros(n) = 2 /\ n < 1000
         \/ Zeros(n) = 3 /\ n < 100
         \/ Zeros(n) = 4 /\ n < 10
<1> DEFINE zeros == Zeros(n)
           Bounds(z) == \A k \in 1..4 : n < Tens[k] <=> k <= z
<1>1. Tens[1] = 10000 /\ Tens[2] = 1000 /\ Tens[3] = 100 /\ Tens[4] = 10
  BY DEF Tens
<1>2. \A k \in 1..4 : k = 1 \/ k = 2 \/ k = 3 \/ k = 4
  OBVIOUS
<1>3. \E z \in 0..4 : Bounds(z)
  <2>1. CASE n < 10
    <3>1. Bounds(4)
      BY <1>1, <1>2, <2>1
    <3> QED
      BY <3>1
  <2>2. CASE n >= 10 /\ n < 100
    <3>1. Bounds(3)
      BY <1>1, <1>2, <2>2
    <3> QED
      BY <3>1
  <2>3. CASE n >= 100 /\ n < 1000
    <3>1. Bounds(2)
      BY <1>1, <1>2, <2>3
    <3> QED
      BY <3>1
  <2>4. CASE n >= 1000 /\ n < 10000
    <3>1. Bounds(1)
      BY <1>1, <1>2, <2>4
    <3> QED
      BY <3>1
  <2>5. CASE n >= 10000
    <3>1. Bounds(0)
      BY <1>1, <1>2, <2>5
    <3> QED
      BY <3>1
  <2> QED
    BY <2>1, <2>2, <2>3, <2>4, <2>5
<1>4. zeros \in 0..4 /\ Bounds(zeros)
  BY <1>3 DEF Zeros
<1> HIDE DEF zeros
<1>5. \A k \in 1..4 : k <= zeros => n < Tens[k]
  BY <1>4
<1>6. /\ 1 <= zeros => n < 10000
      /\ 2 <= zeros => n < 1000
      /\ 3 <= zeros => n < 100
      /\ 4 <= zeros => n < 10
  BY <1>1, <1>5
<1>7. zeros = 0 \/ zeros = 1 \/ zeros = 2 \/ zeros = 3 \/ zeros = 4
  BY <1>4
<1>8. \/ zeros = 0
      \/ zeros = 1 /\ n < 10000
      \/ zeros = 2 /\ n < 1000
      \/ zeros = 3 /\ n < 100
      \/ zeros = 4 /\ n < 10
  BY <1>6, <1>7
<1> QED
  BY <1>8 DEF zeros

LEMMA EndOfFive ==
  ASSUME NEW S, NEW digits \in [1..5 -> S]
  PROVE  /\ SubSeq(digits, 0 + 1, 5) = <<digits[1], digits[2], digits[3], digits[4], digits[5]>>
         /\ SubSeq(digits, 1 + 1, 5) = <<digits[2], digits[3], digits[4], digits[5]>>
         /\ SubSeq(digits, 2 + 1, 5) = <<digits[3], digits[4], digits[5]>>
         /\ SubSeq(digits, 3 + 1, 5) = <<digits[4], digits[5]>>
         /\ SubSeq(digits, 4 + 1, 5) = <<digits[5]>>
<1>1. ASSUME NEW m \in 1..5
      PROVE  /\ SubSeq(digits, m, 5) \in Seq(S) /\ Len(SubSeq(digits, m, 5)) = 6 - m
             /\ \A i \in 1..(6 - m) : SubSeq(digits, m, 5)[i] = digits[m + i - 1]
  <2>1. \A i \in m..5 : digits[i] \in S
    OBVIOUS
  <2>2. m \in Int /\ 5 \in Int /\ m <= 5 /\ 5 - m + 1 = 6 - m
    OBVIOUS
  <2> QED
    BY <2>1, <2>2, SubSeqProperties
<1>2. SubSeq(digits, 1, 5) = <<digits[1], digits[2], digits[3], digits[4], digits[5]>>
  <2> DEFINE s == SubSeq(digits, 1, 5)
  <2>1. s \in Seq(S) /\ Len(s) = 5
    BY <1>1
  <2>2. s[1] = digits[1] /\ s[2] = digits[2] /\ s[3] = digits[3] /\ s[4] = digits[4] /\ s[5] = digits[5]
    BY <1>1
  <2> HIDE DEF s
  <2>3. s = <<digits[1], digits[2], digits[3], digits[4], digits[5]>>
    BY <2>1, <2>2
  <2> QED
    BY <2>3 DEF s
<1>3. SubSeq(digits, 2, 5) = <<digits[2], digits[3], digits[4], digits[5]>>
  <2> DEFINE s == SubSeq(digits, 2, 5)
  <2>1. s \in Seq(S) /\ Len(s) = 4
    BY <1>1
  <2>2. s[1] = digits[2] /\ s[2] = digits[3] /\ s[3] = digits[4] /\ s[4] = digits[5]
    BY <1>1
  <2> HIDE DEF s
  <2>3. s = <<digits[2], digits[3], digits[4], digits[5]>>
    BY <2>1, <2>2
  <2> QED
    BY <2>3 DEF s
<1>4. SubSeq(digits, 3, 5) = <<digits[3], digits[4], digits[5]>>
  <2> DEFINE s == SubSeq(digits, 3, 5)
  <2>1. s \in Seq(S) /\ Len(s) = 3
    BY <1>1
  <2>2. s[1] = digits[3] /\ s[2] = digits[4] /\ s[3] = digits[5]
    BY <1>1
  <2> HIDE DEF s
  <2>3. s = <<digits[3], digits[4], digits[5]>>
    BY <2>1, <2>2
  <2> QED
    BY <2>3 DEF s
<1>5. SubSeq(digits, 4, 5) = <<digits[4], digits[5]>>
  <2> DEFINE s == SubSeq(digits, 4, 5)
  <2>1. s \in Seq(S) /\ Len(s) = 2
    BY <1>1
  <2>2. s[1] = digits[4] /\ s[2] = digits[5]
    BY <1>1
  <2> HIDE DEF s
  <2>3. s = <<digits[4], digits[5]>>
    BY <2>1, <2>2
  <2> QED
    BY <2>3 DEF s
<1>6. SubSeq(digits, 5, 5) = <<digits[5]>>
  <2> DEFINE s == SubSeq(digits, 5, 5)
  <2>1. s \in Seq(S) /\ Len(s) = 1
    BY <1>1
  <2>2. s[1] = digits[5]
    BY <1>1
  <2> HIDE DEF s
  <2>3. s = <<digits[5]>>
    BY <2>1, <2>2
  <2> QED
    BY <2>3 DEF s
<1> QED
  BY <1>2, <1>3, <1>4, <1>5, <1>6

LEMMA DecimalIsRead ==
  ASSUME NEW n \in Nat, n < UnsignedInts
  PROVE  DecimalText(n) \in DigitTexts /\ ATOI(DecimalText(n), 10) = n
<1> DEFINE q == Digits(n)
           digits == [k \in 1..5 |-> Decimal[q[k] + 1]]
           base == 10
<1>1. /\ \A k \in 1..5 : q[k] \in 0..9
      /\ (((q[1] * base + q[2]) * base + q[3]) * base + q[4]) * base + q[5] = n
      /\ n < 10000 => ((q[2] * base + q[3]) * base + q[4]) * base + q[5] = n
      /\ n < 1000 => (q[3] * base + q[4]) * base + q[5] = n
      /\ n < 100 => q[4] * base + q[5] = n
      /\ n < 10 => q[5] = n
  BY DigitsOfNumber
<1>2. DecimalText(n) = SubSeq(digits, Zeros(n) + 1, 5)
  BY DEF DecimalText
<1> HIDE DEF q
<1>3. \A k \in 1..5 : digits[k] \in Digit /\ C2D[digits[k]] = q[k]
  <2> TAKE k \in 1..5
  <2>1. q[k] \in 0..9 /\ q[k] \in 0..15
    BY <1>1
  <2>2. digits[k] = Hex[q[k] + 1]
    BY <2>1, HexDigits
  <2> QED
    BY <2>1, <2>2, HexDigits
<1>4. digits \in [1..5 -> Digit]
  BY <1>3
<1>5. base \in Nat
  OBVIOUS
<1> HIDE DEF digits, base
<1> DEFINE a == digits[1]
           b == digits[2]
           c == digits[3]
           d == digits[4]
           e == digits[5]
<1>6. /\ a \in Digit /\ b \in Digit /\ c \in Digit /\ d \in Digit /\ e \in Digit
      /\ C2D[a] = q[1] /\ C2D[b] = q[2] /\ C2D[c] = q[3] /\ C2D[d] = q[4] /\ C2D[e] = q[5]
  BY <1>3
<1>14. a \in Digit /\ b \in Digit /\ c \in Digit /\ d \in Digit /\ e \in Digit
  BY <1>3
<1>7. /\ SubSeq(digits, 0 + 1, 5) = <<a, b, c, d, e>>
      /\ SubSeq(digits, 1 + 1, 5) = <<b, c, d, e>>
      /\ SubSeq(digits, 2 + 1, 5) = <<c, d, e>>
      /\ SubSeq(digits, 3 + 1, 5) = <<d, e>>
      /\ SubSeq(digits, 4 + 1, 5) = <<e>>
  BY <1>4, EndOfFive
<1> HIDE DEF a, b, c, d, e
<1>8. ASSUME NEW t \in DigitTexts, DecimalText(n) = t, Number(t, base) = n
      PROVE  DecimalText(n) \in DigitTexts /\ ATOI(DecimalText(n), base) = n
  BY <1>8 DEF ATOI, UnsignedInts
<1>9. CASE Zeros(n) = 0
  <2>1. DecimalText(n) = <<a, b, c, d, e>>
    BY <1>2, <1>7, <1>9
  <2>2. <<a, b, c, d, e>> \in DigitTexts
    BY <1>6 DEF DigitTexts
  <2>3. /\ Number(<<a, b>>, base) = C2D[a] * base + C2D[b]
        /\ Number(<<a, b, c>>, base) = Number(<<a, b>>, base) * base + C2D[c]
        /\ Number(<<a, b, c, d>>, base) = Number(<<a, b, c>>, base) * base + C2D[d]
        /\ Number(<<a, b, c, d, e>>, base) = Number(<<a, b, c, d>>, base) * base + C2D[e]
    <3>1. Number(<<a, b>>, base) = C2D[a] * base + C2D[b]
      BY <1>5, <1>14, TwoDigits
    <3>2. Number(<<a, b, c>>, base) = Number(<<a, b>>, base) * base + C2D[c]
      BY <1>5, <1>14, ThreeDigits
    <3>3. Number(<<a, b, c, d>>, base) = Number(<<a, b, c>>, base) * base + C2D[d]
      BY <1>5, <1>14, FourDigits
    <3>4. Number(<<a, b, c, d, e>>, base) = Number(<<a, b, c, d>>, base) * base + C2D[e]
      BY <1>5, <1>14, FiveDigits
    <3> QED
      BY <3>1, <3>2, <3>3, <3>4
  <2>4. Number(<<a, b, c, d, e>>, base) = n
    BY <1>1, <1>6, <2>3
  <2> QED
    BY <1>8, <2>1, <2>2, <2>4 DEF base
<1>10. CASE Zeros(n) = 1 /\ n < 10000
  <2>1. DecimalText(n) = <<b, c, d, e>>
    BY <1>2, <1>7, <1>10
  <2>2. <<b, c, d, e>> \in DigitTexts
    BY <1>6 DEF DigitTexts
  <2>3. /\ Number(<<b, c>>, base) = C2D[b] * base + C2D[c]
        /\ Number(<<b, c, d>>, base) = Number(<<b, c>>, base) * base + C2D[d]
        /\ Number(<<b, c, d, e>>, base) = Number(<<b, c, d>>, base) * base + C2D[e]
    <3>1. Number(<<b, c>>, base) = C2D[b] * base + C2D[c]
      BY <1>5, <1>14, TwoDigits
    <3>2. Number(<<b, c, d>>, base) = Number(<<b, c>>, base) * base + C2D[d]
      BY <1>5, <1>14, ThreeDigits
    <3>3. Number(<<b, c, d, e>>, base) = Number(<<b, c, d>>, base) * base + C2D[e]
      BY <1>5, <1>14, FourDigits
    <3> QED
      BY <3>1, <3>2, <3>3
  <2>4. Number(<<b, c, d, e>>, base) = n
    BY <1>1, <1>6, <1>10, <2>3
  <2> QED
    BY <1>8, <2>1, <2>2, <2>4 DEF base
<1>11. CASE Zeros(n) = 2 /\ n < 1000
  <2>1. DecimalText(n) = <<c, d, e>>
    BY <1>2, <1>7, <1>11
  <2>2. <<c, d, e>> \in DigitTexts
    BY <1>6 DEF DigitTexts
  <2>3. /\ Number(<<c, d>>, base) = C2D[c] * base + C2D[d]
        /\ Number(<<c, d, e>>, base) = Number(<<c, d>>, base) * base + C2D[e]
    <3>1. Number(<<c, d>>, base) = C2D[c] * base + C2D[d]
      BY <1>5, <1>14, TwoDigits
    <3>2. Number(<<c, d, e>>, base) = Number(<<c, d>>, base) * base + C2D[e]
      BY <1>5, <1>14, ThreeDigits
    <3> QED
      BY <3>1, <3>2
  <2>4. Number(<<c, d, e>>, base) = n
    BY <1>1, <1>6, <1>11, <2>3
  <2> QED
    BY <1>8, <2>1, <2>2, <2>4 DEF base
<1>12. CASE Zeros(n) = 3 /\ n < 100
  <2>1. DecimalText(n) = <<d, e>>
    BY <1>2, <1>7, <1>12
  <2>2. <<d, e>> \in DigitTexts
    BY <1>6 DEF DigitTexts
  <2>3. Number(<<d, e>>, base) = C2D[d] * base + C2D[e]
    BY <1>5, <1>14, TwoDigits
  <2>4. Number(<<d, e>>, base) = n
    BY <1>1, <1>6, <1>12, <2>3
  <2> QED
    BY <1>8, <2>1, <2>2, <2>4 DEF base
<1>13. CASE Zeros(n) = 4 /\ n < 10
  <2>1. DecimalText(n) = <<e>>
    BY <1>2, <1>7, <1>13
  <2>2. <<e>> \in DigitTexts
    BY <1>6 DEF DigitTexts
  <2>3. Number(<<e>>, base) = C2D[e]
    BY <1>5, <1>14, OneDigit
  <2>4. Number(<<e>>, base) = n
    BY <1>1, <1>6, <1>13, <2>3
  <2> QED
    BY <1>8, <2>1, <2>2, <2>4 DEF base
<1> QED
  BY <1>9, <1>10, <1>11, <1>12, <1>13, LeadingZeros

-------------------------------------------------------------------------------
(* Addresses. *)

LEMMA FrontAndLast ==
  ASSUME NEW S, NEW u \in Seq(S), NEW e \in S
  PROVE  Front(Append(u, e)) = u /\ Last(Append(u, e)) = e
<1> DEFINE v == Append(u, e)
<1>1. v \in Seq(S) /\ Len(u) \in Nat /\ Len(v) = Len(u) + 1 /\ v = u \o <<e>> /\ <<e>> \in Seq(S)
  BY AppendFacts, AppendIsConcat
<1>2. v[Len(u) + 1] = e /\ \A k \in 1..Len(u) : v[k] = u[k]
  BY AppendFacts
<1> HIDE DEF v
<1>3. Last(v) = e
  BY <1>1, <1>2 DEF Last
<1>4. Front(v) = SubSeq(v, 1, Len(u))
  BY <1>1 DEF Front
<1>5. \A i \in 1..Len(u) : v[i] \in S
  BY <1>1, <1>2, ElementOfSeq
<1>6. /\ SubSeq(v, 1, Len(u)) \in Seq(S) /\ Len(SubSeq(v, 1, Len(u))) = Len(u)
      /\ \A i \in 1..Len(u) : SubSeq(v, 1, Len(u))[i] = v[i]
  <2> DEFINE n == Len(u)
  <2>1. n \in Nat /\ 1 \in Int /\ n \in Int /\ (IF 1 <= n THEN n - 1 + 1 ELSE 0) = n /\ n - 1 + 1 = n
    BY <1>1
  <2>2. \A i \in 1..n : v[i] \in S
    BY <1>5
  <2> HIDE DEF n
  <2>3. /\ SubSeq(v, 1, n) \in Seq(S) /\ Len(SubSeq(v, 1, n)) = IF 1 <= n THEN n - 1 + 1 ELSE 0
        /\ \A i \in 1 .. n - 1 + 1 : SubSeq(v, 1, n)[i] = v[1 + i - 1]
    BY <2>1, <2>2, SubSeqProperties
  <2>4. \A i \in 1..n : SubSeq(v, 1, n)[i] = v[i]
    <3> TAKE i \in 1..n
    <3>1. 1 + i - 1 = i
      BY <2>1
    <3> QED
      BY <2>1, <2>3, <3>1
  <2> QED
    BY <2>1, <2>3, <2>4 DEF n
<1>7. \A i \in 1..Len(u) : SubSeq(v, 1, Len(u))[i] = u[i]
  BY <1>2, <1>6
<1>8. SubSeq(v, 1, Len(u)) = u
  BY <1>6, <1>7, SeqEqual
<1> QED
  BY <1>3, <1>4, <1>8 DEF v

LEMMA FrontLastAgain ==
  ASSUME NEW S, NEW u \in Seq(S), u # <<>>
  PROVE  /\ Front(u) \in Seq(S) /\ Last(u) \in S
         /\ Append(Front(u), Last(u)) = u
<1>1. PICK s \in Seq(S), e \in S : u = Append(s, e)
  BY SequenceEmptyOrAppend
<1> QED
  BY <1>1, FrontAndLast

LEMMA ConcatAppend ==
  ASSUME NEW S, NEW x \in Seq(S), NEW t \in Seq(S), NEW c \in S
  PROVE  /\ x \o t \in Seq(S)
         /\ x \o Append(t, c) = Append(x \o t, c)
<1>1. <<c>> \in Seq(S) /\ x \o t \in Seq(S)
  OBVIOUS
<1>2. Append(t, c) = t \o <<c>> /\ Append(x \o t, c) = (x \o t) \o <<c>>
  BY <1>1, AppendIsConcat
<1> QED
  BY <1>1, <1>2, ConcatAssociative

LEMMA OtherPiece ==
  ASSUME NEW C, NEW d, NEW y \in Seq(C), NEW c \in C, c # d
  PROVE  Pieces(Append(y, c), d) = Append(Front(Pieces(y, d)), Append(Last(Pieces(y, d)), c))
<1>1. Pieces(Append(y, c), d) = IF c = d THEN Append(Pieces(y, d), <<>>)
                   ELSE Append(Front(Pieces(y, d)), Append(Last(Pieces(y, d)), c))
  <2>1. ReadsPieces(C, d)
    BY PiecesAreFromTheLeft
  <2> QED
    BY <2>1 DEF ReadsPieces
<1> QED
  BY <1>1

LEMMA NewPiece ==
  ASSUME NEW C, NEW ts \in Seq(Seq(C))
  PROVE  Front(Append(ts, <<>>)) = ts /\ Last(Append(ts, <<>>)) = <<>>
<1> DEFINE S == Seq(C)
           e == <<>>
<1>1. ts \in Seq(S) /\ e \in S
  BY EmptySeq
<1> HIDE DEF S, e
<1>2. Front(Append(ts, e)) = ts /\ Last(Append(ts, e)) = e
  BY <1>1, FrontAndLast
<1> QED
  BY <1>2 DEF e

\* Digits are added to the last piece,
LEMMA PiecesOfDigits ==
  ASSUME NEW C, NEW d, NEW x \in Seq(C), NEW s \in Seq(Digit), Digit \subseteq C, d \notin Digit
  PROVE  /\ s \in Seq(C) /\ x \o s \in Seq(C)
         /\ Pieces(x \o s, d) = Append(Front(Pieces(x, d)), Last(Pieces(x, d)) \o s)
<1> DEFINE p == Pieces(x, d)
           G == {t \in Seq(C) : /\ x \o t \in Seq(C)
                                /\ Pieces(x \o t, d) = Append(Front(p), Last(p) \o t)}
<1>1. p \in Seq(Seq(C)) /\ p # <<>> /\ Front(p) \in Seq(Seq(C)) /\ Last(p) \in Seq(C)
  <2>1. p \in PieceLists(C)
    <3>1. ReadsPieces(C, d)
      BY PiecesAreFromTheLeft
    <3> QED
      BY <3>1 DEF ReadsPieces
  <2> QED
    BY <2>1, FrontLastAgain DEF PieceLists
<1>2. <<>> \in G
  <2>1. x \o <<>> = x /\ Last(p) \o <<>> = Last(p) /\ <<>> \in Seq(C)
    BY <1>1, ConcatEmptySeq, EmptySeq
  <2>2. Append(Front(p), Last(p)) = p
    BY <1>1, FrontLastAgain
  <2> QED
    BY <2>1, <2>2
<1>3. ASSUME NEW t \in Seq(Digit), NEW c \in Digit, t \in G PROVE Append(t, c) \in G
  <2> DEFINE y == x \o t
             last == Last(p) \o t
             final == Last(p)
  <2>0. final \in Seq(C)
    BY <1>1
  <2>1. /\ t \in Seq(C) /\ c \in C /\ c # d /\ y \in Seq(C) /\ last \in Seq(C)
        /\ Pieces(y, d) = Append(Front(p), last)
    BY <1>1, <1>3, ConcatAppend
  <2>2. x \o Append(t, c) = Append(y, c) /\ final \o Append(t, c) = Append(last, c)
    <3>1. x \o Append(t, c) = Append(x \o t, c)
      BY <2>1, ConcatAppend
    <3> HIDE DEF p, final
    <3>2. final \o Append(t, c) = Append(final \o t, c)
      BY <2>0, <2>1, ConcatAppend
    <3>3. last = final \o t
      BY DEF final
    <3> QED
      BY <3>1, <3>2, <3>3
  <2> HIDE DEF y, last, p
  <2>3. Append(t, c) \in Seq(C) /\ Append(y, c) \in Seq(C)
    BY <2>1, AppendFacts
  <2>4. Pieces(Append(y, c), d) = Append(Front(Pieces(y, d)), Append(Last(Pieces(y, d)), c))
    <3>1. y \in Seq(C) /\ c \in C /\ c # d
      BY <2>1
    <3> QED
      BY <3>1, OtherPiece
  <2>5. Front(Pieces(y, d)) = Front(p) /\ Last(Pieces(y, d)) = last
    BY <1>1, <2>1, FrontAndLast
  <2> QED
    BY <2>2, <2>3, <2>4, <2>5
<1> HIDE DEF G
<1>4. Seq(Digit) \subseteq G
  BY <1>2, <1>3, SequenceInduction
<1> QED
  BY <1>4 DEF G

\* and so the texts are found again that were joined.
LEMMA JoinedIsRead ==
  ASSUME NEW C, Digit \subseteq C, NEW d \in C, d \notin Digit, NEW texts \in Seq(Seq(Digit)), texts # <<>>
  PROVE  Joined(texts, d) \in Seq(C) /\ Pieces(Joined(texts, d), d) = texts
<1> DEFINE G == {ts \in Seq(Seq(C)) : /\ Joined(ts, d) \in Seq(C)
                                      /\ ts # <<>> => Pieces(Joined(ts, d), d) = ts}
<1>a. ReadsJoined(C, d) /\ ReadsPieces(C, d)
  BY PiecesAreFromTheLeft, JoinedIsFromTheLeft
<1>1. <<>> \in G
  <2>1. <<>> \in Seq(Seq(C)) /\ <<>> \in Seq(C)
    BY EmptySeq
  <2>2. Joined(<<>>, d) = <<>>
    BY <1>a DEF ReadsJoined
  <2> QED
    BY <2>1, <2>2
<1>2. ASSUME NEW ts \in Seq(Seq(Digit)), NEW t \in Seq(Digit), ts \in G PROVE Append(ts, t) \in G
  <2> DEFINE j == Joined(ts, d)
             k == Joined(Append(ts, t), d)
  <2>1. ts \in Seq(Seq(C)) /\ t \in Seq(C) /\ j \in Seq(C) /\ (ts # <<>> => Pieces(j, d) = ts)
    BY <1>2, SeqMonotonic
  <2>2. k = j \o (IF Len(ts) + 1 = 1 THEN <<>> ELSE <<d>>) \o t
    BY <1>a, <2>1 DEF ReadsJoined
  <2>3. Append(ts, t) \in Seq(Seq(C))
    BY <2>1, AppendFacts
  <2>4. CASE ts = <<>>
    <3>1. Len(ts) + 1 = 1 /\ j = <<>>
      <4>1. Len(<<>>) + 1 = 1
        OBVIOUS
      <4>2. Joined(<<>>, d) = <<>>
        BY <1>a DEF ReadsJoined
      <4> QED
        BY <2>4, <4>1, <4>2
    <3>2. k = (<<>> \o <<>>) \o t
      BY <2>2, <3>1
    <3>3. <<>> \in Seq(C) /\ <<>> \o <<>> = <<>> /\ <<>> \o t = t
      BY <2>1, EmptySeq, ConcatEmptySeq
    <3>4. k = <<>> \o t /\ k \in Seq(C)
      BY <2>1, <3>2, <3>3
    <3> DEFINE p == Pieces(<<>>, d)
    <3>5. p = Append(<<>>, <<>>) /\ <<>> \in Seq(Seq(C))
      <4>1. p = << <<>> >>
        BY <1>a DEF ReadsPieces
      <4>2. << <<>> >> = Append(<<>>, <<>>)
        OBVIOUS
      <4> QED
        BY <4>1, <4>2, EmptySeq
    <3>6. Front(p) = <<>> /\ Last(p) = <<>>
      BY <3>5, NewPiece
    <3>7. Pieces(k, d) = Append(Front(p), Last(p) \o t)
      <4>1. Pieces(<<>> \o t, d) = Append(Front(Pieces(<<>>, d)), Last(Pieces(<<>>, d)) \o t)
        <5> DEFINE e == <<>>
        <5>1. e \in Seq(C)
          BY <3>3
        <5> HIDE DEF e
        <5>2. Pieces(e \o t, d) = Append(Front(Pieces(e, d)), Last(Pieces(e, d)) \o t)
          BY <5>1, PiecesOfDigits
        <5> QED
          BY <5>2 DEF e
      <4> HIDE DEF k
      <4> QED
        BY <3>4, <4>1
    <3> HIDE DEF p, k
    <3>8. Pieces(k, d) = Append(ts, t)
      BY <2>4, <3>3, <3>6, <3>7
    <3> QED
      BY <2>3, <3>4, <3>8 DEF k
  <2>5. CASE ts # <<>>
    <3> DEFINE y == Append(j, d)
    <3>1. Len(ts) \in Nat /\ Len(ts) # 0
      BY <2>1, <2>5, EmptySeq
    <3>2. Len(ts) + 1 # 1
      BY <3>1
    <3>3. k = (j \o <<d>>) \o t
      BY <2>2, <3>2
    <3>4. y = j \o <<d>> /\ y \in Seq(C)
      BY <2>1, AppendIsConcat, AppendFacts
    <3>5. Pieces(y, d) = Append(Pieces(j, d), <<>>)
      BY <1>a, <2>1 DEF ReadsPieces
    <3> HIDE DEF j, k, y
    <3>6. Pieces(y, d) = Append(ts, <<>>) /\ <<>> \in Seq(C)
      BY <2>1, <2>5, <3>5, EmptySeq
    <3>7. Front(Pieces(y, d)) = ts /\ Last(Pieces(y, d)) = <<>>
      BY <2>1, <3>6, NewPiece
    <3>8. k \in Seq(C) /\ Pieces(k, d) = Append(Front(Pieces(y, d)), Last(Pieces(y, d)) \o t)
      <4>1. y \in Seq(C)
        BY <3>4
      <4>2. /\ y \o t \in Seq(C)
            /\ Pieces(y \o t, d) = Append(Front(Pieces(y, d)), Last(Pieces(y, d)) \o t)
        BY <4>1, PiecesOfDigits
      <4> QED
        BY <3>3, <3>4, <4>2
    <3>9. <<>> \o t = t
      BY <2>1, ConcatEmptySeq
    <3> QED
      BY <2>3, <3>7, <3>8, <3>9 DEF k
  <2> QED
    BY <2>4, <2>5
<1> HIDE DEF G
<1>3. Seq(Seq(Digit)) \subseteq G
  BY <1>1, <1>2, SequenceInduction
<1> QED
  BY <1>3 DEF G

LEMMA NoDelimiters == "." \notin Digit /\ ":" \notin Digit /\ "+" \notin Digit /\ "%" \notin Digit
  BY DEF Digit, Hex, Capital, ToSet

LEMMA BytesAreNumbers == \A n \in Bytes : n \in Nat /\ n < UnsignedInts /\ n % 256 = n
  BY DEF Bytes, UnsignedInts

\* Bytes are read as they were written,
TextsOf(texts, numbers, base) ==
  /\ texts = [n \in DOMAIN numbers |-> texts[n]]
  /\ \A n \in DOMAIN numbers : texts[n] \in Seq(Digit) /\ ATOI(texts[n], base) = numbers[n]
AreRead(texts, numbers, d, base) ==
  /\ Joined(texts, d) \in Seq(Digit \cup {d})
  /\ data_get(Joined(texts, d), d, base) = numbers
LEMMA NumbersAreRead ==
  \A numbers \in Seq(Bytes) : \A texts, d, base :
    numbers # <<>> /\ d \notin Digit /\ TextsOf(texts, numbers, base)
      => AreRead(texts, numbers, d, base)
<1> SUFFICES ASSUME NEW numbers \in Seq(Bytes), NEW texts, NEW d, NEW base,
                    numbers # <<>>, d \notin Digit, TextsOf(texts, numbers, base)
             PROVE  AreRead(texts, numbers, d, base)
  OBVIOUS
<1> DEFINE C == Digit \cup {d}
<1>1. /\ Len(numbers) \in Nat /\ Len(numbers) # 0 /\ DOMAIN numbers = 1..Len(numbers)
      /\ \A n \in DOMAIN numbers : numbers[n] \in Bytes
  BY LenProperties, EmptySeq, ElementOfSeq
<1>2. /\ DOMAIN texts = DOMAIN numbers /\ texts = [n \in DOMAIN numbers |-> texts[n]]
      /\ \A n \in DOMAIN numbers : texts[n] \in Seq(Digit) /\ ATOI(texts[n], base) = numbers[n]
  BY DEF TextsOf
<1>3. texts \in [1..Len(numbers) -> Seq(Digit)]
  BY <1>1, <1>2
<1>4. texts \in Seq(Seq(Digit)) /\ Len(texts) = Len(numbers)
  <2> DEFINE S == Seq(Digit)
  <2>1. texts \in [1..Len(numbers) -> S]
    BY <1>3
  <2> HIDE DEF S
  <2>2. texts \in Seq(S) /\ Len(texts) = Len(numbers)
    BY <1>1, <2>1
  <2> QED
    BY <2>2 DEF S
<1>5. texts # <<>>
  <2>1. Len(<<>>) = 0
    OBVIOUS
  <2> QED
    BY <1>1, <1>4, <2>1
<1>6. Digit \subseteq C /\ d \in C
  OBVIOUS
<1> HIDE DEF C
<1>7. Joined(texts, d) \in Seq(C) /\ Pieces(Joined(texts, d), d) = texts
  BY <1>4, <1>5, <1>6, JoinedIsRead
<1>8. data_get(Joined(texts, d), d, base) = [n \in DOMAIN texts |-> ATOI(texts[n], base) % 256]
  BY <1>7 DEF data_get
<1>9. \A n \in DOMAIN numbers : ATOI(texts[n], base) % 256 = numbers[n]
  BY <1>1, <1>2, BytesAreNumbers
<1>10. [n \in DOMAIN texts |-> ATOI(texts[n], base) % 256] = [n \in DOMAIN numbers |-> numbers[n]]
  BY <1>2, <1>9
<1>11. numbers = [n \in DOMAIN numbers |-> numbers[n]]
  BY LenProperties
<1> QED
  BY <1>7, <1>8, <1>10, <1>11 DEF C, AreRead

\* and so are an address
LEMMA IpIsRead ==
  ASSUME NEW ip \in Seq(Bytes), ip # <<>>
  PROVE  data_get(IpText(ip), ".", 10) = ip
<1> DEFINE texts == [n \in DOMAIN ip |-> DecimalText(ip[n])]
           base == 10
           d == "."
<1>1. \A n \in DOMAIN ip : texts[n] \in Seq(Digit) /\ ATOI(texts[n], base) = ip[n]
  <2> TAKE n \in DOMAIN ip
  <2>1. n \in 1..Len(ip)
    BY LenProperties
  <2>2. ip[n] \in Bytes
    BY <2>1, ElementOfSeq
  <2>3. ip[n] \in Nat /\ ip[n] < UnsignedInts
    BY <2>2, BytesAreNumbers
  <2> QED
    BY <2>3, DecimalIsRead DEF DigitTexts
<1>2. d \notin Digit /\ texts = [n \in DOMAIN ip |-> texts[n]]
  BY NoDelimiters
<1>a. TextsOf(texts, ip, base)
  BY <1>1, <1>2 DEF TextsOf
<1>b. d \notin Digit
  BY NoDelimiters
<1>3. IpText(ip) = Joined(texts, d)
  BY DEF IpText
<1>c. ip # <<>>
  OBVIOUS
<1> HIDE DEF texts, base, d
<1>4. AreRead(texts, ip, d, base)
  BY <1>a, <1>b, <1>c, NumbersAreRead
<1> QED
  BY <1>3, <1>4 DEF base, d, AreRead

\* and a MAC.
LEMMA MacTextIsRead ==
  ASSUME NEW mac \in Seq(Bytes), mac # <<>>
  PROVE  MacText(mac) \in Seq(Digit \cup {":"}) /\ data_get(MacText(mac), ":", 16) = mac
<1> DEFINE texts == [n \in DOMAIN mac |-> HexText(mac[n])]
           base == 16
           d == ":"
<1>1. \A n \in DOMAIN mac : texts[n] \in Seq(Digit) /\ ATOI(texts[n], base) = mac[n]
  <2> TAKE n \in DOMAIN mac
  <2>1. n \in 1..Len(mac)
    BY LenProperties
  <2>2. mac[n] \in 0..255
    BY <2>1, ElementOfSeq DEF Bytes
  <2> QED
    BY <2>2, HexIsRead DEF DigitTexts
<1>2. d \notin Digit /\ texts = [n \in DOMAIN mac |-> texts[n]]
  BY NoDelimiters
<1>a. TextsOf(texts, mac, base)
  BY <1>1, <1>2 DEF TextsOf
<1>b. d \notin Digit
  BY NoDelimiters
<1>3. MacText(mac) = Joined(texts, d)
  BY DEF MacText
<1>c. mac # <<>>
  OBVIOUS
<1> HIDE DEF texts, base, d
<1>4. AreRead(texts, mac, d, base)
  BY <1>a, <1>b, <1>c, NumbersAreRead
<1> QED
  BY <1>3, <1>4 DEF base, d, AreRead

-------------------------------------------------------------------------------
(* Escaped texts. *)

LEMMA CodesAreRead ==
  CharOfCode[h2int("3") * 16 + h2int("A")] = ":" /\ CharOfCode[h2int("2") * 16 + h2int("F")] = "/"
<1>1. Hex[4] = "3" /\ Hex[3] = "2" /\ Capital[11] = "A" /\ Capital[16] = "F"
  BY DEF Hex, Capital
<1>2. DOMAIN Hex = 1..16 /\ DOMAIN Capital = 1..16
  BY DEF Hex, Capital
<1>3. "3" \in Digit /\ "2" \in Digit /\ "A" \in Digit /\ "F" \in Digit
  BY <1>1, <1>2 DEF Digit, ToSet
<1>4. \A c \in Digit : h2int(c) = CHOOSE n \in 0..15 : c \in {Hex[n + 1], Capital[n + 1]}
  BY DEF h2int, C2D, Digit
<1>5. /\ \A n \in 0..15 : "3" \in {Hex[n + 1], Capital[n + 1]} <=> n = 3
      /\ \A n \in 0..15 : "2" \in {Hex[n + 1], Capital[n + 1]} <=> n = 2
      /\ \A n \in 0..15 : "A" \in {Hex[n + 1], Capital[n + 1]} <=> n = 10
      /\ \A n \in 0..15 : "F" \in {Hex[n + 1], Capital[n + 1]} <=> n = 15
  BY DEF Hex, Capital
<1>6. h2int("3") = 3
  BY <1>3, <1>4, <1>5
<1>7. h2int("2") = 2
  BY <1>3, <1>4, <1>5
<1>8. h2int("A") = 10
  <2>1. h2int("A") = CHOOSE n \in 0..15 : "A" \in {Hex[n + 1], Capital[n + 1]}
    BY <1>3, <1>4
  <2>2. \A n \in 0..15 : "A" \in {Hex[n + 1], Capital[n + 1]} <=> n = 10
    BY <1>5
  <2>3. 10 \in 0..15
    OBVIOUS
  <2>4. (CHOOSE n \in 0..15 : "A" \in {Hex[n + 1], Capital[n + 1]}) = 10
    BY <2>2, <2>3
  <2> QED
    BY <2>1, <2>4
<1>9. h2int("F") = 15
  BY <1>3, <1>4, <1>5
<1>10. CharOfCode[58] = ":" /\ CharOfCode[47] = "/"
  BY DEF CharOfCode
<1>11. 3 * 16 + 10 = 58 /\ 2 * 16 + 15 = 47
  OBVIOUS
<1> QED
  BY <1>6, <1>7, <1>8, <1>9, <1>10, <1>11

LEMMA ThreeMore ==
  ASSUME NEW S, NEW u \in Seq(S), NEW a \in S, NEW b \in S, NEW c \in S
  PROVE  /\ Append(u, a) \in Seq(S) /\ Append(Append(u, a), b) \in Seq(S)
         /\ u \o <<a>> = Append(u, a)
         /\ u \o <<a, b, c>> = Append(Append(Append(u, a), b), c)
<1>1. /\ <<>> \in Seq(S) /\ <<a>> \in Seq(S) /\ <<a, b>> \in Seq(S)
      /\ <<a, b>> = Append(<<a>>, b) /\ <<a, b, c>> = Append(<<a, b>>, c)
  OBVIOUS
<1>2. Append(u, a) = u \o <<a>> /\ Append(u, a) \in Seq(S)
  BY AppendIsConcat, AppendFacts
<1>3. u \o <<a, b>> = Append(u \o <<a>>, b)
  BY <1>1, ConcatAppend
<1>4. u \o <<a, b, c>> = Append(u \o <<a, b>>, c)
  BY <1>1, ConcatAppend
<1>5. Append(Append(u, a), b) \in Seq(S)
  BY <1>2, AppendFacts
<1> QED
  BY <1>2, <1>3, <1>4, <1>5

LEMMA TwoOfThem == ASSUME NEW S, NEW a \in S, NEW c \in S PROVE <<a, c>> = Append(<<a>>, c)
<1>1. <<a>> \in Seq(S) /\ <<a, c>> = Append(<<a>>, c)
  OBVIOUS
<1> QED
  BY <1>1

\* Within a code a character is kept until there are three.
LEMMA CodeGoesOn == \A t, a, c :
  ReadChar([text |-> t, code |-> <<a>>], c) = [text |-> t, code |-> <<a, c>>]
<1> TAKE t, a, c
<1> DEFINE s == [text |-> t, code |-> <<a>>]
<1>1. s.text = t /\ s.code = <<a>> /\ s.code # <<>> /\ Len(s.code) = 1
  OBVIOUS
<1> HIDE DEF s
<1>2. ReadChar(s, c) = [text |-> t, code |-> Append(<<a>>, c)]
  BY <1>1 DEF ReadChar
<1>3. Append(<<a>>, c) = <<a, c>>
  <2> DEFINE S == {a, c}
  <2>1. a \in S /\ c \in S
    OBVIOUS
  <2> HIDE DEF S
  <2> QED
    BY <2>1, TwoOfThem
<1> QED
  BY <1>2, <1>3 DEF s

LEMMA CodeEnds == \A t, a, b, c :
  ReadChar([text |-> t, code |-> <<a, b>>], c)
    = [text |-> Append(t, CharOfCode[h2int(b) * 16 + h2int(c)]), code |-> <<>>]
<1> TAKE t, a, b, c
<1> DEFINE s == [text |-> t, code |-> <<a, b>>]
<1>1. s.text = t /\ s.code # <<>> /\ Len(s.code) = 2 /\ s.code[2] = b
  OBVIOUS
<1> HIDE DEF s
<1>2. ReadChar(s, c) = [text |-> Append(t, CharOfCode[h2int(b) * 16 + h2int(c)]), code |-> <<>>]
  BY <1>1 DEF ReadChar
<1> QED
  BY <1>2 DEF s

\* Between the codes a character is read as itself, a plus as a blank.
LEMMA ReadingChars ==
  ASSUME NEW t
  PROVE  /\ \A c : c \notin {"%", "+"} =>
              ReadChar([text |-> t, code |-> <<>>], c) = [text |-> Append(t, c), code |-> <<>>]
         /\ ReadChar([text |-> t, code |-> <<>>], "+") = [text |-> Append(t, " "), code |-> <<>>]
         /\ ReadChar([text |-> t, code |-> <<>>], "%") = [text |-> t, code |-> <<"%">>]
<1> DEFINE r == [text |-> t, code |-> <<>>]
<1>1. r.text = t /\ r.code = <<>>
  OBVIOUS
<1> HIDE DEF r
<1>2. ASSUME NEW c, c \notin {"%", "+"} PROVE ReadChar(r, c) = [text |-> Append(t, c), code |-> <<>>]
  BY <1>1, <1>2 DEF ReadChar
<1>3. ReadChar(r, "+") = [text |-> Append(t, " "), code |-> <<>>]
  BY <1>1 DEF ReadChar
<1>4. ReadChar(r, "%") = [text |-> t, code |-> <<"%">>]
  BY <1>1 DEF ReadChar
<1> QED
  BY <1>2, <1>3, <1>4 DEF r

\* A code of three characters is read as the one it stands for.
CodeDecoded(D, u, b, c, t) ==
  /\ u \o <<"%", b, c>> \in Seq(D)
  /\ Decoded(u \o <<"%", b, c>>)
       = [text |-> Append(t, CharOfCode[h2int(b) * 16 + h2int(c)]), code |-> <<>>]
LEMMA CodeIsRead ==
  \A D, u, b, c, t :
    Escapes \subseteq D /\ u \in Seq(D) /\ b \in D /\ c \in D
      /\ Decoded(u) = [text |-> t, code |-> <<>>]
      => CodeDecoded(D, u, b, c, t)
<1> SUFFICES ASSUME NEW D, Escapes \subseteq D, NEW u \in Seq(D), NEW b \in D, NEW c \in D, NEW t,
                    Decoded(u) = [text |-> t, code |-> <<>>]
             PROVE  CodeDecoded(D, u, b, c, t)
  OBVIOUS
<1> DEFINE a == "%"
           u1 == Append(u, a)
           u2 == Append(u1, b)
           u3 == Append(u2, c)
<1>1. a \in D
  BY DEF Escapes
<1>2. ReadsDecoded(D)
  BY DecodingIsFromTheLeft
<1>3. \A x \in Seq(D), e \in D : Decoded(Append(x, e)) = ReadChar(Decoded(x), e)
  BY <1>2 DEF ReadsDecoded
<1>4. ReadChar([text |-> t, code |-> <<>>], a) = [text |-> t, code |-> <<a>>]
  BY ReadingChars
<1> HIDE DEF a
<1>5. u1 \in Seq(D) /\ u2 \in Seq(D) /\ u3 \in Seq(D) /\ u \o <<a, b, c>> = u3
  <2>1. /\ Append(u, a) \in Seq(D) /\ Append(Append(u, a), b) \in Seq(D)
        /\ u \o <<a, b, c>> = Append(Append(Append(u, a), b), c)
    BY <1>1, ThreeMore
  <2>2. u3 \in Seq(D)
    BY <2>1, AppendFacts
  <2> QED
    BY <2>1, <2>2
<1>6. /\ Decoded(u1) = ReadChar(Decoded(u), a)
      /\ Decoded(u2) = ReadChar(Decoded(u1), b)
      /\ Decoded(u3) = ReadChar(Decoded(u2), c)
  BY <1>1, <1>3, <1>5
<1> HIDE DEF u1, u2, u3
<1>7. Decoded(u1) = [text |-> t, code |-> <<a>>]
  BY <1>4, <1>6
<1>8. ReadChar([text |-> t, code |-> <<a>>], b) = [text |-> t, code |-> <<a, b>>]
  BY CodeGoesOn
<1>9. ReadChar([text |-> t, code |-> <<a, b>>], c)
        = [text |-> Append(t, CharOfCode[h2int(b) * 16 + h2int(c)]), code |-> <<>>]
  BY CodeEnds
<1> QED
  BY <1>5, <1>6, <1>7, <1>8, <1>9 DEF a, CodeDecoded

\* One more character of a text is read as it was written.
LEMMA OneMoreIsRead ==
  ASSUME NEW D, Escapes \subseteq D, NEW t \in Seq(D), NEW c \in D, c \notin {"%", "+"},
         Decoded(UrlEncoded(t)) = [text |-> t, code |-> <<>>]
  PROVE  Decoded(UrlEncoded(Append(t, c))) = [text |-> Append(t, c), code |-> <<>>]
<1> DEFINE u == UrlEncoded(t)
           r == [text |-> t, code |-> <<>>]
<1>1. ReadsEncoded(D) /\ ReadsDecoded(D)
  BY EncodingIsFromTheLeft, DecodingIsFromTheLeft
<1>2. u \in Seq(D) /\ UrlEncoded(Append(t, c)) = u \o CharText(c)
  BY <1>1 DEF ReadsEncoded
<1>3. \A e \in D : Decoded(Append(u, e)) = ReadChar(Decoded(u), e)
  BY <1>1, <1>2 DEF ReadsDecoded
<1>4. \A e \in D : u \o <<e>> = Append(u, e)
  BY <1>2, ThreeMore
<1>5. "3" \in D /\ "A" \in D /\ "2" \in D /\ "F" \in D /\ "+" \in D
  BY DEF Escapes
<1>d. Decoded(u) = r
  OBVIOUS
<1>e. Escapes \subseteq D
  OBVIOUS
<1> HIDE DEF u, r
<1>6. CASE c = ":"
  <2>1. CharText(c) = <<"%", "3", "A">>
    BY <1>6 DEF CharText
  <2>2. Decoded(u \o <<"%", "3", "A">>)
          = [text |-> Append(t, CharOfCode[h2int("3") * 16 + h2int("A")]), code |-> <<>>]
    <3> DEFINE b == "3"
               e == "A"
    <3>1. b \in D /\ e \in D /\ Decoded(u) = [text |-> t, code |-> <<>>]
      BY <1>5, <1>d DEF r
    <3> HIDE DEF b, e
    <3>2. CodeDecoded(D, u, b, e, t)
      BY <1>2, <1>e, <3>1, CodeIsRead
    <3> QED
      BY <3>2 DEF b, e, CodeDecoded
  <2> QED
    BY <1>2, <1>6, <2>1, <2>2, CodesAreRead
<1>7. CASE c = "/"
  <2>1. CharText(c) = <<"%", "2", "F">>
    BY <1>7 DEF CharText
  <2>2. Decoded(u \o <<"%", "2", "F">>)
          = [text |-> Append(t, CharOfCode[h2int("2") * 16 + h2int("F")]), code |-> <<>>]
    <3> DEFINE b == "2"
               e == "F"
    <3>1. b \in D /\ e \in D /\ Decoded(u) = [text |-> t, code |-> <<>>]
      BY <1>5, <1>d DEF r
    <3> HIDE DEF b, e
    <3>2. CodeDecoded(D, u, b, e, t)
      BY <1>2, <1>e, <3>1, CodeIsRead
    <3> QED
      BY <3>2 DEF b, e, CodeDecoded
  <2> QED
    BY <1>2, <1>7, <2>1, <2>2, CodesAreRead
<1>8. CASE c = " "
  <2>1. CharText(c) = <<"+">>
    BY <1>8 DEF CharText
  <2>2. Decoded(u \o <<"+">>) = ReadChar(r, "+")
    BY <1>3, <1>4, <1>5, <1>d
  <2>3. ReadChar(r, "+") = [text |-> Append(t, " "), code |-> <<>>]
    BY ReadingChars DEF r
  <2> QED
    BY <1>2, <1>8, <2>1, <2>2, <2>3
<1>9. CASE c \notin {":", "/", " "}
  <2>1. CharText(c) = <<c>>
    BY <1>9 DEF CharText
  <2>2. Decoded(u \o <<c>>) = ReadChar(r, c)
    BY <1>3, <1>4, <1>d
  <2>3. ReadChar(r, c) = [text |-> Append(t, c), code |-> <<>>]
    BY ReadingChars DEF r
  <2> QED
    BY <1>2, <2>1, <2>2, <2>3
<1> QED
  BY <1>6, <1>7, <1>8, <1>9

\* What a browser escapes is read as it was written, where it escapes all that means more.
LEMMA EncodedIsRead ==
  ASSUME NEW C, NEW text \in Seq(C), IsPlain(text)
  PROVE  urldecode(UrlEncoded(text)) = text
<1> DEFINE D == C \cup Escapes
           P == C \ {"%", "+"}
           G == {t \in Seq(D) : Decoded(UrlEncoded(t)) = [text |-> t, code |-> <<>>]}
<1>1. Escapes \subseteq D /\ P \subseteq D
  OBVIOUS
<1>2. \A c \in P : c \in D /\ c \notin {"%", "+"}
  BY <1>1
<1>3. text \in Seq(P)
  <2>1. Len(text) \in Nat /\ \A k \in 1..Len(text) : text[k] \in C
    BY ElementOfSeq, LenProperties
  <2>2. DOMAIN text = 1..Len(text)
    BY LenProperties
  <2>3. \A k \in 1..Len(text) : text[k] \notin {"%", "+"}
    BY <2>2 DEF IsPlain, ToSet
  <2>4. \A k \in 1..Len(text) : text[k] \in P
    BY <2>1, <2>3
  <2>5. text = [k \in 1..Len(text) |-> text[k]]
    BY LenProperties
  <2> HIDE DEF P
  <2>6. [k \in 1..Len(text) |-> text[k]] \in Seq(P)
    BY <2>1, <2>4, IsASeq
  <2> QED
    BY <2>5, <2>6
<1> HIDE DEF D, P
<1>4. <<>> \in G
  <2>1. ReadsEncoded(D) /\ ReadsDecoded(D)
    BY <1>1, EncodingIsFromTheLeft, DecodingIsFromTheLeft
  <2>2. <<>> \in Seq(D)
    OBVIOUS
  <2> QED
    BY <2>1, <2>2 DEF ReadsEncoded, ReadsDecoded
<1>5. ASSUME NEW t \in Seq(P), NEW c \in P, t \in G PROVE Append(t, c) \in G
  <2>1. t \in Seq(D) /\ Decoded(UrlEncoded(t)) = [text |-> t, code |-> <<>>]
    BY <1>5
  <2>2. c \in D /\ c \notin {"%", "+"}
    BY <1>2
  <2>3. Append(t, c) \in Seq(D)
    BY <2>1, <2>2, AppendFacts
  <2>4. Decoded(UrlEncoded(Append(t, c))) = [text |-> Append(t, c), code |-> <<>>]
    BY <1>1, <2>1, <2>2, OneMoreIsRead
  <2> QED
    BY <2>3, <2>4
<1> HIDE DEF G
<1>6. Seq(P) \subseteq G
  BY <1>4, <1>5, SequenceInduction
<1>7. text \in G
  BY <1>3, <1>6
<1> QED
  BY <1>7 DEF G, urldecode

\* and a MAC.
LEMMA EscapedMacIsRead ==
  ASSUME NEW mac \in Seq(Bytes), mac # <<>>
  PROVE  data_get(urldecode(UrlEncoded(MacText(mac))), ":", 16) = mac
<1> DEFINE C == Digit \cup {":"}
           text == MacText(mac)
<1>1. text \in Seq(C) /\ data_get(text, ":", 16) = mac
  BY MacTextIsRead
<1>2. "+" \notin C /\ "%" \notin C
  BY NoDelimiters
<1> HIDE DEF C, text
<1>3. IsPlain(text)
  <2>1. DOMAIN text = 1..Len(text) /\ \A k \in 1..Len(text) : text[k] \in C
    BY <1>1, LenProperties, ElementOfSeq
  <2> QED
    BY <1>2, <2>1 DEF IsPlain, ToSet
<1>4. urldecode(UrlEncoded(text)) = text
  BY <1>1, <1>3, EncodedIsRead
<1> QED
  BY <1>1, <1>4 DEF text

-------------------------------------------------------------------------------
(* Fields. *)

\* A suffix ends as its text does.
LEMMA SuffixesEndAlike ==
  ASSUME NEW S, NEW s \in Seq(S), NEW t \in Seq(S), s # <<>>, IsSuffix(s, t)
  PROVE  Len(s) <= Len(t) /\ s[Len(s)] = t[Len(t)] /\ (Len(s) = Len(t) => s[1] = t[1])
<1> DEFINE m == Len(s)
           n == Len(t)
           a == Reverse(s)
           b == Reverse(t)
<1>1. m \in Nat /\ n \in Nat /\ m # 0 /\ \A k \in 1..m : s[k] \in S
  BY EmptySeq, LenProperties, ElementOfSeq
<1>2. \A k \in 1..n : t[k] \in S
  BY LenProperties, ElementOfSeq
<1>3. a = [k \in 1..m |-> s[(m - k) + 1]] /\ b = [k \in 1..n |-> t[(n - k) + 1]]
  BY DEF Reverse
<1>4. \A k \in 1..m : (m - k) + 1 \in 1..m
  BY <1>1
<1>5. \A k \in 1..n : (n - k) + 1 \in 1..n
  BY <1>1
<1> HIDE DEF m, n
<1>6. a \in [1..m -> S] /\ b \in [1..n -> S]
  BY <1>1, <1>2, <1>3, <1>4, <1>5
<1>7. a \in Seq(S) /\ Len(a) = m /\ b \in Seq(S) /\ Len(b) = n
  BY <1>1, <1>6
<1>8. m <= n /\ SubSeq(a, 1, m) = SubSeq(b, 1, m)
  <2>1. IsPrefix(a, b)
    BY DEF IsSuffix
  <2> QED
    BY <1>7, <2>1 DEF IsPrefix
<1>9. \A k \in 1..m : k \in 1..n /\ SubSeq(a, 1, m)[k] = a[k] /\ SubSeq(b, 1, m)[k] = b[k]
  BY <1>1, <1>7, <1>8
<1>10. 1 \in 1..m /\ m \in 1..m /\ 1 \in 1..n /\ (m - 1) + 1 = m /\ (n - 1) + 1 = n /\ (m - m) + 1 = 1
  BY <1>1, <1>8
<1>11. a[1] = b[1] /\ a[m] = b[m]
  BY <1>8, <1>9, <1>10
<1>12. a[1] = s[m] /\ b[1] = t[n] /\ a[m] = s[1]
  BY <1>3, <1>10
<1>13. m = n => b[m] = t[1]
  BY <1>3, <1>10
<1> QED
  BY <1>8, <1>11, <1>12, <1>13 DEF m, n

LEMMA OwnSuffix == ASSUME NEW S, NEW s \in Seq(S) PROVE IsSuffix(s, s)
<1> DEFINE a == Reverse(s)
<1>1. Len(s) \in Nat /\ a = [k \in 1..Len(s) |-> s[(Len(s) - k) + 1]]
  BY LenProperties DEF Reverse
<1>2. Len(a) = Len(s)
  BY <1>1
<1> HIDE DEF a
<1>3. IsPrefix(a, a)
  BY <1>1, <1>2 DEF IsPrefix
<1> QED
  BY <1>3 DEF a, IsSuffix

\* What is found in a form is in the first of its fields whose name ends so.
Named(find, f) == IsSuffix(find, f.name)
LEMMA FirstIsFound ==
  ASSUME NEW form, Len(form) \in Nat, NEW find, NEW k \in 1..Len(form),
         Named(find, form[k]), \A j \in 1..(k - 1) : ~Named(find, form[j])
  PROVE  findstr(form, find) = form[k].value
<1> DEFINE I == {i \in 1..Len(form) : IsSuffix(find, form[i].name)}
           field == SelectInSeq(form, LAMBDA f : IsSuffix(find, f.name))
<1>1. k \in I /\ \A i \in I : k <= i
  BY DEF Named
<1>2. \A i \in I : i \in Int
  OBVIOUS
<1>3. field = Min(I)
  BY <1>1 DEF SelectInSeq
<1> HIDE DEF I
<1>4. Min(I) = k
  <2>1. \A x \in I : (\A y \in I : x <= y) => x = k
    BY <1>1, <1>2
  <2> QED
    BY <1>1, <2>1 DEF Min
<1>5. field # 0 /\ field = k
  BY <1>3, <1>4
<1> HIDE DEF field
<1>6. findstr(form, find) = IF field = 0 THEN <<>> ELSE form[field].value
  BY DEF findstr, field
<1> QED
  BY <1>5, <1>6

LEMMA NoneIsFound ==
  ASSUME NEW form, NEW find, \A j \in 1..Len(form) : ~Named(find, form[j])
  PROVE  findstr(form, find) = <<>>
<1> DEFINE I == {i \in 1..Len(form) : IsSuffix(find, form[i].name)}
           field == SelectInSeq(form, LAMBDA f : IsSuffix(find, f.name))
<1>1. I = {}
  BY DEF Named
<1>2. field = 0
  BY <1>1 DEF SelectInSeq
<1> HIDE DEF field
<1>3. findstr(form, find) = IF field = 0 THEN <<>> ELSE form[field].value
  BY DEF findstr, field
<1> QED
  BY <1>2, <1>3

LEMMA SixteenBits == UnsignedInts \in Nat
  BY DEF UnsignedInts

LEMMA TicksAreRead == IsOn(On) = TRUE /\ IsOn(<<>>) = FALSE
<1>1. Len(On) = 2 /\ Len(<<>>) = 0
  BY DEF On
<1> QED
  BY <1>1 DEF IsOn, IsPrefix

\* Two parts of a form: what the first does not have is looked for in the second,
LEMMA FoundBehind ==
  ASSUME NEW S, NEW front \in Seq(S), NEW tail \in Seq(S), NEW find,
         \A j \in 1..Len(front) : ~Named(find, front[j])
  PROVE  findstr(front \o tail, find) = findstr(tail, find)
<1> DEFINE form == front \o tail
           m == Len(front)
           n == Len(tail)
           D == {j \in 1..n : Named(find, tail[j])}
<1>1. m \in Nat /\ n \in Nat /\ Len(form) = m + n
  OBVIOUS
<1>2. /\ \A j \in 1..m : form[j] = front[j]
      /\ \A j \in 1..n : form[m + j] = tail[j]
  OBVIOUS
<1>3. \A i \in 1..(m + n) : i \notin 1..m => i - m \in 1..n /\ m + (i - m) = i
  BY <1>1
<1>4. \A j \in 1..m : ~Named(find, front[j])
  OBVIOUS
<1> HIDE DEF form, m, n
<1>5. CASE D = {}
  <2>1. \A j \in 1..n : ~Named(find, tail[j])
    BY <1>5
  <2>2. \A i \in 1..Len(form) : ~Named(find, form[i])
    BY <1>1, <1>2, <1>3, <1>4, <2>1
  <2> QED
    BY <2>1, <2>2, NoneIsFound DEF form, n
<1>6. CASE D # {}
  <2>1. PICK k \in D : \A j \in 1..(k - 1) : j \notin D
    BY <1>1, <1>6, TheFirstOne
  <2>2. k \in 1..n /\ Named(find, tail[k]) /\ \A j \in 1..(k - 1) : ~Named(find, tail[j])
    BY <1>1, <2>1
  <2>3. findstr(tail, find) = tail[k].value
    BY <1>1, <2>2, FirstIsFound DEF n
  <2>4. m + k \in 1..Len(form) /\ Named(find, form[m + k])
    BY <1>1, <1>2, <2>2
  <2>5. ASSUME NEW i \in 1..(m + k - 1) PROVE ~Named(find, form[i])
    <3>1. CASE i \in 1..m
      BY <1>2, <1>4, <3>1
    <3>2. CASE i \notin 1..m
      <4>1. i - m \in 1..(k - 1) /\ i - m \in 1..n /\ m + (i - m) = i
        BY <1>1, <2>2, <3>2
      <4>2. ~Named(find, tail[i - m])
        BY <2>2, <4>1
      <4> QED
        BY <1>2, <4>1, <4>2
    <3> QED
      BY <3>1, <3>2
  <2>6. findstr(form, find) = form[m + k].value
    <3> DEFINE q == m + k
    <3>1. Len(form) \in Nat /\ q \in 1..Len(form) /\ Named(find, form[q])
      BY <1>1, <2>4
    <3>2. \A i \in 1..(q - 1) : ~Named(find, form[i])
      BY <1>1, <2>2, <2>5
    <3> HIDE DEF q
    <3>3. findstr(form, find) = form[q].value
      BY <3>1, <3>2, FirstIsFound
    <3> QED
      BY <3>3 DEF q
  <2>7. form[m + k] = tail[k]
    BY <1>2, <2>2
  <2> QED
    BY <2>3, <2>6, <2>7 DEF form
<1> QED
  BY <1>5, <1>6

\* and what it has is taken from it.
LEMMA FoundInFront ==
  ASSUME NEW S, NEW front \in Seq(S), NEW tail \in Seq(S), NEW find, NEW k \in 1..Len(front),
         Named(find, front[k]), \A j \in 1..(k - 1) : ~Named(find, front[j])
  PROVE  findstr(front \o tail, find) = front[k].value
<1> DEFINE form == front \o tail
<1>1. Len(form) \in Nat /\ k \in 1..Len(form) /\ form[k] = front[k]
  OBVIOUS
<1>2. \A j \in 1..(k - 1) : form[j] = front[j]
  OBVIOUS
<1> HIDE DEF form
<1>3. findstr(form, find) = form[k].value
  BY <1>1, <1>2, FirstIsFound
<1> QED
  BY <1>1, <1>3 DEF form

\* A tick is in the form or is not.
LEMMA TickIsFound ==
  ASSUME NEW name, NEW on \in BOOLEAN, NEW S, NEW tail \in Seq(S), Field(name, On) \in S,
         IsSuffix(name, name), \A j \in 1..Len(tail) : ~Named(name, tail[j])
  PROVE  IsOn(findstr(CheckBox(name, on) \o tail, name)) = on
<1> DEFINE f == Field(name, On)
<1>1. f.name = name /\ f.value = On
  BY DEF Field
<1>2. Named(name, f)
  BY <1>1 DEF Named
<1> HIDE DEF f
<1>3. CASE on = TRUE
  <2>1. CheckBox(name, on) = <<f>>
    BY <1>3 DEF CheckBox, f
  <2>2. <<f>> \in Seq(S) /\ Len(<<f>>) = 1 /\ <<f>>[1] = f
    BY DEF f
  <2>3. findstr(<<f>> \o tail, name) = f.value
    <3> DEFINE front == <<f>>
               k == 1
    <3>1. front \in Seq(S) /\ k \in 1..Len(front) /\ front[k] = f /\ 1..(k - 1) = {}
      BY <2>2
    <3> HIDE DEF front, k
    <3>2. findstr(front \o tail, name) = front[k].value
      BY <1>2, <3>1, FoundInFront
    <3> QED
      BY <3>1, <3>2 DEF front
  <2> QED
    BY <1>1, <1>3, <2>1, <2>3, TicksAreRead
<1>4. CASE on = FALSE
  <2>1. CheckBox(name, on) = <<>> /\ <<>> \o tail = tail
    BY <1>4 DEF CheckBox
  <2>2. findstr(tail, name) = <<>>
    BY NoneIsFound
  <2> QED
    BY <1>4, <2>1, <2>2, TicksAreRead
<1> QED
  BY <1>3, <1>4

\* It does not keep another field from being found.
LEMMA BehindTheTick ==
  ASSUME NEW name, NEW on \in BOOLEAN, NEW S, NEW tail \in Seq(S), Field(name, On) \in S,
         NEW find, ~IsSuffix(find, name)
  PROVE  findstr(CheckBox(name, on) \o tail, find) = findstr(tail, find)
<1> DEFINE front == CheckBox(name, on)
<1>1. front \in Seq(S) /\ \A j \in 1..Len(front) : front[j] = Field(name, On)
  BY DEF CheckBox
<1>2. ~Named(find, Field(name, On))
  BY DEF Named, Field
<1> HIDE DEF front
<1>3. findstr(front \o tail, find) = findstr(tail, find)
  BY <1>1, <1>2, FoundBehind
<1> QED
  BY <1>3 DEF front
===============================================================================

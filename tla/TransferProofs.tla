--------------------------- MODULE TransferProofs ---------------------------
(***************************************************************************)
(* One connection, for every size of the buffers, all widths and any       *)
(* sequences of messages: what is handled is what was sent, wherever the   *)
(* stream is cut, and the rows of a segment arrive cell by cell.  The      *)
(* invariant places the buffer and the stream in the bytes of all          *)
(* messages; a message is read back because each value is found where the  *)
(* Deserializer has got to.                                                *)
(***************************************************************************)
EXTENDS Transfer, NumberTheorems, SequenceTheorems

-----------------------------------------------------------------------------
\* Sequences put together from pieces.

\* f[i] is f[0] with the first i pieces behind it.
Grows(f, vs, n) == \A i \in 1 .. n : f[i] = f[i - 1] \o vs[i]

\* f[i] is what FlattenSeq has made of the first i pieces.
Flats(f, vs, S) ==
    /\ f \in [0 .. Len(vs) -> Seq(S)]
    /\ f[0] = <<>>
    /\ Grows(f, vs, Len(vs))
    /\ FlattenSeq(vs) = f[Len(vs)]

\* The first n pieces can be put together.
Joined(vs, S, n) ==
    \E f \in [0 .. n -> Seq(S)] : f[0] = <<>> /\ \A i \in 1 .. n : f[i] = f[i - 1] \o vs[i]

LEMMA JoinedExists ==
    ASSUME NEW S, NEW vs \in Seq(Seq(S))
    PROVE  Joined(vs, S, Len(vs))
<1> DEFINE N == Len(vs)
<1>1. N \in Nat /\ \A i \in 1 .. N : vs[i] \in Seq(S)
    OBVIOUS
<1> HIDE DEF N
<1>2. Joined(vs, S, 0)
    <2> DEFINE f == [i \in 0 .. 0 |-> <<>>]
    <2>1. f \in [0 .. 0 -> Seq(S)] /\ f[0] = <<>>
        OBVIOUS
    <2> HIDE DEF f
    <2> QED
        BY <2>1 DEF Joined
<1>3. ASSUME NEW n \in Nat, n + 1 <= N, Joined(vs, S, n)
      PROVE  Joined(vs, S, n + 1)
    <2>1. PICK f \in [0 .. n -> Seq(S)] :
              f[0] = <<>> /\ \A i \in 1 .. n : f[i] = f[i - 1] \o vs[i]
        BY <1>3 DEF Joined
    <2> DEFINE g == [i \in 0 .. n + 1 |-> IF i = n + 1 THEN f[n] \o vs[n + 1] ELSE f[i]]
    <2>2. g \in [0 .. n + 1 -> Seq(S)]
        <3>1. f[n] \o vs[n + 1] \in Seq(S)
            BY <1>1, <1>3
        <3>2. \A i \in 0 .. n + 1 : i # n + 1 => f[i] \in Seq(S)
            OBVIOUS
        <3> QED
            BY <3>1, <3>2
    <2>3. g[0] = <<>>
        BY <2>1
    <2>4. ASSUME NEW i \in 1 .. n + 1 PROVE g[i] = g[i - 1] \o vs[i]
        <3>1. CASE i = n + 1
            <4>1. i - 1 = n /\ i \in 0 .. n + 1 /\ n \in 0 .. n + 1 /\ n # n + 1
                BY <3>1
            <4>2. g[i] = f[n] \o vs[n + 1] /\ g[n] = f[n]
                BY <3>1, <4>1
            <4> HIDE DEF g
            <4> QED
                BY <3>1, <4>1, <4>2
        <3>2. CASE i \in 1 .. n
            <4>1. i \in 0 .. n + 1 /\ i - 1 \in 0 .. n + 1 /\ i # n + 1 /\ i - 1 # n + 1
                BY <3>2
            <4>2. g[i] = f[i] /\ g[i - 1] = f[i - 1]
                BY <4>1
            <4> HIDE DEF g
            <4> QED
                BY <4>2, <3>2, <2>1
        <3> HIDE DEF g
        <3>3. i = n + 1 \/ i \in 1 .. n
            OBVIOUS
        <3> QED
            BY <3>1, <3>2, <3>3, Zenon
    <2> HIDE DEF g
    <2> QED
        BY <2>2, <2>3, <2>4 DEF Joined
<1> DEFINE T == {n \in Nat : n <= N => Joined(vs, S, n)}
<1>4. 0 \in T
    BY <1>2
<1>5. ASSUME NEW n \in Nat, n \in T PROVE n + 1 \in T
    BY <1>3, <1>5, <1>1
<1> HIDE DEF T
<1>6. N \in T
    BY <1>1, <1>4, <1>5, InductionSet
<1> QED
    BY <1>6, <1>1 DEF T, N

LEMMA FlatsExist ==
    ASSUME NEW S, NEW vs \in Seq(Seq(S))
    PROVE  \E f : Flats(f, vs, S)
<1> DEFINE N == Len(vs)
           P(g) == g = [i \in 1 .. N |-> IF i = 1 THEN vs[i] ELSE g[i - 1] \o vs[i]]
           h == CHOOSE g : P(g)
<1>1. N \in Nat /\ \A i \in 1 .. N : vs[i] \in Seq(S)
    OBVIOUS
<1>2. PICK f \in [0 .. N -> Seq(S)] :
          f[0] = <<>> /\ \A i \in 1 .. N : f[i] = f[i - 1] \o vs[i]
    BY JoinedExists DEF Joined
<1>3. N # 0 => FlattenSeq(vs) = h[N]
    BY <1>1 DEF FlattenSeq
<1>4. N = 0 => FlattenSeq(vs) = <<>>
    BY <1>1 DEF FlattenSeq
<1>5. ASSUME 1 \in 1 .. N PROVE f[1] = vs[1]
    <2>1. f[1] = <<>> \o vs[1] /\ vs[1] \in Seq(S)
        BY <1>1, <1>2, <1>5, 1 - 1 = 0
    <2> QED
        BY <2>1
<1>6. P([i \in 1 .. N |-> f[i]])
    <2> DEFINE g == [i \in 1 .. N |-> f[i]]
    <2>1. ASSUME NEW i \in 1 .. N
          PROVE  g[i] = IF i = 1 THEN vs[i] ELSE g[i - 1] \o vs[i]
        <3>1. CASE i = 1
            BY <3>1, <1>5
        <3>2. CASE i # 1
            <4>1. i - 1 \in 1 .. N
                BY <3>2
            <4>2. g[i] = f[i] /\ g[i - 1] = f[i - 1]
                BY <4>1
            <4> QED
                BY <4>2, <3>2, <1>2
        <3> QED
            BY <3>1, <3>2
    <2> QED
        BY <2>1
<1>7. P(h)
    BY <1>6
<1> HIDE DEF h
<1> DEFINE T == {n \in Nat : n \in 1 .. N => h[n] = f[n]}
<1>8. 0 \in T
    OBVIOUS
<1>9. ASSUME NEW n \in Nat, n \in T PROVE n + 1 \in T
    <2> SUFFICES ASSUME n + 1 \in 1 .. N PROVE h[n + 1] = f[n + 1]
        OBVIOUS
    <2>1. CASE n = 0
        <3>1. h[1] = vs[1]
            BY <1>7, <2>1
        <3> QED
            BY <3>1, <1>5, <2>1
    <2>2. CASE n # 0
        <3>1. n \in 1 .. N /\ (n + 1) - 1 = n /\ n + 1 # 1
            BY <2>2
        <3>2. h[n + 1] = h[n] \o vs[n + 1]
            BY <1>7, <3>1
        <3>3. f[n + 1] = f[n] \o vs[n + 1]
            BY <1>2, <3>1
        <3> QED
            BY <3>1, <3>2, <3>3, <1>9
    <2> QED
        BY <2>1, <2>2
<1> HIDE DEF T
<1>10. N \in T
    BY <1>1, <1>8, <1>9, InductionSet
<1>11. FlattenSeq(vs) = f[N]
    BY <1>1, <1>2, <1>3, <1>4, <1>10 DEF T
<1> QED
    BY <1>2, <1>11 DEF Flats, Grows

\* What Flats says, with the number of pieces under a name of its own.
LEMMA FlatsFacts ==
    ASSUME NEW S, NEW vs, NEW N \in Nat, Len(vs) = N, NEW f, Flats(f, vs, S)
    PROVE  /\ f[0] = <<>>
           /\ Grows(f, vs, N)
           /\ \A i \in 0 .. N : f[i] \in Seq(S)
           /\ f[N] \in Seq(S)
           /\ FlattenSeq(vs) = f[N]
BY DEF Flats

\* There is only one such row of sequences.
LEMMA GrowsUnique ==
    ASSUME NEW N \in Nat, NEW vs, NEW f, Grows(f, vs, N), NEW g, Grows(g, vs, N), g[0] = f[0]
    PROVE  g[N] = f[N]
<1> DEFINE T == {n \in Nat : n <= N => g[n] = f[n]}
<1>1. 0 \in T
    OBVIOUS
<1>2. ASSUME NEW n \in Nat, n \in T PROVE n + 1 \in T
    <2> SUFFICES ASSUME n + 1 <= N PROVE g[n + 1] = f[n + 1]
        OBVIOUS
    <2>1. n + 1 \in 1 .. N /\ (n + 1) - 1 = n /\ g[n] = f[n]
        BY <1>2
    <2> QED
        BY <2>1 DEF Grows
<1> HIDE DEF T
<1>3. N \in T
    BY <1>1, <1>2, InductionSet
<1> QED
    BY <1>3 DEF T

LEMMA FlattenType ==
    ASSUME NEW S, NEW vs \in Seq(Seq(S))
    PROVE  FlattenSeq(vs) \in Seq(S)
<1>1. PICK f : Flats(f, vs, S)
    BY FlatsExist
<1>2. Len(vs) \in Nat
    OBVIOUS
<1> QED
    BY <1>1, <1>2, FlatsFacts

LEMMA FlattenEmpty == FlattenSeq(<<>>) = <<>>
BY DEF FlattenSeq

LEMMA ThreeConcat ==
    ASSUME NEW S, NEW x \in Seq(S), NEW y \in Seq(S), NEW z \in Seq(S)
    PROVE  (x \o y) \o z = x \o (y \o z)
BY ConcatAssociative

LEMMA FlattenOne ==
    ASSUME NEW S, NEW x \in Seq(S)
    PROVE  FlattenSeq(<<x>>) = x
<1> DEFINE vs == <<x>>
           N == 1
<1>1. vs \in Seq(Seq(S)) /\ Len(vs) = N /\ vs[1] = x /\ N \in Nat
    OBVIOUS
<1> HIDE DEF vs, N
<1>2. PICK f : Flats(f, vs, S)
    BY <1>1, FlatsExist
<1>3. f[0] = <<>> /\ Grows(f, vs, N) /\ FlattenSeq(vs) = f[N]
    BY <1>1, <1>2, FlatsFacts
<1>4. f[1] = f[0] \o x
    BY <1>1, <1>3, 1 - 1 = 0, 1 \in 1 .. 1 DEF Grows, N
<1> QED
    BY <1>3, <1>4 DEF vs, N

\* A row of sequences goes on behind another.
Chain(h, ws, n, S) ==
    /\ Grows(h, ws, n)
    /\ \A j \in 1 .. n : ws[j] \in Seq(S)
    /\ \A j \in 0 .. n : h[j] \in Seq(S)

LEMMA GrowsBehind ==
    ASSUME NEW S, NEW M \in Nat, NEW ws, NEW h, Chain(h, ws, M, S), h[0] = <<>>,
           NEW a \in Seq(S), NEW e, e[0] = a, Grows(e, ws, M)
    PROVE  e[M] = a \o h[M]
<1> DEFINE T == {j \in Nat : j <= M => e[j] = a \o h[j]}
<1>1. 0 \in T
    OBVIOUS
<1>2. ASSUME NEW j \in Nat, j \in T PROVE j + 1 \in T
    <2> SUFFICES ASSUME j + 1 <= M PROVE e[j + 1] = a \o h[j + 1]
        OBVIOUS
    <2>1. j + 1 \in 1 .. M /\ j \in 0 .. M /\ (j + 1) - 1 = j /\ e[j] = a \o h[j]
        BY <1>2
    <2> HIDE DEF T
    <2>2. e[j + 1] = e[j] \o ws[j + 1] /\ h[j + 1] = h[j] \o ws[j + 1]
        BY <2>1 DEF Grows, Chain
    <2>3. ws[j + 1] \in Seq(S) /\ h[j] \in Seq(S)
        BY <2>1 DEF Chain
    <2> DEFINE x == h[j]
               y == ws[j + 1]
    <2>4. x \in Seq(S) /\ y \in Seq(S) /\ a \in Seq(S)
        BY <2>3
    <2> HIDE DEF x, y
    <2>5. (a \o x) \o y = a \o (x \o y)
        BY <2>4, SMTT(20)
    <2> QED
        BY <2>1, <2>2, <2>5 DEF x, y
<1> HIDE DEF T
<1>3. M \in T
    BY <1>1, <1>2, InductionSet
<1> QED
    BY <1>3 DEF T

\* Pieces are put together in two parts.
LEMMA FlattenConcat ==
    ASSUME NEW S, NEW vs \in Seq(Seq(S)), NEW ws \in Seq(Seq(S))
    PROVE  FlattenSeq(vs \o ws) = FlattenSeq(vs) \o FlattenSeq(ws)
<1> DEFINE N == Len(vs)
           M == Len(ws)
           us == vs \o ws
<1>1. N \in Nat /\ M \in Nat /\ us \in Seq(Seq(S)) /\ Len(us) = N + M
      /\ Len(vs) = N /\ Len(ws) = M /\ N + M \in Nat
    OBVIOUS
<1>2. /\ \A i \in 1 .. N : us[i] = vs[i]
      /\ \A j \in 1 .. M : us[N + j] = ws[j] /\ ws[j] \in Seq(S)
    OBVIOUS
<1>3. PICK f : Flats(f, us, S)
    BY <1>1, FlatsExist
<1>4. PICK g : Flats(g, vs, S)
    BY FlatsExist
<1>5. PICK h : Flats(h, ws, S)
    BY FlatsExist
<1> HIDE DEF us, N, M
<1>6. f[0] = <<>> /\ Grows(f, us, N + M) /\ FlattenSeq(us) = f[N + M]
    BY <1>1, <1>3, FlatsFacts
<1>7. g[0] = <<>> /\ Grows(g, vs, N) /\ g[N] \in Seq(S) /\ FlattenSeq(vs) = g[N]
    BY <1>1, <1>4, FlatsFacts
<1>8. /\ h[0] = <<>> /\ Grows(h, ws, M) /\ FlattenSeq(ws) = h[M]
      /\ \A j \in 0 .. M : h[j] \in Seq(S)
    BY <1>1, <1>5, FlatsFacts
<1>9. f[N] = g[N]
    <2>1. ASSUME NEW i \in 1 .. N PROVE f[i] = f[i - 1] \o vs[i]
        <3>1. i \in 1 .. N + M
            BY <1>1
        <3> QED
            BY <3>1, <1>2, <1>6 DEF Grows
    <2>2. Grows(f, vs, N)
        BY <2>1 DEF Grows
    <2> QED
        BY <1>1, <1>6, <1>7, <2>2, GrowsUnique
<1> DEFINE e == [j \in 0 .. M |-> f[N + j]]
<1>10. e[0] = g[N] /\ e[M] = f[N + M]
    BY <1>1, <1>9
<1>11. ASSUME NEW j \in 1 .. M PROVE e[j] = e[j - 1] \o ws[j]
    <2> DEFINE k == N + j
    <2>1. k \in 1 .. N + M /\ k - 1 = N + (j - 1) /\ j - 1 \in 0 .. M /\ j \in 0 .. M
        BY <1>1
    <2>2. e[j] = f[k] /\ e[j - 1] = f[k - 1] /\ us[k] = ws[j]
        BY <2>1, <1>2
    <2> HIDE DEF k, e
    <2> QED
        BY <2>1, <2>2, <1>6 DEF Grows
<1> HIDE DEF e
<1>12. Grows(e, ws, M)
    BY <1>11 DEF Grows
<1>13. e[M] = g[N] \o h[M]
    <2> DEFINE a == g[N]
    <2>1. a \in Seq(S) /\ e[0] = a
        BY <1>7, <1>10
    <2>2. Chain(h, ws, M, S)
        BY <1>2, <1>8 DEF Chain
    <2> HIDE DEF a
    <2>3. e[M] = a \o h[M]
        BY <1>1, <1>8, <1>12, <2>1, <2>2, GrowsBehind
    <2> QED
        BY <2>3 DEF a
<1> QED
    BY <1>6, <1>7, <1>8, <1>10, <1>13 DEF us

LEMMA Pair ==
    ASSUME NEW x, NEW y
    PROVE  <<x, y>> = <<x>> \o <<y>>
<1> DEFINE A == {x, y}
           s == <<x, y>>
           t == <<x>> \o <<y>>
<1>1. x \in A /\ y \in A
    OBVIOUS
<1> HIDE DEF A
<1>2. s \in Seq(A) /\ Len(s) = 2 /\ s[1] = x /\ s[2] = y
    BY <1>1
<1>3. <<x>> \in Seq(A) /\ <<y>> \in Seq(A)
      /\ Len(<<x>>) = 1 /\ Len(<<y>>) = 1 /\ <<x>>[1] = x /\ <<y>>[1] = y
    BY <1>1
<1>4. t \in Seq(A) /\ Len(t) = 2 /\ t[1] = x /\ t[2] = y
    BY <1>3
<1> HIDE DEF s, t
<1>5. \A i \in 1 .. Len(s) : s[i] = t[i]
    BY <1>2, <1>4
<1>6. s = t
    BY <1>2, <1>4, <1>5, SeqEqual
<1> QED
    BY <1>6 DEF s, t

LEMMA FlattenTwo ==
    ASSUME NEW S, NEW x \in Seq(S), NEW y \in Seq(S)
    PROVE  FlattenSeq(<<x, y>>) = x \o y
<1>1. <<x>> \in Seq(Seq(S)) /\ <<y>> \in Seq(Seq(S))
    OBVIOUS
<1>2. <<x, y>> = <<x>> \o <<y>>
    BY Pair
<1>3. FlattenSeq(<<x>> \o <<y>>) = FlattenSeq(<<x>>) \o FlattenSeq(<<y>>)
    BY <1>1, FlattenConcat
<1>4. FlattenSeq(<<x>>) = x /\ FlattenSeq(<<y>>) = y
    BY FlattenOne
<1> QED
    BY <1>2, <1>3, <1>4

\* Pieces that are put together from pieces.
LEMMA FlattenNested ==
    ASSUME NEW S, NEW xs \in Seq(Seq(Seq(S)))
    PROVE  /\ [i \in 1 .. Len(xs) |-> FlattenSeq(xs[i])] \in Seq(Seq(S))
           /\ FlattenSeq(FlattenSeq(xs)) = FlattenSeq([i \in 1 .. Len(xs) |-> FlattenSeq(xs[i])])
<1> DEFINE N == Len(xs)
           ys == [i \in 1 .. N |-> FlattenSeq(xs[i])]
<1>1. N \in Nat /\ \A i \in 1 .. N : xs[i] \in Seq(Seq(S)) /\ FlattenSeq(xs[i]) \in Seq(S)
    BY FlattenType
<1>2. ys \in Seq(Seq(S)) /\ Len(ys) = N /\ \A i \in 1 .. N : ys[i] = FlattenSeq(xs[i])
    BY <1>1
<1>3. PICK f : Flats(f, xs, Seq(S))
    BY FlatsExist
<1>4. PICK h : Flats(h, ys, S)
    BY <1>2, FlatsExist
<1>5. N \in Nat /\ Len(xs) = N /\ Len(ys) = N
    BY <1>1, <1>2
<1> HIDE DEF ys, N
<1>6. /\ f[0] = <<>> /\ Grows(f, xs, N) /\ FlattenSeq(xs) = f[N]
      /\ \A i \in 0 .. N : f[i] \in Seq(Seq(S))
    BY <1>3, <1>5, FlatsFacts
<1>7. h[0] = <<>> /\ Grows(h, ys, N) /\ FlattenSeq(ys) = h[N]
    BY <1>4, <1>5, FlatsFacts
<1> DEFINE T == {n \in Nat : n <= N => FlattenSeq(f[n]) = h[n]}
<1>8. 0 \in T
    BY <1>6, <1>7, FlattenEmpty
<1>9. ASSUME NEW n \in Nat, n \in T PROVE n + 1 \in T
    <2> SUFFICES ASSUME n + 1 <= N PROVE FlattenSeq(f[n + 1]) = h[n + 1]
        OBVIOUS
    <2>1. n + 1 \in 1 .. N /\ (n + 1) - 1 = n /\ n \in 0 .. N /\ FlattenSeq(f[n]) = h[n]
        BY <1>5, <1>9
    <2>2. f[n + 1] = f[n] \o xs[n + 1] /\ h[n + 1] = h[n] \o ys[n + 1]
        BY <1>6, <1>7, <2>1 DEF Grows
    <2>3. f[n] \in Seq(Seq(S)) /\ xs[n + 1] \in Seq(Seq(S)) /\ ys[n + 1] = FlattenSeq(xs[n + 1])
        BY <1>1, <1>2, <1>6, <2>1
    <2>4. FlattenSeq(f[n] \o xs[n + 1]) = FlattenSeq(f[n]) \o FlattenSeq(xs[n + 1])
        BY <2>3, FlattenConcat
    <2> QED
        BY <2>1, <2>2, <2>3, <2>4
<1> HIDE DEF T
<1>10. N \in T
    BY <1>5, <1>8, <1>9, InductionSet
<1> QED
    BY <1>2, <1>5, <1>6, <1>7, <1>10 DEF ys, T

-----------------------------------------------------------------------------
\* Values as bytes, and a Deserializer where it finds them.

Data == Int \cup BOOLEAN \cup STRING \cup {NoHome, Nul} \cup MsgKind \cup ColumnTypes
Tags == {"size_t", "int", "bool", "double", "enum", "char", "address"}
Byte == Tags \X Data \X Nat

LEMMA Widths ==
    /\ SizeT \in Nat \ {0} /\ IntSize \in Nat \ {0} /\ DoubleSize \in Nat \ {0}
    /\ AddressBytes \in Nat \ {0}
    /\ HeaderSize \in Nat \ {0} /\ HeaderSize = IntSize + (4 * SizeT)
BY WidthsAssumption, AddressAssumption DEF HeaderSize

LEMMA BytesFacts ==
    ASSUME NEW tag \in Tags, NEW v \in Data, NEW w \in Nat
    PROVE  /\ Bytes(tag, v, w) \in Seq(Byte)
           /\ Len(Bytes(tag, v, w)) = w
           /\ \A i \in 1 .. w : Bytes(tag, v, w)[i] = <<tag, v, i>>
<1> DEFINE s == Bytes(tag, v, w)
<1>1. ASSUME NEW i \in 1 .. w PROVE s[i] = <<tag, v, i>> /\ s[i] \in Byte
    <2>1. s[i] = <<tag, v, i>>
        BY DEF Bytes
    <2>2. i \in Nat
        OBVIOUS
    <2>3. <<tag, v, i>> \in Byte
        BY <2>2 DEF Byte
    <2> QED
        BY <2>1, <2>3
<1>2. s = [i \in 1 .. w |-> s[i]]
    BY Zenon DEF Bytes
<1> HIDE DEF s
<1>3. s \in Seq(Byte) /\ Len(s) = w
    BY <1>1, <1>2
<1> QED
    BY <1>1, <1>3 DEF s

\* The bytes b hold those of s behind the first k.
Reads(b, k, s) ==
    /\ b \in Seq(Byte) /\ k \in Nat
    /\ k + Len(s) <= Len(b)
    /\ \A i \in 1 .. Len(s) : b[k + i] = s[i]

\* A Deserializer over b that has got to k and has read x.
At(b, k, x) == [bytes |-> b, off |-> k, val |-> x]

LEMMA AtFields ==
    ASSUME NEW b, NEW k, NEW x
    PROVE  At(b, k, x).bytes = b /\ At(b, k, x).off = k /\ At(b, k, x).val = x
BY DEF At

\* What the operators of Serializer make of a Deserializer.
Moved(d, n, v) == [d EXCEPT !.off = n, !.val = v]
Skipped(d, n)  == [d EXCEPT !.off = n]
Valued(d, v)   == [d EXCEPT !.val = v]

LEMMA AtExcept ==
    ASSUME NEW b, NEW k, NEW x, NEW n, NEW v
    PROVE  /\ Moved(At(b, k, x), n, v) = At(b, n, v)
           /\ Skipped(At(b, k, x), n) = At(b, n, x)
           /\ Valued(At(b, k, x), v) = At(b, k, v)
<1> DEFINE A == {b, k, x, n, v}
           r == At(b, k, x)
           s == [r EXCEPT !.off = n, !.val = v]
<1>1. r \in [bytes : A, off : A, val : A] /\ n \in A /\ v \in A /\ r.bytes = b
    BY DEF At
<1> HIDE DEF A, r
<1>2. s.bytes = r.bytes /\ s.off = n /\ s.val = v /\ s \in [bytes : A, off : A, val : A]
    BY <1>1
<1> HIDE DEF s
<1>3. s = [bytes |-> s.bytes, off |-> s.off, val |-> s.val]
    BY <1>2
<1>4. s = At(b, n, v)
    BY <1>1, <1>2, <1>3 DEF At
<1>5. [At(b, k, x) EXCEPT !.off = n] = At(b, n, x)
    BY DEF At
<1>6. [At(b, k, x) EXCEPT !.val = v] = At(b, k, v)
    BY DEF At
<1> QED
    BY <1>4, <1>5, <1>6, Zenon DEF s, r, Moved, Skipped, Valued

LEMMA AtMoved ==
    ASSUME NEW b, NEW k, NEW x, NEW n, NEW v
    PROVE  Moved(At(b, k, x), n, v) = At(b, n, v)
BY AtExcept

LEMMA AtSkipped ==
    ASSUME NEW b, NEW k, NEW x, NEW n
    PROVE  Skipped(At(b, k, x), n) = At(b, n, x)
BY AtExcept

LEMMA AtValued ==
    ASSUME NEW b, NEW k, NEW x, NEW v
    PROVE  Valued(At(b, k, x), v) = At(b, k, v)
BY AtExcept

LEMMA NewAt ==
    ASSUME NEW b
    PROVE  NewDeserializer(b) = At(b, 0, 0)
BY DEF NewDeserializer, At

\* A value is read where its bytes are.
LEMMA GetReads ==
    ASSUME NEW b, NEW k, NEW x, NEW tag \in Tags, NEW v \in Data, NEW w \in Nat \ {0},
           NEW garbage, Reads(b, k, Bytes(tag, v, w))
    PROVE  Get(At(b, k, x), tag, w, garbage) = At(b, k + w, v)
<1> DEFINE d == At(b, k, x)
           part == SubSeq(d.bytes, d.off + 1, d.off + w)
           one == /\ BytesLeft(d) >= w
                  /\ \A i \in 1 .. w : part[i] = <<tag, part[1][2], i>>
<1>1. b \in Seq(Byte) /\ k \in Nat /\ k + w <= Len(b)
      /\ \A i \in 1 .. w : b[k + i] = <<tag, v, i>>
    BY BytesFacts DEF Reads
<1>2. d.bytes = b /\ d.off = k
    BY AtFields
<1> HIDE DEF d, part
<1>3. \A i \in 1 .. w : part[i] = <<tag, v, i>>
    <2>1. part = SubSeq(b, k + 1, k + w)
        BY <1>2 DEF part
    <2>2. \A i \in k + 1 .. k + w : b[i] \in Byte
        BY <1>1
    <2>3. \A i \in 1 .. w : SubSeq(b, k + 1, k + w)[i] = b[k + i]
        BY <1>1, <2>2
    <2> QED
        BY <1>1, <2>1, <2>3
<1>4. part[1][2] = v
    <2>1. part[1] = <<tag, v, 1>>
        BY <1>3, 1 \in 1 .. w
    <2> QED
        BY <2>1
<1>5. BytesLeft(d) >= w
    BY <1>1, <1>2 DEF BytesLeft
<1>6. one
    BY <1>3, <1>4, <1>5
<1>7. Get(d, tag, w, garbage) = [d EXCEPT !.off = @ + w, !.val = v]
    <2>1. Get(d, tag, w, garbage) =
              [d EXCEPT !.off = @ + w, !.val = IF one THEN part[1][2] ELSE garbage]
        BY Zenon DEF Get, part
    <2> QED
        BY <2>1, <1>4, <1>6, Zenon
<1>8. [d EXCEPT !.off = @ + w, !.val = v] = Moved(d, d.off + w, v)
    BY Zenon DEF Moved
<1>9. Moved(At(b, k, x), k + w, v) = At(b, k + w, v)
    BY AtExcept
<1> QED
    BY <1>2, <1>7, <1>8, <1>9 DEF d

\* Two parts are found one behind the other.
LEMMA ReadsConcat ==
    ASSUME NEW b, NEW k, NEW s \in Seq(Byte), NEW t \in Seq(Byte), Reads(b, k, s \o t)
    PROVE  /\ Reads(b, k, s) /\ Reads(b, k + Len(s), t)
           /\ Len(s) \in Nat /\ Len(t) \in Nat /\ Len(s \o t) = Len(s) + Len(t)
<1>1. /\ Len(s) \in Nat /\ Len(t) \in Nat /\ Len(s \o t) = Len(s) + Len(t)
      /\ \A i \in 1 .. Len(s) : (s \o t)[i] = s[i]
      /\ \A i \in 1 .. Len(t) : (s \o t)[Len(s) + i] = t[i]
    OBVIOUS
<1>2. b \in Seq(Byte) /\ k \in Nat /\ Len(b) \in Nat /\ k + (Len(s) + Len(t)) <= Len(b)
    BY <1>1 DEF Reads
<1>3. \A i \in 1 .. Len(s) + Len(t) : b[k + i] = (s \o t)[i]
    BY <1>1 DEF Reads
<1>4. ASSUME NEW i \in 1 .. Len(s) PROVE b[k + i] = s[i]
    BY <1>1, <1>3
<1>5. ASSUME NEW i \in 1 .. Len(t) PROVE b[(k + Len(s)) + i] = t[i]
    <2>1. Len(s) + i \in 1 .. Len(s) + Len(t) /\ (k + Len(s)) + i = k + (Len(s) + i)
        BY <1>1, <1>2
    <2> QED
        BY <2>1, <1>1, <1>3
<1> QED
    <2>1. Reads(b, k, s)
        BY <1>1, <1>2, <1>4 DEF Reads
    <2>2. Reads(b, k + Len(s), t)
        BY <1>1, <1>2, <1>5 DEF Reads
    <2> QED
        BY <1>1, <2>1, <2>2, Zenon

LEMMA ReadsFlat ==
    ASSUME NEW b, NEW k, NEW vs \in Seq(Seq(Byte)), NEW f, Flats(f, vs, Byte),
           Reads(b, k, FlattenSeq(vs))
    PROVE  /\ \A i \in 1 .. Len(vs) : Reads(b, k + Len(f[i - 1]), vs[i])
           /\ \A i \in 1 .. Len(vs) : Len(f[i]) = Len(f[i - 1]) + Len(vs[i])
           /\ \A i \in 0 .. Len(vs) : Len(f[i]) \in Nat
           /\ Len(f[0]) = 0
           /\ k \in Nat
<1> DEFINE N == Len(vs)
<1>1. N \in Nat /\ Len(vs) = N /\ \A i \in 1 .. N : vs[i] \in Seq(Byte)
    OBVIOUS
<1> HIDE DEF N
<1>2. /\ f[0] = <<>> /\ Grows(f, vs, N) /\ FlattenSeq(vs) = f[N]
      /\ \A i \in 0 .. N : f[i] \in Seq(Byte)
    BY <1>1, FlatsFacts
<1>3. ASSUME NEW i \in 1 .. N PROVE f[i] = f[i - 1] \o vs[i] /\ f[i - 1] \in Seq(Byte)
    <2>1. i - 1 \in 0 .. N
        BY <1>1
    <2> QED
        BY <2>1, <1>2 DEF Grows
<1> DEFINE T == {j \in Nat : j <= N => Reads(b, k, f[N - j])}
<1>4. 0 \in T
    BY <1>1, <1>2
<1>5. ASSUME NEW j \in Nat, j \in T PROVE j + 1 \in T
    <2> SUFFICES ASSUME j + 1 <= N PROVE Reads(b, k, f[N - (j + 1)])
        OBVIOUS
    <2> DEFINE i == N - j
    <2>1. i \in 1 .. N /\ N - (j + 1) = i - 1 /\ Reads(b, k, f[i])
        BY <1>1, <1>5
    <2> HIDE DEF i, T
    <2>2. Reads(b, k, f[i - 1] \o vs[i]) /\ f[i - 1] \in Seq(Byte) /\ vs[i] \in Seq(Byte)
        BY <1>1, <1>3, <2>1
    <2>3. Reads(b, k, f[i - 1])
        BY <2>2, ReadsConcat
    <2> QED
        BY <2>1, <2>3
<1> HIDE DEF T
<1>6. \A j \in Nat : j \in T
    BY <1>4, <1>5, InductionSet
<1>7. ASSUME NEW i \in 1 .. N
      PROVE  Reads(b, k + Len(f[i - 1]), vs[i]) /\ Len(f[i]) = Len(f[i - 1]) + Len(vs[i])
    <2>1. N - i \in Nat /\ N - i <= N /\ N - (N - i) = i
        BY <1>1
    <2>2. Reads(b, k, f[i])
        BY <2>1, <1>6 DEF T
    <2>3. f[i] = f[i - 1] \o vs[i] /\ f[i - 1] \in Seq(Byte) /\ vs[i] \in Seq(Byte)
        BY <1>1, <1>3
    <2> DEFINE s == f[i - 1]
               t == vs[i]
    <2>4. s \in Seq(Byte) /\ t \in Seq(Byte) /\ Reads(b, k, s \o t) /\ f[i] = s \o t
        BY <2>2, <2>3
    <2> HIDE DEF s, t
    <2>5. Reads(b, k + Len(s), t)
        BY <2>4, ReadsConcat
    <2>6. Len(s \o t) = Len(s) + Len(t)
        BY <2>4
    <2> QED
        BY <2>4, <2>5, <2>6 DEF s, t
<1>8. Len(f[0]) = 0 /\ \A i \in 0 .. N : Len(f[i]) \in Nat
    BY <1>2
<1>9. k \in Nat
    BY DEF Reads
<1> QED
    BY <1>1, <1>7, <1>8, <1>9

-----------------------------------------------------------------------------
\* The values of one kind, and a number of values in a row.

LEMMA SizeReads ==
    ASSUME NEW b, NEW k, NEW x, NEW v \in Data, Reads(b, k, SizeBytes(v))
    PROVE  GetSizeT(At(b, k, x)) = At(b, k + SizeT, v)
<1>1. "size_t" \in Tags
    BY DEF Tags
<1>2. SizeT \in Nat \ {0}
    BY Widths
<1> QED
    BY <1>1, <1>2, GetReads DEF SizeBytes, GetSizeT

LEMMA IntReads ==
    ASSUME NEW b, NEW k, NEW x, NEW v \in Data, Reads(b, k, IntBytes(v))
    PROVE  GetInt(At(b, k, x)) = At(b, k + IntSize, v)
<1>1. "int" \in Tags
    BY DEF Tags
<1>2. IntSize \in Nat \ {0}
    BY Widths
<1> QED
    BY <1>1, <1>2, GetReads DEF IntBytes, GetInt

LEMMA DoubleReads ==
    ASSUME NEW b, NEW k, NEW x, NEW v \in Data, Reads(b, k, DoubleBytes(v))
    PROVE  GetDouble(At(b, k, x)) = At(b, k + DoubleSize, v)
<1>1. "double" \in Tags
    BY DEF Tags
<1>2. DoubleSize \in Nat \ {0}
    BY Widths
<1> QED
    BY <1>1, <1>2, GetReads DEF DoubleBytes, GetDouble

LEMMA EnumReads ==
    ASSUME NEW b, NEW k, NEW x, NEW v \in Data, Reads(b, k, EnumBytes(v))
    PROVE  GetEnum(At(b, k, x)) = At(b, k + IntSize, v)
<1>1. "enum" \in Tags
    BY DEF Tags
<1>2. IntSize \in Nat \ {0}
    BY Widths
<1> QED
    BY <1>1, <1>2, GetReads DEF EnumBytes, GetEnum

LEMMA CharReads ==
    ASSUME NEW b, NEW k, NEW x, NEW v \in Data, Reads(b, k, CharBytes(v))
    PROVE  GetChar(At(b, k, x)) = At(b, k + 1, v)
<1>1. "char" \in Tags
    BY DEF Tags
<1>2. 1 \in Nat \ {0}
    BY Widths
<1> QED
    BY <1>1, <1>2, GetReads DEF CharBytes, GetChar

LEMMA BoolReads ==
    ASSUME NEW b, NEW k, NEW x, NEW v \in Data, Reads(b, k, BoolBytes(v))
    PROVE  GetBool(At(b, k, x)) = At(b, k + 1, v)
<1> DEFINE g == TRUE
           w == 1
<1>1. w \in Nat \ {0} /\ "bool" \in Tags
    BY DEF Tags
<1>2. Reads(b, k, Bytes("bool", v, w))
    BY Zenon DEF BoolBytes
<1>3. GetBool(At(b, k, x)) = Get(At(b, k, x), "bool", w, g)
    BY Zenon DEF GetBool
<1> HIDE DEF g, w
<1>4. Get(At(b, k, x), "bool", w, g) = At(b, k + w, v)
    BY <1>1, <1>2, GetReads
<1> QED
    BY <1>3, <1>4 DEF w

LEMMA KindBytes ==
    ASSUME NEW v \in Data
    PROVE  /\ SizeBytes(v) \in Seq(Byte) /\ Len(SizeBytes(v)) = SizeT
           /\ IntBytes(v) \in Seq(Byte) /\ Len(IntBytes(v)) = IntSize
           /\ BoolBytes(v) \in Seq(Byte) /\ Len(BoolBytes(v)) = 1
           /\ DoubleBytes(v) \in Seq(Byte) /\ Len(DoubleBytes(v)) = DoubleSize
           /\ EnumBytes(v) \in Seq(Byte) /\ Len(EnumBytes(v)) = IntSize
           /\ CharBytes(v) \in Seq(Byte) /\ Len(CharBytes(v)) = 1
<1>7. /\ "size_t" \in Tags /\ "int" \in Tags /\ "bool" \in Tags
      /\ "double" \in Tags /\ "enum" \in Tags /\ "char" \in Tags
    BY DEF Tags
<1>0. SizeT \in Nat /\ IntSize \in Nat /\ DoubleSize \in Nat /\ 1 \in Nat
    BY Widths
<1>1. SizeBytes(v) \in Seq(Byte) /\ Len(SizeBytes(v)) = SizeT
    BY <1>0, BytesFacts, <1>7, Zenon DEF SizeBytes
<1>2. IntBytes(v) \in Seq(Byte) /\ Len(IntBytes(v)) = IntSize
    BY <1>0, BytesFacts, <1>7, Zenon DEF IntBytes
<1>3. BoolBytes(v) \in Seq(Byte) /\ Len(BoolBytes(v)) = 1
    BY <1>0, BytesFacts, <1>7, Zenon DEF BoolBytes
<1>4. DoubleBytes(v) \in Seq(Byte) /\ Len(DoubleBytes(v)) = DoubleSize
    BY <1>0, BytesFacts, <1>7, Zenon DEF DoubleBytes
<1>5. EnumBytes(v) \in Seq(Byte) /\ Len(EnumBytes(v)) = IntSize
    BY <1>0, BytesFacts, <1>7, Zenon DEF EnumBytes
<1>6. CharBytes(v) \in Seq(Byte) /\ Len(CharBytes(v)) = 1
    BY <1>0, BytesFacts, <1>7, Zenon DEF CharBytes
<1> QED
    BY <1>1, <1>2, <1>3, <1>4, <1>5, <1>6

\* Deserializers at the positions p that have read the values of vals.
Stops(b, p, x, vals, n) == [i \in 0 .. n |-> At(b, p[i], IF i = 0 THEN x ELSE vals[i])]

IsRow(vals, n) == vals = [i \in 1 .. n |-> vals[i]]

\* What GetMany makes of the Deserializers h it has gone through.
Many(h, n) == [h[n] EXCEPT !.val = [i \in 1 .. n |-> h[i].val]]

\* Where h and w agree on one step they agree on the next.
Steps(h, w, n) == \A i \in 1 .. n : h[i - 1] = w[i - 1] => h[i] = w[i]

LEMMA SameSteps ==
    ASSUME NEW n \in Nat, NEW h, NEW w, h[0] = w[0], Steps(h, w, n)
    PROVE  \A i \in 0 .. n : h[i] = w[i]
<1> DEFINE T == {j \in Nat : j <= n => h[j] = w[j]}
<1>1. 0 \in T
    OBVIOUS
<1>2. ASSUME NEW j \in Nat, j \in T PROVE j + 1 \in T
    <2> SUFFICES ASSUME j + 1 <= n PROVE h[j + 1] = w[j + 1]
        OBVIOUS
    <2>1. j + 1 \in 1 .. n /\ (j + 1) - 1 = j /\ h[j] = w[j]
        BY <1>2
    <2> QED
        BY <2>1 DEF Steps
<1> HIDE DEF T
<1>3. \A j \in Nat : j \in T
    BY <1>1, <1>2, InductionSet
<1> QED
    BY <1>3 DEF T

LEMMA StopsFacts ==
    ASSUME NEW b, NEW p, NEW x, NEW vals, NEW n \in Nat
    PROVE  /\ Stops(b, p, x, vals, n)[0] = At(b, p[0], x)
           /\ \A i \in 1 .. n : Stops(b, p, x, vals, n)[i] = At(b, p[i], vals[i])
           /\ \A i \in 1 .. n : \E y : Stops(b, p, x, vals, n)[i - 1] = At(b, p[i - 1], y)
<1> DEFINE w == Stops(b, p, x, vals, n)
<1>1. \A i \in 0 .. n : w[i] = At(b, p[i], IF i = 0 THEN x ELSE vals[i])
    BY DEF Stops
<1> HIDE DEF w
<1>2. w[0] = At(b, p[0], x)
    BY <1>1
<1>3. \A i \in 1 .. n : w[i] = At(b, p[i], vals[i])
    BY <1>1
<1>4. ASSUME NEW i \in 1 .. n PROVE \E y : w[i - 1] = At(b, p[i - 1], y)
    <2>1. i - 1 \in 0 .. n
        OBVIOUS
    <2> QED
        BY <1>1, <2>1
<1> QED
    BY <1>2, <1>3, <1>4 DEF w

LEMMA ManyStops ==
    ASSUME NEW b, NEW p, NEW x, NEW n \in Nat, NEW vals, IsRow(vals, n),
           NEW h, \A i \in 0 .. n : h[i] = Stops(b, p, x, vals, n)[i]
    PROVE  Many(h, n) = At(b, p[n], vals)
<1>1. \E y : h[n] = At(b, p[n], y)
    <2>1. CASE n = 0
        BY <2>1, StopsFacts
    <2>2. CASE n # 0
        <3>1. n \in 1 .. n /\ n \in 0 .. n
            BY <2>2
        <3> QED
            BY <3>1, StopsFacts
    <2> QED
        BY <2>1, <2>2
<1>2. PICK y : h[n] = At(b, p[n], y)
    BY <1>1
<1>3. \A i \in 1 .. n : h[i].val = vals[i]
    <2>1. ASSUME NEW i \in 1 .. n PROVE h[i].val = vals[i]
        <3>1. Stops(b, p, x, vals, n)[i] = At(b, p[i], vals[i])
            BY StopsFacts
        <3>2. i \in 0 .. n
            OBVIOUS
        <3>3. h[i] = At(b, p[i], vals[i])
            BY <3>1, <3>2
        <3> QED
            BY <3>3, AtFields
    <2> QED
        BY <2>1
<1>4. [i \in 1 .. n |-> h[i].val] = vals
    <2>1. [i \in 1 .. n |-> h[i].val] = [i \in 1 .. n |-> vals[i]]
        BY <1>3
    <2> QED
        BY <2>1, Zenon DEF IsRow
<1>5. Many(h, n) = Valued(h[n], [i \in 1 .. n |-> h[i].val])
    BY Zenon DEF Many, Valued
<1>6. Valued(At(b, p[n], y), vals) = At(b, p[n], vals)
    BY AtValued, Zenon
<1> QED
    BY <1>2, <1>4, <1>5, <1>6

\* The positions p lead from one to another.
Ends(p, n, from, to) == p[0] = from /\ p[n] = to

\* The values of each kind that are read in a row.
ManySizes(d, n)     == GetMany(GetSizeT, d, n)
ManyChars(d, n)     == GetMany(GetChar, d, n)
ManyStrings(d, n)   == GetMany(GetString, d, n)
ManyValues(t, d, n) == GetMany(LAMBDA e : GetValue(t, e), d, n)

SizesAt(b, p, vals, n) ==
    \A i \in 1 .. n : \A y : GetSizeT(At(b, p[i - 1], y)) = At(b, p[i], vals[i])

LEMMA ManySizesRead ==
    ASSUME NEW b, NEW p, NEW x, NEW n \in Nat, NEW vals, IsRow(vals, n),
           SizesAt(b, p, vals, n),
           NEW from, NEW to, Ends(p, n, from, to)
    PROVE  ManySizes(At(b, from, x), n) = At(b, to, vals)
<1> SUFFICES ManySizes(At(b, p[0], x), n) = At(b, p[n], vals)
    BY Zenon DEF Ends
<1> DEFINE d == At(b, p[0], x)
           P(f) == f = [i \in 0 .. n |-> IF i = 0 THEN d ELSE GetSizeT(f[i - 1])]
           h == CHOOSE f : P(f)
           w == Stops(b, p, x, vals, n)
<1>1. ManySizes(d, n) = Many(h, n)
    BY Zenon DEF ManySizes, GetMany, Many
<1>2. w = [i \in 0 .. n |-> w[i]]
    BY Zenon DEF Stops
<1>3. /\ w[0] = d
      /\ \A i \in 1 .. n : w[i] = At(b, p[i], vals[i])
      /\ \A i \in 1 .. n : \E y : w[i - 1] = At(b, p[i - 1], y)
    BY StopsFacts
<1> HIDE DEF d, w
<1>4. ASSUME NEW i \in 1 .. n PROVE w[i] = GetSizeT(w[i - 1])
    <2>1. PICK y : w[i - 1] = At(b, p[i - 1], y)
        BY <1>3
    <2> QED
        BY <1>3, <2>1 DEF SizesAt
<1>5. P(w)
    BY <1>2, <1>3, <1>4
<1>6. P(h)
    BY <1>5, Zenon
<1> HIDE DEF h
<1>7. \A i \in 0 .. n : h[i] = w[i]
    <2>1. h[0] = w[0]
        BY <1>3, <1>6
    <2>2. ASSUME NEW i \in 1 .. n PROVE h[i] = GetSizeT(h[i - 1])
        BY <1>6
    <2>3. Steps(h, w, n)
        BY <1>4, <2>2 DEF Steps
    <2> QED
        BY <2>1, <2>3, SameSteps
<1>8. Many(h, n) = At(b, p[n], vals)
    BY <1>7, ManyStops DEF w
<1> QED
    BY <1>1, <1>8 DEF d

CharsAt(b, p, vals, n) ==
    \A i \in 1 .. n : \A y : GetChar(At(b, p[i - 1], y)) = At(b, p[i], vals[i])

LEMMA ManyCharsRead ==
    ASSUME NEW b, NEW p, NEW x, NEW n \in Nat, NEW vals, IsRow(vals, n),
           CharsAt(b, p, vals, n),
           NEW from, NEW to, Ends(p, n, from, to)
    PROVE  ManyChars(At(b, from, x), n) = At(b, to, vals)
<1> SUFFICES ManyChars(At(b, p[0], x), n) = At(b, p[n], vals)
    BY Zenon DEF Ends
<1> DEFINE d == At(b, p[0], x)
           P(f) == f = [i \in 0 .. n |-> IF i = 0 THEN d ELSE GetChar(f[i - 1])]
           h == CHOOSE f : P(f)
           w == Stops(b, p, x, vals, n)
<1>1. ManyChars(d, n) = Many(h, n)
    BY Zenon DEF ManyChars, GetMany, Many
<1>2. w = [i \in 0 .. n |-> w[i]]
    BY Zenon DEF Stops
<1>3. /\ w[0] = d
      /\ \A i \in 1 .. n : w[i] = At(b, p[i], vals[i])
      /\ \A i \in 1 .. n : \E y : w[i - 1] = At(b, p[i - 1], y)
    BY StopsFacts
<1> HIDE DEF d, w
<1>4. ASSUME NEW i \in 1 .. n PROVE w[i] = GetChar(w[i - 1])
    <2>1. PICK y : w[i - 1] = At(b, p[i - 1], y)
        BY <1>3
    <2> QED
        BY <1>3, <2>1 DEF CharsAt
<1>5. P(w)
    BY <1>2, <1>3, <1>4
<1>6. P(h)
    BY <1>5, Zenon
<1> HIDE DEF h
<1>7. \A i \in 0 .. n : h[i] = w[i]
    <2>1. h[0] = w[0]
        BY <1>3, <1>6
    <2>2. ASSUME NEW i \in 1 .. n PROVE h[i] = GetChar(h[i - 1])
        BY <1>6
    <2>3. Steps(h, w, n)
        BY <1>4, <2>2 DEF Steps
    <2> QED
        BY <2>1, <2>3, SameSteps
<1>8. Many(h, n) = At(b, p[n], vals)
    BY <1>7, ManyStops DEF w
<1> QED
    BY <1>1, <1>8 DEF d

StringsAt(b, p, vals, n) ==
    \A i \in 1 .. n : \A y : GetString(At(b, p[i - 1], y)) = At(b, p[i], vals[i])

LEMMA ManyStringsRead ==
    ASSUME NEW b, NEW p, NEW x, NEW n \in Nat, NEW vals, IsRow(vals, n),
           StringsAt(b, p, vals, n),
           NEW from, NEW to, Ends(p, n, from, to)
    PROVE  ManyStrings(At(b, from, x), n) = At(b, to, vals)
<1> SUFFICES ManyStrings(At(b, p[0], x), n) = At(b, p[n], vals)
    BY Zenon DEF Ends
<1> DEFINE d == At(b, p[0], x)
           P(f) == f = [i \in 0 .. n |-> IF i = 0 THEN d ELSE GetString(f[i - 1])]
           h == CHOOSE f : P(f)
           w == Stops(b, p, x, vals, n)
<1>1. ManyStrings(d, n) = Many(h, n)
    BY Zenon DEF ManyStrings, GetMany, Many
<1>2. w = [i \in 0 .. n |-> w[i]]
    BY Zenon DEF Stops
<1>3. /\ w[0] = d
      /\ \A i \in 1 .. n : w[i] = At(b, p[i], vals[i])
      /\ \A i \in 1 .. n : \E y : w[i - 1] = At(b, p[i - 1], y)
    BY StopsFacts
<1> HIDE DEF d, w
<1>4. ASSUME NEW i \in 1 .. n PROVE w[i] = GetString(w[i - 1])
    <2>1. PICK y : w[i - 1] = At(b, p[i - 1], y)
        BY <1>3
    <2> QED
        BY <1>3, <2>1 DEF StringsAt
<1>5. P(w)
    BY <1>2, <1>3, <1>4
<1>6. P(h)
    BY <1>5, Zenon
<1> HIDE DEF h
<1>7. \A i \in 0 .. n : h[i] = w[i]
    <2>1. h[0] = w[0]
        BY <1>3, <1>6
    <2>2. ASSUME NEW i \in 1 .. n PROVE h[i] = GetString(h[i - 1])
        BY <1>6
    <2>3. Steps(h, w, n)
        BY <1>4, <2>2 DEF Steps
    <2> QED
        BY <2>1, <2>3, SameSteps
<1>8. Many(h, n) = At(b, p[n], vals)
    BY <1>7, ManyStops DEF w
<1> QED
    BY <1>1, <1>8 DEF d

ValuesAt(t, b, p, vals, n) ==
    \A i \in 1 .. n : \A y : GetValue(t, At(b, p[i - 1], y)) = At(b, p[i], vals[i])

LEMMA ManyValuesRead ==
    ASSUME NEW t, NEW b, NEW p, NEW x, NEW n \in Nat, NEW vals, IsRow(vals, n),
           ValuesAt(t, b, p, vals, n),
           NEW from, NEW to, Ends(p, n, from, to)
    PROVE  ManyValues(t, At(b, from, x), n) = At(b, to, vals)
<1> SUFFICES ManyValues(t, At(b, p[0], x), n) = At(b, p[n], vals)
    BY Zenon DEF Ends
<1> DEFINE d == At(b, p[0], x)
           P(f) == f = [i \in 0 .. n |-> IF i = 0 THEN d ELSE GetValue(t, f[i - 1])]
           h == CHOOSE f : P(f)
           w == Stops(b, p, x, vals, n)
<1>1. ManyValues(t, d, n) = Many(h, n)
    BY Zenon DEF ManyValues, GetMany, Many
<1>2. w = [i \in 0 .. n |-> w[i]]
    BY Zenon DEF Stops
<1>3. /\ w[0] = d
      /\ \A i \in 1 .. n : w[i] = At(b, p[i], vals[i])
      /\ \A i \in 1 .. n : \E y : w[i - 1] = At(b, p[i - 1], y)
    BY StopsFacts
<1> HIDE DEF d, w
<1>4. ASSUME NEW i \in 1 .. n PROVE w[i] = GetValue(t, w[i - 1])
    <2>1. PICK y : w[i - 1] = At(b, p[i - 1], y)
        BY <1>3
    <2> QED
        BY <1>3, <2>1 DEF ValuesAt
<1>5. P(w)
    <2> DEFINE v == [i \in 0 .. n |-> IF i = 0 THEN d ELSE GetValue(t, w[i - 1])]
    <2>1. ASSUME NEW i \in 0 .. n PROVE w[i] = v[i]
        <3>1. CASE i = 0
            BY <3>1, <1>3
        <3>2. CASE i # 0
            <4>1. i \in 1 .. n
                BY <3>2
            <4>2. w[i] = GetValue(t, w[i - 1])
                BY <4>1, <1>4
            <4> QED
                BY <3>2, <4>2
        <3> QED
            BY <3>1, <3>2
    <2>2. v = [i \in 0 .. n |-> v[i]]
        OBVIOUS
    <2> HIDE DEF v
    <2>3. w = v
        BY <1>2, <2>1, <2>2
    <2> QED
        BY <2>3, Zenon DEF v
<1>6. P(h)
    BY <1>5, Zenon
<1> HIDE DEF h
<1>7. \A i \in 0 .. n : h[i] = w[i]
    <2>1. h[0] = w[0]
        BY <1>3, <1>6
    <2>2. ASSUME NEW i \in 1 .. n PROVE h[i] = GetValue(t, h[i - 1])
        BY <1>6
    <2>3. Steps(h, w, n)
        BY <1>4, <2>2 DEF Steps
    <2> QED
        BY <2>1, <2>3, SameSteps
<1>8. Many(h, n) = At(b, p[n], vals)
    BY <1>7, ManyStops DEF w
<1> QED
    BY <1>1, <1>8 DEF d


-----------------------------------------------------------------------------
\* Strings and keys.

\* The lengths of the first pieces together.
Lengths(f, vs, N) ==
    /\ Len(f[0]) = 0
    /\ \A i \in 0 .. N : Len(f[i]) \in Nat
    /\ \A i \in 1 .. N : Len(f[i]) = Len(f[i - 1]) + Len(vs[i])

LEMMA FlatLens ==
    ASSUME NEW S, NEW vs \in Seq(Seq(S)), NEW N \in Nat, Len(vs) = N, NEW f, Flats(f, vs, S)
    PROVE  Lengths(f, vs, N)
<1>1. /\ f[0] = <<>> /\ Grows(f, vs, N) /\ \A i \in 0 .. N : f[i] \in Seq(S)
    BY FlatsFacts
<1>2. ASSUME NEW i \in 1 .. N PROVE Len(f[i]) = Len(f[i - 1]) + Len(vs[i])
    <2> DEFINE s == f[i - 1]
               t == vs[i]
    <2>1. i - 1 \in 0 .. N /\ s \in Seq(S) /\ t \in Seq(S)
        BY <1>1
    <2>2. f[i] = s \o t
        BY <1>1 DEF Grows
    <2> HIDE DEF s, t
    <2>3. Len(s \o t) = Len(s) + Len(t)
        BY <2>1
    <2> QED
        BY <2>2, <2>3 DEF s, t
<1> QED
    BY <1>1, <1>2 DEF Lengths

\* Pieces of one length.
LEMMA FlatLensOne ==
    ASSUME NEW S, NEW vs \in Seq(Seq(S)), NEW N \in Nat, Len(vs) = N, NEW f, Flats(f, vs, S),
           \A i \in 1 .. N : Len(vs[i]) = 1
    PROVE  \A i \in 0 .. N : Len(f[i]) = i
<1>1. /\ Len(f[0]) = 0
      /\ \A i \in 1 .. N : Len(f[i]) = Len(f[i - 1]) + 1
    <2>1. Lengths(f, vs, N)
        BY FlatLens
    <2> QED
        BY <2>1 DEF Lengths
<1> DEFINE T == {j \in Nat : j <= N => Len(f[j]) = j}
<1>2. 0 \in T
    BY <1>1
<1>3. ASSUME NEW j \in Nat, j \in T PROVE j + 1 \in T
    <2> SUFFICES ASSUME j + 1 <= N PROVE Len(f[j + 1]) = j + 1
        OBVIOUS
    <2>1. j + 1 \in 1 .. N /\ (j + 1) - 1 = j /\ Len(f[j]) = j
        BY <1>3
    <2> QED
        BY <1>1, <2>1
<1> HIDE DEF T
<1>4. \A j \in Nat : j \in T
    BY <1>2, <1>3, InductionSet
<1> QED
    BY <1>4 DEF T

\* The characters of a string with the one that ends it, each as bytes.
CharsOf(s) == [i \in 1 .. Len(s) + 1 |-> CharBytes(IF i <= Len(s) THEN s[i] ELSE Nul)]

LEMMA CharsFacts ==
    ASSUME NEW s \in Seq(STRING)
    PROVE  /\ CharsOf(s) \in Seq(Seq(Byte)) /\ Len(CharsOf(s)) = Len(s) + 1
           /\ \A i \in 1 .. Len(s) : CharsOf(s)[i] = CharBytes(s[i]) /\ s[i] \in Data
           /\ \A i \in 1 .. Len(s) + 1 : Len(CharsOf(s)[i]) = 1
<1>1. Len(s) \in Nat /\ \A i \in 1 .. Len(s) : s[i] \in STRING
    OBVIOUS
<1>2. ASSUME NEW i \in 1 .. Len(s) + 1
      PROVE  CharsOf(s)[i] \in Seq(Byte) /\ Len(CharsOf(s)[i]) = 1
    <2> DEFINE c == IF i <= Len(s) THEN s[i] ELSE Nul
    <2>1. c \in Data
        BY <1>1 DEF Data
    <2>2. CharsOf(s)[i] = CharBytes(c)
        BY DEF CharsOf
    <2> HIDE DEF c
    <2> QED
        BY <2>1, <2>2, KindBytes
<1>3. ASSUME NEW i \in 1 .. Len(s) PROVE CharsOf(s)[i] = CharBytes(s[i]) /\ s[i] \in Data
    BY <1>1 DEF CharsOf, Data
<1>4. CharsOf(s) = [i \in 1 .. Len(s) + 1 |-> CharsOf(s)[i]]
    BY Zenon DEF CharsOf
<1>5. CharsOf(s) \in Seq(Seq(Byte)) /\ Len(CharsOf(s)) = Len(s) + 1
    <2> DEFINE cs == CharsOf(s)
               n == Len(s) + 1
    <2>1. n \in Nat /\ cs = [i \in 1 .. n |-> cs[i]] /\ \A i \in 1 .. n : cs[i] \in Seq(Byte)
        BY <1>1, <1>2, <1>4
    <2> HIDE DEF cs, n
    <2>2. cs \in Seq(Seq(Byte)) /\ Len(cs) = n
        BY <2>1
    <2> QED
        BY <2>2 DEF cs, n
<1> QED
    BY <1>2, <1>3, <1>5

\* The characters are read one by one.
LEMMA CharsRead ==
    ASSUME NEW s \in Seq(STRING)
    PROVE  /\ FlattenSeq(CharsOf(s)) \in Seq(Byte)
           /\ Len(FlattenSeq(CharsOf(s))) = Len(s) + 1
           /\ \A b, k : Reads(b, k, FlattenSeq(CharsOf(s))) =>
                  \A i \in 1 .. Len(s) : Reads(b, k + (i - 1), CharBytes(s[i]))
<1> DEFINE vs == CharsOf(s)
           n == Len(s) + 1
<1>1. Len(s) \in Nat /\ n \in Nat
    OBVIOUS
<1>2. /\ vs \in Seq(Seq(Byte)) /\ Len(vs) = n /\ \A i \in 1 .. n : Len(vs[i]) = 1
      /\ \A i \in 1 .. Len(s) : vs[i] = CharBytes(s[i])
    BY CharsFacts
<1>7. \A i \in 1 .. Len(s) : i \in 1 .. n /\ i - 1 \in 0 .. n
    BY <1>1
<1>8. n \in 0 .. n
    BY <1>1
<1> HIDE DEF vs, n
<1>3. PICK f : Flats(f, vs, Byte)
    BY <1>2, FlatsExist
<1>4. FlattenSeq(vs) = f[n] /\ f[n] \in Seq(Byte)
    BY <1>1, <1>2, <1>3, FlatsFacts
<1>5. \A i \in 0 .. n : Len(f[i]) = i
    BY <1>1, <1>2, <1>3, FlatLensOne
<1>6. ASSUME NEW b, NEW k, Reads(b, k, FlattenSeq(vs)), NEW i \in 1 .. Len(s)
      PROVE  Reads(b, k + (i - 1), CharBytes(s[i]))
    <2>1. \A j \in 1 .. Len(vs) : Reads(b, k + Len(f[j - 1]), vs[j])
        BY <1>2, <1>3, <1>6, ReadsFlat
    <2>2. i \in 1 .. Len(vs) /\ vs[i] = CharBytes(s[i]) /\ Len(f[i - 1]) = i - 1
        BY <1>2, <1>5, <1>7
    <2> QED
        BY <2>1, <2>2
<1>9. Len(FlattenSeq(vs)) = Len(s) + 1
    BY <1>4, <1>5, <1>8 DEF n
<1> QED
    BY <1>4, <1>6, <1>9 DEF vs

LEMMA StringFacts ==
    ASSUME NEW s \in Seq(STRING)
    PROVE  /\ StringValues(s) \in Seq(Seq(Byte))
           /\ FlattenSeq(StringValues(s)) = SizeBytes(Len(s)) \o FlattenSeq(CharsOf(s))
           /\ SizeBytes(Len(s)) \in Seq(Byte) /\ Len(SizeBytes(Len(s))) = SizeT
           /\ Len(s) \in Nat /\ Len(s) \in Data
           /\ FlattenSeq(StringValues(s)) \in Seq(Byte)
           /\ Len(FlattenSeq(StringValues(s))) = StringBytes(s)
           /\ StringBytes(s) \in Nat
<1> DEFINE n == Len(s)
           x == SizeBytes(n)
           y == FlattenSeq(CharsOf(s))
<1>1. n \in Nat /\ n \in Data
    BY DEF Data
<1>2. y \in Seq(Byte) /\ Len(y) = n + 1
    BY CharsRead
<1>3. StringValues(s) = <<x, y>>
    BY Zenon DEF StringValues, CharsOf
<1>4. SizeT \in Nat /\ StringBytes(s) = SizeT + n + 1
    BY Widths DEF StringBytes
<1> HIDE DEF n, y
<1>5. x \in Seq(Byte) /\ Len(x) = SizeT
    BY <1>1, KindBytes
<1> HIDE DEF x
<1>6. FlattenSeq(<<x, y>>) = x \o y
    BY <1>2, <1>5, FlattenTwo
<1>7. <<x, y>> \in Seq(Seq(Byte)) /\ x \o y \in Seq(Byte) /\ Len(x \o y) = SizeT + n + 1
    BY <1>1, <1>2, <1>4, <1>5
<1>8. SizeT + n + 1 \in Nat
    BY <1>1, <1>4
<1> QED
    BY <1>1, <1>3, <1>4, <1>5, <1>6, <1>7, <1>8, Zenon DEF n, x, y

\* A string is read where its bytes are.
LEMMA GetStringReads ==
    ASSUME NEW b, NEW k, NEW x, NEW s \in Seq(STRING), Reads(b, k, FlattenSeq(StringValues(s)))
    PROVE  GetString(At(b, k, x)) = At(b, k + StringBytes(s), s)
<1> DEFINE n == Len(s)
           d == At(b, k, x)
           c == FlattenSeq(CharsOf(s))
           sized == GetSizeT(d)
           len == sized.val
           char == [i \in 1 .. len |-> GetChar([sized EXCEPT !.off = @ + i - 1]).val]
<1>1. /\ n \in Nat /\ n \in Data /\ SizeT \in Nat
      /\ FlattenSeq(StringValues(s)) = SizeBytes(n) \o c
      /\ SizeBytes(n) \in Seq(Byte) /\ Len(SizeBytes(n)) = SizeT
      /\ c \in Seq(Byte) /\ Len(c) = n + 1
    BY StringFacts, CharsRead, Widths
<1>2. Reads(b, k, SizeBytes(n)) /\ Reads(b, k + SizeT, c)
    <2> DEFINE p == SizeBytes(n)
    <2>1. p \in Seq(Byte) /\ c \in Seq(Byte) /\ Reads(b, k, p \o c) /\ Len(p) = SizeT
        BY <1>1
    <2> HIDE DEF p, c, n
    <2>2. Reads(b, k, p) /\ Reads(b, k + Len(p), c)
        BY <2>1, ReadsConcat
    <2> QED
        BY <2>1, <2>2 DEF p
<1>3. sized = At(b, k + SizeT, n)
    <2> HIDE DEF n
    <2> QED
        BY <1>1, <1>2, SizeReads
<1>4. k \in Nat /\ b \in Seq(Byte) /\ Len(b) \in Nat /\ (k + SizeT) + (n + 1) <= Len(b)
    BY <1>1, <1>2 DEF Reads
<1>5. d.bytes = b /\ d.off = k /\ sized.bytes = b /\ sized.off = k + SizeT /\ sized.val = n
    BY <1>3, AtFields
<1>6. ASSUME NEW i \in 1 .. n
      PROVE  GetChar([sized EXCEPT !.off = @ + i - 1]).val = s[i]
    <2> DEFINE q == (k + SizeT) + (i - 1)
               v == s[i]
    <2>1. [sized EXCEPT !.off = @ + i - 1] = Skipped(sized, sized.off + i - 1)
        BY Zenon DEF Skipped
    <2>2. sized.off + i - 1 = q
        BY <1>1, <1>4, <1>5
    <2>3. Reads(b, q, CharBytes(v))
        BY <1>2, CharsRead
    <2>4. v \in Data
        BY CharsFacts
    <2> HIDE DEF q, v, sized
    <2>5. Skipped(sized, q) = At(b, q, n)
        BY <1>3, AtSkipped
    <2>6. GetChar(At(b, q, n)) = At(b, q + 1, v)
        BY <2>3, <2>4, CharReads, Zenon
    <2>7. GetChar([sized EXCEPT !.off = @ + i - 1]) = At(b, q + 1, v)
        BY <2>1, <2>2, <2>5, <2>6
    <2> QED
        BY <2>7, AtFields DEF v
<1>7. char = s
    <2>1. len = n
        BY <1>5
    <2>2. s = [i \in 1 .. n |-> s[i]]
        OBVIOUS
    <2> HIDE DEF sized, n
    <2>3. char = [i \in 1 .. n |-> s[i]]
        BY <2>1, <1>6
    <2> QED
        BY <2>2, <2>3
<1>8. ~ (BytesLeft(d) < SizeT) /\ ~ (BytesLeft(sized) < len + 1)
    <2> HIDE DEF d, sized, n
    <2> QED
        BY <1>1, <1>4, <1>5 DEF BytesLeft
<1>9. GetString(d) = [sized EXCEPT !.off = @ + len + 1, !.val = char]
    <2>1. GetString(d) = IF BytesLeft(d) < SizeT THEN [d EXCEPT !.val = Null]
                         ELSE IF BytesLeft(sized) < len + 1 THEN [sized EXCEPT !.val = Null]
                         ELSE [sized EXCEPT !.off = @ + len + 1, !.val = char]
        BY Zenon DEF GetString
    <2> QED
        BY <1>8, <2>1, Zenon
<1>10. [sized EXCEPT !.off = @ + len + 1, !.val = char] = Moved(sized, sized.off + len + 1, char)
    BY Zenon DEF Moved
<1>11. sized.off + len + 1 = k + StringBytes(s)
    BY <1>1, <1>4, <1>5 DEF StringBytes
<1>12. Moved(At(b, k + SizeT, n), k + StringBytes(s), s) = At(b, k + StringBytes(s), s)
    BY AtMoved
<1> HIDE DEF char, sized, len
<1> QED
    BY <1>3, <1>7, <1>9, <1>10, <1>11, <1>12

-----------------------------------------------------------------------------
\* Values that are n bytes together.
Coded(vs, n) ==
    /\ vs \in Seq(Seq(Byte)) /\ n \in Nat
    /\ FlattenSeq(vs) \in Seq(Byte) /\ Len(FlattenSeq(vs)) = n

LEMMA CodedOne ==
    ASSUME NEW x \in Seq(Byte), NEW n, Len(x) = n
    PROVE  Coded(<<x>>, n) /\ FlattenSeq(<<x>>) = x
<1>1. FlattenSeq(<<x>>) = x
    BY FlattenOne
<1>2. n \in Nat /\ <<x>> \in Seq(Seq(Byte))
    OBVIOUS
<1> QED
    BY <1>1, <1>2 DEF Coded

LEMMA CodedConcat ==
    ASSUME NEW vs, NEW n, Coded(vs, n), NEW ws, NEW m, Coded(ws, m)
    PROVE  /\ Coded(vs \o ws, n + m)
           /\ FlattenSeq(vs \o ws) = FlattenSeq(vs) \o FlattenSeq(ws)
<1> DEFINE s == FlattenSeq(vs)
           t == FlattenSeq(ws)
<1>1. /\ vs \in Seq(Seq(Byte)) /\ ws \in Seq(Seq(Byte)) /\ n \in Nat /\ m \in Nat
      /\ s \in Seq(Byte) /\ t \in Seq(Byte) /\ Len(s) = n /\ Len(t) = m
    BY DEF Coded
<1>2. FlattenSeq(vs \o ws) = s \o t
    BY <1>1, FlattenConcat
<1> HIDE DEF s, t
<1>5. s \in Seq(Byte) /\ t \in Seq(Byte) /\ Len(s) = n /\ Len(t) = m
    BY <1>1
<1>3. s \o t \in Seq(Byte) /\ Len(s \o t) = n + m /\ n + m \in Nat
    BY <1>5
<1>4. vs \o ws \in Seq(Seq(Byte))
    BY <1>1
<1> QED
    BY <1>2, <1>3, <1>4 DEF Coded, s, t

LEMMA CodedReads ==
    ASSUME NEW vs, NEW n, Coded(vs, n), NEW ws, NEW m, Coded(ws, m),
           NEW b, NEW k, Reads(b, k, FlattenSeq(vs \o ws))
    PROVE  Reads(b, k, FlattenSeq(vs)) /\ Reads(b, k + n, FlattenSeq(ws))
<1> DEFINE s == FlattenSeq(vs)
           t == FlattenSeq(ws)
<1>1. s \in Seq(Byte) /\ t \in Seq(Byte) /\ Len(s) = n
    BY DEF Coded
<1>2. Reads(b, k, s \o t)
    BY CodedConcat
<1> HIDE DEF s, t
<1>3. Reads(b, k, s) /\ Reads(b, k + Len(s), t)
    BY <1>1, <1>2, ReadsConcat
<1> QED
    BY <1>1, <1>3 DEF s, t

\* The pieces ys are found one behind the other, at the positions p.
Stations(p, b, k, ys, N) ==
    /\ p[0] = k
    /\ p[N] = k + Len(FlattenSeq(ys))
    /\ \A i \in 1 .. N : Reads(b, p[i - 1], ys[i]) /\ p[i] = p[i - 1] + Len(ys[i])
    /\ \A i \in 0 .. N : p[i] \in Nat

LEMMA StationsExist ==
    ASSUME NEW ys \in Seq(Seq(Byte)), NEW N \in Nat, Len(ys) = N,
           NEW b, NEW k, Reads(b, k, FlattenSeq(ys))
    PROVE  \E p : Stations(p, b, k, ys, N)
<1>1. PICK f : Flats(f, ys, Byte)
    BY FlatsExist
<1>2. FlattenSeq(ys) = f[N]
    BY <1>1, FlatsFacts
<1>3. /\ \A i \in 1 .. N : Reads(b, k + Len(f[i - 1]), ys[i])
      /\ k \in Nat
    BY <1>1, ReadsFlat
<1>4. Lengths(f, ys, N)
    BY <1>1, FlatLens
<1> DEFINE p == [i \in 0 .. N |-> k + Len(f[i])]
<1>5. p[0] = k /\ p[N] = k + Len(FlattenSeq(ys))
    <2>1. 0 \in 0 .. N /\ N \in 0 .. N
        OBVIOUS
    <2>2. p[0] = k + Len(f[0]) /\ p[N] = k + Len(f[N])
        BY <2>1
    <2>3. Len(f[0]) = 0
        BY <1>4 DEF Lengths
    <2> HIDE DEF p
    <2> QED
        BY <1>2, <1>3, <2>2, <2>3
<1>6. ASSUME NEW i \in 1 .. N
      PROVE  Reads(b, p[i - 1], ys[i]) /\ p[i] = p[i - 1] + Len(ys[i])
    <2>1. i \in 0 .. N /\ i - 1 \in 0 .. N
        OBVIOUS
    <2>2. p[i] = k + Len(f[i]) /\ p[i - 1] = k + Len(f[i - 1])
        BY <2>1
    <2>3. /\ Len(f[i]) = Len(f[i - 1]) + Len(ys[i])
          /\ Len(f[i - 1]) \in Nat /\ Len(ys[i]) \in Nat
        BY <1>4, <2>1 DEF Lengths
    <2> HIDE DEF p
    <2> QED
        BY <1>3, <2>2, <2>3
<1>7. \A i \in 0 .. N : p[i] \in Nat
    BY <1>3, <1>4 DEF Lengths
<1> HIDE DEF p
<1>8. Stations(p, b, k, ys, N)
    BY <1>5, <1>6, <1>7 DEF Stations
<1> QED
    BY <1>8

\* Parts that are made of values each.
Parts(xs, N) == [i \in 1 .. N |-> FlattenSeq(xs[i])]

LEMMA PartsFacts ==
    ASSUME NEW xs \in Seq(Seq(Seq(Byte))), NEW N \in Nat, Len(xs) = N
    PROVE  /\ Parts(xs, N) \in Seq(Seq(Byte)) /\ Len(Parts(xs, N)) = N
           /\ \A i \in 1 .. N : Parts(xs, N)[i] = FlattenSeq(xs[i])
           /\ FlattenSeq(FlattenSeq(xs)) = FlattenSeq(Parts(xs, N))
           /\ FlattenSeq(xs) \in Seq(Seq(Byte))
           /\ FlattenSeq(FlattenSeq(xs)) \in Seq(Byte)
<1>1. /\ [i \in 1 .. Len(xs) |-> FlattenSeq(xs[i])] \in Seq(Seq(Byte))
      /\ FlattenSeq(FlattenSeq(xs)) = FlattenSeq([i \in 1 .. Len(xs) |-> FlattenSeq(xs[i])])
    BY FlattenNested
<1>2. [i \in 1 .. Len(xs) |-> FlattenSeq(xs[i])] = Parts(xs, N)
    BY Zenon DEF Parts
<1>3. /\ Parts(xs, N) \in Seq(Seq(Byte))
      /\ FlattenSeq(FlattenSeq(xs)) = FlattenSeq(Parts(xs, N))
    BY <1>1, <1>2, Zenon
<1>4. FlattenSeq(xs) \in Seq(Seq(Byte))
    BY FlattenType
<1>5. FlattenSeq(FlattenSeq(xs)) \in Seq(Byte)
    BY <1>4, FlattenType
<1>6. Len(Parts(xs, N)) = N /\ \A i \in 1 .. N : Parts(xs, N)[i] = FlattenSeq(xs[i])
    BY <1>3 DEF Parts
<1> QED
    BY <1>3, <1>4, <1>5, <1>6

\* A key.
KeySize(key) == SizeT + StringBytes(key.name)

LEMMA SizeCoded ==
    ASSUME NEW v \in Data
    PROVE  Coded(<<SizeBytes(v)>>, SizeT) /\ FlattenSeq(<<SizeBytes(v)>>) = SizeBytes(v)
<1>1. SizeBytes(v) \in Seq(Byte) /\ Len(SizeBytes(v)) = SizeT
    BY KindBytes
<1> HIDE DEF SizeBytes
<1> QED
    BY <1>1, CodedOne

LEMMA EnumCoded ==
    ASSUME NEW v \in Data
    PROVE  Coded(<<EnumBytes(v)>>, IntSize) /\ FlattenSeq(<<EnumBytes(v)>>) = EnumBytes(v)
<1>1. EnumBytes(v) \in Seq(Byte) /\ Len(EnumBytes(v)) = IntSize
    BY KindBytes
<1> HIDE DEF EnumBytes
<1> QED
    BY <1>1, CodedOne

LEMMA StringCoded ==
    ASSUME NEW s \in Seq(STRING)
    PROVE  Coded(StringValues(s), StringBytes(s))
BY StringFacts DEF Coded

LEMMA KeyFacts ==
    ASSUME NEW key \in KeyOf(Nat \cup {NoHome})
    PROVE  /\ Coded(KeyValues(key), KeySize(key))
           /\ \A b, k, x : Reads(b, k, FlattenSeq(KeyValues(key))) =>
                  GetKey(At(b, k, x)) = At(b, k + KeySize(key), key)
<1> DEFINE v == key.home
           s == key.name
           vs == <<SizeBytes(v)>>
           ws == StringValues(s)
<1>1. v \in Data /\ s \in Seq(STRING) /\ key = [home |-> v, name |-> s]
    BY DEF KeyOf, Data, Text
<1>2. Coded(vs, SizeT) /\ FlattenSeq(vs) = SizeBytes(v)
    BY <1>1, SizeCoded
<1>3. Coded(ws, StringBytes(s))
    BY <1>1, StringCoded
<1>4. KeyValues(key) = vs \o ws /\ KeySize(key) = SizeT + StringBytes(s)
    BY Zenon DEF KeyValues, KeySize
<1> HIDE DEF vs, ws
<1>5. Coded(KeyValues(key), KeySize(key))
    BY <1>2, <1>3, <1>4, CodedConcat
<1>6. ASSUME NEW b, NEW k, NEW x, Reads(b, k, FlattenSeq(KeyValues(key)))
      PROVE  GetKey(At(b, k, x)) = At(b, k + KeySize(key), key)
    <2> DEFINE home == GetSizeT(At(b, k, x))
               name == GetString(home)
    <2>1. Reads(b, k, FlattenSeq(vs)) /\ Reads(b, k + SizeT, FlattenSeq(ws))
        BY <1>2, <1>3, <1>4, <1>6, CodedReads
    <2> HIDE DEF v, s
    <2>2. home = At(b, k + SizeT, v)
        BY <1>1, <1>2, <2>1, SizeReads
    <2>3. name = At(b, (k + SizeT) + StringBytes(s), s)
        BY <1>1, <2>1, <2>2, GetStringReads DEF ws
    <2>4. GetKey(At(b, k, x)) = Valued(name, [home |-> home.val, name |-> name.val])
        BY Zenon DEF GetKey, Valued
    <2> HIDE DEF home, name
    <2>5. home.val = v /\ name.val = s
        BY <2>2, <2>3, AtFields
    <2>6. GetKey(At(b, k, x)) = Valued(name, key)
        BY <1>1, <2>4, <2>5, Zenon
    <2>7. Valued(name, key) = At(b, (k + SizeT) + StringBytes(s), key)
        BY <2>3, AtValued
    <2>8. (k + SizeT) + StringBytes(s) = k + KeySize(key)
        <3>1. k \in Nat /\ SizeT \in Nat /\ StringBytes(s) \in Nat
            BY <2>1, <1>1, StringFacts, Widths DEF Reads
        <3> QED
            BY <3>1, <1>4
    <2> QED
        BY <2>6, <2>7, <2>8
<1> QED
    BY <1>5, <1>6

-----------------------------------------------------------------------------
\* A distributed value, and the table of addresses.

LEMMA TwoSizes ==
    ASSUME NEW u \in Data, NEW v \in Data
    PROVE  /\ Coded(<<SizeBytes(u), SizeBytes(v)>>, SizeT + SizeT)
           /\ \A b, k, x : Reads(b, k, FlattenSeq(<<SizeBytes(u), SizeBytes(v)>>)) =>
                  /\ GetSizeT(At(b, k, x)) = At(b, k + SizeT, u)
                  /\ GetSizeT(At(b, k + SizeT, u)) = At(b, k + (SizeT + SizeT), v)
<1> DEFINE vs == <<SizeBytes(u)>>
           ws == <<SizeBytes(v)>>
<1>1. /\ Coded(vs, SizeT) /\ FlattenSeq(vs) = SizeBytes(u)
      /\ Coded(ws, SizeT) /\ FlattenSeq(ws) = SizeBytes(v)
    BY SizeCoded
<1>2. <<SizeBytes(u), SizeBytes(v)>> = vs \o ws
    BY Pair
<1> HIDE DEF vs, ws
<1>3. Coded(vs \o ws, SizeT + SizeT)
    BY <1>1, CodedConcat
<1>4. ASSUME NEW b, NEW k, NEW x, Reads(b, k, FlattenSeq(vs \o ws))
      PROVE  /\ GetSizeT(At(b, k, x)) = At(b, k + SizeT, u)
             /\ GetSizeT(At(b, k + SizeT, u)) = At(b, k + (SizeT + SizeT), v)
    <2>1. Reads(b, k, SizeBytes(u)) /\ Reads(b, k + SizeT, SizeBytes(v))
        BY <1>1, <1>4, CodedReads
    <2>2. GetSizeT(At(b, k + SizeT, u)) = At(b, (k + SizeT) + SizeT, v)
        BY <2>1, SizeReads
    <2>3. (k + SizeT) + SizeT = k + (SizeT + SizeT)
        BY <2>1, Widths DEF Reads
    <2> QED
        BY <2>1, <2>2, <2>3, SizeReads
<1> QED
    BY <1>2, <1>3, <1>4

Types(types) == [c \in DOMAIN types |-> CharBytes(types[c])]

LEMMA TypesCoded ==
    ASSUME NEW types \in Seq(ColumnTypes), NEW N, N = Len(types)
    PROVE  /\ Types(types) \in Seq(Seq(Byte)) /\ Len(Types(types)) = N /\ N \in Nat
           /\ \A i \in 1 .. N : /\ Types(types)[i] = CharBytes(types[i])
                                /\ types[i] \in Data /\ Len(Types(types)[i]) = 1
           /\ Coded(Types(types), Len(FlattenSeq(Types(types))))
<1>1. N \in Nat /\ DOMAIN types = 1 .. N /\ \A i \in 1 .. N : types[i] \in Data
    BY DEF Data
<1> DEFINE vs == Types(types)
<1>2. ASSUME NEW i \in 1 .. N
      PROVE  vs[i] = CharBytes(types[i]) /\ vs[i] \in Seq(Byte) /\ Len(vs[i]) = 1
    <2>1. vs[i] = CharBytes(types[i])
        BY <1>1 DEF Types
    <2> QED
        BY <1>1, <2>1, KindBytes
<1>3. vs = [i \in 1 .. N |-> vs[i]]
    BY <1>1, Zenon DEF Types
<1> HIDE DEF vs
<1>4. vs \in Seq(Seq(Byte)) /\ Len(vs) = N
    BY <1>1, <1>2, <1>3
<1>5. FlattenSeq(vs) \in Seq(Byte)
    BY <1>4, FlattenType
<1>6. Coded(vs, Len(FlattenSeq(vs)))
    BY <1>4, <1>5 DEF Coded
<1> QED
    BY <1>1, <1>2, <1>4, <1>6 DEF vs

LEMMA DistributedValueFacts ==
    ASSUME NEW v \in [types : Seq(ColumnTypes), nrows : Nat]
    PROVE  /\ Coded(DistributedValueValues(v), Len(FlattenSeq(DistributedValueValues(v))))
           /\ \A b, k, x : Reads(b, k, FlattenSeq(DistributedValueValues(v))) =>
                  GetDistributedValue(At(b, k, x)).val = v
<1> DEFINE types == v.types
           N == Len(types)
           nrows == v.nrows
           vs == <<SizeBytes(N), SizeBytes(nrows)>>
           ws == Types(types)
           m == Len(FlattenSeq(ws))
<1>1. /\ types \in Seq(ColumnTypes) /\ N \in Nat /\ nrows \in Nat
      /\ N \in Data /\ nrows \in Data /\ v = [types |-> types, nrows |-> nrows]
      /\ types = [i \in 1 .. N |-> types[i]]
    BY DEF Data
<1>2. DistributedValueValues(v) = vs \o ws
    BY Zenon DEF DistributedValueValues, Types
<1>3. /\ ws \in Seq(Seq(Byte)) /\ Len(ws) = N /\ Coded(ws, m)
      /\ \A i \in 1 .. N : /\ ws[i] = CharBytes(types[i])
                           /\ types[i] \in Data /\ Len(ws[i]) = 1
    <2> HIDE DEF types
    <2> QED
        BY <1>1, TypesCoded
<1> HIDE DEF types, N, nrows
<1>4. /\ Coded(vs, SizeT + SizeT)
      /\ \A b, k, x : Reads(b, k, FlattenSeq(vs)) =>
             /\ GetSizeT(At(b, k, x)) = At(b, k + SizeT, N)
             /\ GetSizeT(At(b, k + SizeT, N)) = At(b, k + (SizeT + SizeT), nrows)
    BY <1>1, TwoSizes
<1> HIDE DEF vs, ws, m
<1>5. Coded(vs \o ws, (SizeT + SizeT) + m)
    BY <1>3, <1>4, CodedConcat
<1>6. Coded(vs \o ws, Len(FlattenSeq(vs \o ws)))
    BY <1>5 DEF Coded
<1>7. ASSUME NEW b, NEW k, NEW x, Reads(b, k, FlattenSeq(vs \o ws))
      PROVE  GetDistributedValue(At(b, k, x)).val = v
    <2> DEFINE d == At(b, k, x)
               c == GetSizeT(d)
               r == GetSizeT(c)
               t == GetMany(GetChar, r, c.val)
               q == k + (SizeT + SizeT)
    <2>1. Reads(b, k, FlattenSeq(vs)) /\ Reads(b, q, FlattenSeq(ws))
        BY <1>3, <1>4, <1>7, CodedReads
    <2>2. c = At(b, k + SizeT, N) /\ r = At(b, q, nrows)
        BY <1>4, <2>1
    <2>3. PICK p : Stations(p, b, q, ws, N)
        BY <1>1, <1>3, <2>1, StationsExist
    <2>4. p[0] = q /\ \A i \in 1 .. N : Reads(b, p[i - 1], ws[i]) /\ p[i] = p[i - 1] + Len(ws[i])
        BY <2>3 DEF Stations
    <2>5. ASSUME NEW i \in 1 .. N, NEW y
          PROVE  GetChar(At(b, p[i - 1], y)) = At(b, p[i], types[i])
        <3> DEFINE e == types[i]
        <3>1. Reads(b, p[i - 1], CharBytes(e)) /\ p[i] = p[i - 1] + 1 /\ e \in Data
            BY <1>3, <2>4
        <3> HIDE DEF e
        <3>2. GetChar(At(b, p[i - 1], y)) = At(b, p[i - 1] + 1, e)
            BY <3>1, CharReads
        <3> QED
            BY <3>1, <3>2 DEF e
    <2>6. IsRow(types, N) /\ CharsAt(b, p, types, N)
        BY <1>1, <2>5, Zenon DEF IsRow, CharsAt
    <2>7. ManyChars(At(b, q, nrows), N) = At(b, p[N], types)
        <3> DEFINE to == p[N]
        <3>1. N \in Nat /\ Ends(p, N, q, to)
            BY <1>1, <2>4 DEF Ends
        <3> HIDE DEF to
        <3> QED
            BY <2>6, <3>1, ManyCharsRead DEF to
    <2>8. c.val = N /\ r.val = nrows
        BY <2>2, AtFields
    <2>9. t = ManyChars(r, c.val)
        BY Zenon DEF ManyChars
    <2> HIDE DEF c, r, d
    <2>10. t = At(b, p[N], types)
        BY <2>2, <2>4, <2>7, <2>8, <2>9
    <2>11. GetDistributedValue(d) = Valued(t, [types |-> t.val, nrows |-> r.val])
        BY Zenon DEF GetDistributedValue, Valued, c, r
    <2> HIDE DEF t
    <2>12. t.val = types
        BY <2>10, AtFields
    <2>13. GetDistributedValue(d) = Valued(t, v)
        BY <1>1, <2>8, <2>11, <2>12, Zenon
    <2>14. Valued(t, v) = At(b, p[N], v)
        BY <2>10, AtValued
    <2> QED
        BY <2>13, <2>14, AtFields DEF d
<1> QED
    BY <1>2, <1>6, <1>7

Ports(dir)     == [i \in DOMAIN dir |-> SizeBytes(dir[i].port)]
Addresses(dir) == [i \in DOMAIN dir |-> StringValues(Shown(dir[i].address))]
ShownOf(dir)   == [i \in 1 .. Len(dir) |-> Shown(dir[i].address)]
PortOf(dir)    == [i \in 1 .. Len(dir) |-> dir[i].port]

LEMMA EntryFacts ==
    ASSUME NEW e \in Address
    PROVE  /\ e.port \in Nat /\ e.port \in Data
           /\ Shown(e.address) \in Seq(STRING)
           /\ e = [address |-> IF Shown(e.address) = <<>> THEN Null ELSE Shown(e.address),
                   port    |-> e.port]
<1>1. e.port \in Nat /\ e.address \in Seq(STRING) \ {<<>>}
      /\ e = [address |-> e.address, port |-> e.port]
    BY DEF Address
<1>2. Shown(e.address) = IF e.address = Null THEN <<>> ELSE e.address
    BY DEF Shown
<1>3. Shown(e.address) \in Seq(STRING)
    <2>1. <<>> \in Seq(STRING)
        OBVIOUS
    <2>2. CASE e.address = Null
        BY <1>2, <2>1, <2>2, Zenon
    <2>3. CASE e.address # Null
        BY <1>1, <1>2, <2>3, Zenon
    <2> QED
        BY <2>2, <2>3
<1>4. (IF Shown(e.address) = <<>> THEN Null ELSE Shown(e.address)) = e.address
    BY <1>1, <1>2
<1>5. e = [address |-> IF Shown(e.address) = <<>> THEN Null ELSE Shown(e.address),
           port    |-> e.port]
    BY <1>1, <1>4, Zenon
<1> QED
    BY <1>1, <1>3, <1>5 DEF Data

\* Sequences of bytes: vs is a row of n of them.
LEMMA RowOfBytes ==
    ASSUME NEW S, NEW n \in Nat, NEW vs, vs = [i \in 1 .. n |-> vs[i]],
           \A i \in 1 .. n : vs[i] \in S
    PROVE  vs \in Seq(S) /\ Len(vs) = n
OBVIOUS

LEMMA PortsFacts ==
    ASSUME NEW dir \in Seq(Address), NEW N, N = Len(dir)
    PROVE  /\ Ports(dir) \in Seq(Seq(Byte)) /\ Len(Ports(dir)) = N /\ N \in Nat
           /\ \A i \in 1 .. N : /\ Ports(dir)[i] = SizeBytes(PortOf(dir)[i])
                                /\ PortOf(dir)[i] \in Data /\ Len(Ports(dir)[i]) = SizeT
           /\ IsRow(PortOf(dir), N)
<1> DEFINE vs == Ports(dir)
<1>1. N \in Nat /\ DOMAIN dir = 1 .. N /\ \A i \in 1 .. N : dir[i] \in Address
    OBVIOUS
<1>2. ASSUME NEW i \in 1 .. N
      PROVE  /\ vs[i] \in Seq(Byte) /\ Len(vs[i]) = SizeT
             /\ vs[i] = SizeBytes(PortOf(dir)[i]) /\ PortOf(dir)[i] \in Data
    <2> DEFINE v == dir[i].port
    <2>1. vs[i] = SizeBytes(v) /\ PortOf(dir)[i] = v
        BY <1>1 DEF Ports, PortOf
    <2>2. v \in Data
        BY <1>1, EntryFacts
    <2> HIDE DEF v
    <2> QED
        BY <2>1, <2>2, KindBytes
<1>3. vs = [i \in 1 .. N |-> vs[i]]
    BY <1>1, Zenon DEF Ports
<1> HIDE DEF vs
<1>4. vs \in Seq(Seq(Byte)) /\ Len(vs) = N
    BY <1>1, <1>2, <1>3, RowOfBytes
<1>5. IsRow(PortOf(dir), N)
    BY Zenon DEF IsRow, PortOf
<1> QED
    BY <1>1, <1>2, <1>4, <1>5 DEF vs

LEMMA AddressesFacts ==
    ASSUME NEW dir \in Seq(Address), NEW N, N = Len(dir)
    PROVE  /\ Addresses(dir) \in Seq(Seq(Seq(Byte))) /\ Len(Addresses(dir)) = N
           /\ \A i \in 1 .. N : /\ Addresses(dir)[i] = StringValues(ShownOf(dir)[i])
                                /\ ShownOf(dir)[i] \in Seq(STRING)
           /\ IsRow(ShownOf(dir), N)
<1> DEFINE vs == Addresses(dir)
<1>1. N \in Nat /\ DOMAIN dir = 1 .. N /\ \A i \in 1 .. N : dir[i] \in Address
    OBVIOUS
<1>2. ASSUME NEW i \in 1 .. N
      PROVE  /\ vs[i] \in Seq(Seq(Byte))
             /\ vs[i] = StringValues(ShownOf(dir)[i]) /\ ShownOf(dir)[i] \in Seq(STRING)
    <2> DEFINE v == Shown(dir[i].address)
    <2>1. vs[i] = StringValues(v) /\ ShownOf(dir)[i] = v
        BY <1>1 DEF Addresses, ShownOf
    <2>2. v \in Seq(STRING)
        BY <1>1, EntryFacts
    <2> HIDE DEF v, vs
    <2>3. StringValues(v) \in Seq(Seq(Byte))
        BY <2>2, StringFacts
    <2> QED
        BY <2>1, <2>2, <2>3, Zenon
<1>3. vs = [i \in 1 .. N |-> vs[i]]
    BY <1>1, Zenon DEF Addresses
<1> HIDE DEF vs
<1>4. vs \in Seq(Seq(Seq(Byte))) /\ Len(vs) = N
    BY <1>1, <1>2, <1>3, RowOfBytes
<1>5. IsRow(ShownOf(dir), N)
    BY Zenon DEF IsRow, ShownOf
<1> QED
    BY <1>1, <1>2, <1>4, <1>5 DEF vs

\* Sums of the first numbers of a row, and of two rows.
Climbs(p, u, N) ==
    p[0] = 0 /\ \A i \in 1 .. N : u[i] \in Nat /\ p[i] = p[i - 1] + u[i]

ClimbsBoth(g, u, v, N) ==
    g[0] = 0 /\ \A i \in 1 .. N : g[i] = g[i - 1] + u[i] + v[i]

LEMMA ClimbsAdd ==
    ASSUME NEW N \in Nat, NEW u, NEW v, NEW p, Climbs(p, u, N), NEW q, Climbs(q, v, N),
           NEW g, ClimbsBoth(g, u, v, N)
    PROVE  g[N] = p[N] + q[N]
<1> DEFINE T == {j \in Nat : j <= N => /\ p[j] \in Nat /\ q[j] \in Nat
                                      /\ g[j] = p[j] + q[j]}
<1>1. 0 \in T
    BY DEF Climbs, ClimbsBoth
<1>2. ASSUME NEW j \in Nat, j \in T PROVE j + 1 \in T
    <2> SUFFICES ASSUME j + 1 <= N
                 PROVE  p[j + 1] \in Nat /\ q[j + 1] \in Nat /\ g[j + 1] = p[j + 1] + q[j + 1]
        OBVIOUS
    <2> DEFINE i == j + 1
    <2>1. /\ i \in 1 .. N /\ i - 1 = j
          /\ p[j] \in Nat /\ q[j] \in Nat /\ g[j] = p[j] + q[j]
        BY <1>2
    <2> HIDE DEF i
    <2>2. /\ u[i] \in Nat /\ p[i] = p[j] + u[i]
          /\ v[i] \in Nat /\ q[i] = q[j] + v[i]
          /\ g[i] = g[j] + u[i] + v[i]
        BY <2>1 DEF Climbs, ClimbsBoth
    <2>3. p[i] \in Nat /\ q[i] \in Nat /\ g[i] = p[i] + q[i]
        BY <2>1, <2>2
    <2> QED
        BY <2>3 DEF i
<1> HIDE DEF T
<1>3. \A j \in Nat : j \in T
    BY <1>1, <1>2, InductionSet
<1>4. N <= N => g[N] = p[N] + q[N]
    BY <1>3 DEF T
<1> QED
    BY <1>4

\* The length of pieces put together.
Sizes(u, vs, N) == \A i \in 1 .. N : u[i] = Len(vs[i])

LEMMA FlattenLength ==
    ASSUME NEW S, NEW vs \in Seq(Seq(S)), NEW N \in Nat, Len(vs) = N, NEW u, Sizes(u, vs, N)
    PROVE  \E p : Climbs(p, u, N) /\ Len(FlattenSeq(vs)) = p[N]
<1>1. PICK f : Flats(f, vs, S)
    BY FlatsExist
<1>2. FlattenSeq(vs) = f[N]
    BY <1>1, FlatsFacts
<1>3. Lengths(f, vs, N)
    BY <1>1, FlatLens
<1> DEFINE p == [i \in 0 .. N |-> Len(f[i])]
<1>4. p[0] = 0
    BY <1>3 DEF Lengths
<1>5. ASSUME NEW i \in 1 .. N PROVE u[i] \in Nat /\ p[i] = p[i - 1] + u[i]
    <2>1. i \in 0 .. N /\ i - 1 \in 0 .. N
        OBVIOUS
    <2>2. p[i] = Len(f[i]) /\ p[i - 1] = Len(f[i - 1])
        BY <2>1
    <2>3. Len(f[i]) = Len(f[i - 1]) + Len(vs[i]) /\ Len(vs[i]) \in Nat
        BY <1>3 DEF Lengths
    <2> HIDE DEF p
    <2> QED
        BY <2>2, <2>3 DEF Sizes
<1>6. p[N] = Len(f[N])
    OBVIOUS
<1> HIDE DEF p
<1> QED
    BY <1>2, <1>4, <1>5, <1>6 DEF Climbs

\* The two parts of the size of a table, entry by entry.
PortSizes(N)         == [i \in 1 .. N |-> SizeT]
AddressSizes(dir, N) == [i \in 1 .. N |-> StringBytes(ShownOf(dir)[i])]

LEMMA DirectorySizes ==
    ASSUME NEW dir \in Seq(Address), NEW N, N = Len(dir)
    PROVE  \E g : /\ ClimbsBoth(g, PortSizes(N), AddressSizes(dir, N), N)
               /\ DirectoryBytes(dir) = SizeT + g[N]
<1> DEFINE F == [n \in Nat |-> [e \in Address |-> n + SizeT + StringBytes(Shown(e.address))]]
           Eq(g) == g = [s \in SUBSET (DOMAIN dir) |->
                            IF s = {} THEN 0
                            ELSE g[s \ {Max(s)}] + SizeT + StringBytes(Shown(dir[Max(s)].address))]
           h == CHOOSE g : Eq(g)
<1>1. N \in Nat /\ DOMAIN dir = 1 .. N /\ \A k \in 1 .. N : dir[k] \in Address
    OBVIOUS
<1>2. F \in [Nat -> [Address -> Nat]]
    <2>1. ASSUME NEW n \in Nat, NEW e \in Address
          PROVE  n + SizeT + StringBytes(Shown(e.address)) \in Nat
        <3>1. StringBytes(Shown(e.address)) \in Nat
            BY EntryFacts, StringFacts
        <3> QED
            BY <3>1, Widths
    <2> QED
        BY <2>1
<1>3. \A s : Max(s) = Largest(s)
    BY DEF Max, Largest
<1>4. \E g : Eq(g)
    <2> HIDE DEF F
    <2>1. PICK g \in [SUBSET (1 .. N) -> Nat] : FoldOf(g, 0, F, dir, N)
        <3> DEFINE z == 0
        <3>1. z \in Nat /\ N \in Nat
            BY <1>1
        <3>2. \A k \in 1 .. N : dir[k] \in Address
            BY <1>1
        <3> HIDE DEF z
        <3>3. HasFold(Nat, z, F, dir, N)
            BY <1>2, <3>1, <3>2, FoldExists
        <3> QED
            BY <3>3 DEF HasFold, z
    <2>2. ASSUME NEW s \in SUBSET (1 .. N)
          PROVE  g[s] = IF s = {} THEN 0
                        ELSE g[s \ {Max(s)}] + SizeT + StringBytes(Shown(dir[Max(s)].address))
        <3>1. CASE s = {}
            BY <2>1, <3>1 DEF FoldOf
        <3>2. CASE s # {}
            <4>1. Max(s) \in 1 .. N
                BY <1>1, <1>3, <3>2, LargestElement
            <4>2. g[s \ {Max(s)}] \in Nat /\ dir[Max(s)] \in Address
                BY <4>1, <1>1
            <4>3. F[g[s \ {Max(s)}]][dir[Max(s)]] =
                      g[s \ {Max(s)}] + SizeT + StringBytes(Shown(dir[Max(s)].address))
                BY <4>2 DEF F
            <4> QED
                BY <2>1, <1>3, <3>2, <4>3 DEF FoldOf
        <3> QED
            BY <3>1, <3>2
    <2>3. Eq(g)
        BY <2>2, <1>1
    <2> QED
        BY <2>3
<1>5. Eq(h)
    BY <1>4
<1>6. DirectoryBytes(dir) = SizeT + h[1 .. N]
    BY <1>1 DEF DirectoryBytes, FoldLeft, MapThenFoldSet
<1> HIDE DEF h
<1>7. h[{}] = 0
    BY <1>5
<1>8. ASSUME NEW k \in 1 .. N
      PROVE  h[1 .. k] = h[1 .. k - 1] + SizeT + StringBytes(ShownOf(dir)[k])
    <2>0. N \in Nat /\ DOMAIN dir = 1 .. N
        BY <1>1
    <2>1. 1 .. k \in SUBSET (DOMAIN dir) /\ 1 .. k # {}
        <3>1. k \in 1 .. k /\ 1 .. k \in SUBSET (1 .. N)
            BY <2>0
        <3>2. 1 .. k # {}
            BY <3>1
        <3> QED
            BY <2>0, <3>1, <3>2, Zenon
    <2>2. Max(1 .. k) = k /\ (1 .. k) \ {k} = 1 .. k - 1
        BY <1>3, LargestOfInterval
    <2>3. h[1 .. k] = h[(1 .. k) \ {Max(1 .. k)}] + SizeT
                          + StringBytes(Shown(dir[Max(1 .. k)].address))
        BY <1>5, <2>1
    <2>4. ShownOf(dir)[k] = Shown(dir[k].address)
        BY DEF ShownOf
    <2> QED
        BY <2>2, <2>3, <2>4
<1> DEFINE f == [k \in 0 .. N |-> h[1 .. k]]
<1>9. f[0] = 0
    <2>1. 1 .. 0 = {}
        OBVIOUS
    <2>2. f[0] = h[1 .. 0]
        BY <1>1
    <2> QED
        BY <1>7, <2>1, <2>2
<1>10. ASSUME NEW k \in 1 .. N
       PROVE  f[k] = f[k - 1] + SizeT + StringBytes(ShownOf(dir)[k])
    <2>1. f[k] = h[1 .. k] /\ f[k - 1] = h[1 .. k - 1]
        BY <1>1
    <2> QED
        BY <1>8, <2>1
<1>11. f[N] = h[1 .. N]
    BY <1>1
<1> HIDE DEF f
<1>12. \A k \in 1 .. N : /\ PortSizes(N)[k] = SizeT
                         /\ AddressSizes(dir, N)[k] = StringBytes(ShownOf(dir)[k])
    BY DEF PortSizes, AddressSizes
<1>13. ClimbsBoth(f, PortSizes(N), AddressSizes(dir, N), N)
    BY <1>9, <1>10, <1>12 DEF ClimbsBoth
<1> QED
    BY <1>6, <1>11, <1>13

\* The sizes of the table are those of its ports and of its addresses.
LEMMA DirectoryLength ==
    ASSUME NEW dir \in Seq(Address), NEW N, N = Len(dir)
    PROVE  DirectoryBytes(dir) =
               SizeT + (Len(FlattenSeq(Ports(dir))) + Len(FlattenSeq(FlattenSeq(Addresses(dir)))))
<1> DEFINE ps == Ports(dir)
           xs == Addresses(dir)
           ys == Parts(xs, N)
<1>1. /\ ps \in Seq(Seq(Byte)) /\ Len(ps) = N /\ N \in Nat
      /\ \A i \in 1 .. N : Len(ps[i]) = SizeT
    BY PortsFacts
<1>2. /\ xs \in Seq(Seq(Seq(Byte))) /\ Len(xs) = N
      /\ \A i \in 1 .. N : /\ xs[i] = StringValues(ShownOf(dir)[i])
                           /\ ShownOf(dir)[i] \in Seq(STRING)
    BY AddressesFacts
<1> HIDE DEF xs
<1>3. /\ ys \in Seq(Seq(Byte)) /\ Len(ys) = N
      /\ \A i \in 1 .. N : ys[i] = FlattenSeq(xs[i])
      /\ FlattenSeq(FlattenSeq(xs)) = FlattenSeq(ys)
    BY <1>1, <1>2, PartsFacts
<1> HIDE DEF ps, ys
<1>4. ASSUME NEW i \in 1 .. N PROVE Len(ys[i]) = StringBytes(ShownOf(dir)[i])
    <2> DEFINE s == ShownOf(dir)[i]
    <2>1. s \in Seq(STRING) /\ ys[i] = FlattenSeq(StringValues(s))
        BY <1>2, <1>3
    <2> HIDE DEF s
    <2> QED
        BY <2>1, StringFacts DEF s
<1> DEFINE u == PortSizes(N)
           v == AddressSizes(dir, N)
<1>5. Sizes(u, ps, N) /\ Sizes(v, ys, N)
    BY <1>1, <1>4 DEF PortSizes, AddressSizes, Sizes
<1> HIDE DEF u, v
<1>6. PICK p : Climbs(p, u, N) /\ Len(FlattenSeq(ps)) = p[N]
    BY <1>1, <1>5, FlattenLength
<1>7. PICK q : Climbs(q, v, N) /\ Len(FlattenSeq(ys)) = q[N]
    BY <1>1, <1>3, <1>5, FlattenLength
<1>8. PICK g : ClimbsBoth(g, u, v, N) /\ DirectoryBytes(dir) = SizeT + g[N]
    BY DirectorySizes DEF u, v
<1>9. N \in Nat
    BY <1>1
<1>10. g[N] = p[N] + q[N]
    BY <1>6, <1>7, <1>8, <1>9, ClimbsAdd
<1> QED
    BY <1>3, <1>6, <1>7, <1>8, <1>10 DEF ps, xs

LEMMA DirectoryFacts ==
    ASSUME NEW dir \in Seq(Address)
    PROVE  /\ Coded(DirectoryValues(dir), DirectoryBytes(dir))
           /\ \A b, k, x : Reads(b, k, FlattenSeq(DirectoryValues(dir))) =>
                  GetDirectory(At(b, k, x)).val = dir
<1> DEFINE N == Len(dir)
           vs == <<SizeBytes(N)>>
           ps == Ports(dir)
           xs == Addresses(dir)
           fs == FlattenSeq(xs)
           ys == Parts(xs, N)
           l == Len(FlattenSeq(ps))
           m == Len(FlattenSeq(fs))
           ports == PortOf(dir)
           names == ShownOf(dir)
<1>1. N \in Nat /\ N \in Data
    BY DEF Data
<1>2. /\ ps \in Seq(Seq(Byte)) /\ Len(ps) = N /\ IsRow(ports, N)
      /\ \A i \in 1 .. N : /\ ps[i] = SizeBytes(ports[i])
                           /\ ports[i] \in Data /\ Len(ps[i]) = SizeT
    BY PortsFacts
<1>3. /\ xs \in Seq(Seq(Seq(Byte))) /\ Len(xs) = N /\ IsRow(names, N)
      /\ \A i \in 1 .. N : xs[i] = StringValues(names[i]) /\ names[i] \in Seq(STRING)
    BY AddressesFacts
<1>4. DirectoryBytes(dir) = SizeT + (l + m)
    BY DirectoryLength
<1>5. DirectoryValues(dir) = (vs \o ps) \o fs
    BY Zenon DEF DirectoryValues, Ports, Addresses
<1>6. ASSUME NEW i \in 1 .. N
      PROVE  dir[i] = [address |-> IF names[i] = <<>> THEN Null ELSE names[i], port |-> ports[i]]
    <2>1. dir[i] \in Address
        OBVIOUS
    <2>2. names[i] = Shown(dir[i].address) /\ ports[i] = dir[i].port
        BY DEF ShownOf, PortOf
    <2> HIDE DEF names, ports
    <2> QED
        BY <2>1, <2>2, EntryFacts
<1>7. dir = [i \in 1 .. N |-> dir[i]]
    OBVIOUS
<1> HIDE DEF N, xs
<1>8. /\ ys \in Seq(Seq(Byte)) /\ Len(ys) = N /\ FlattenSeq(fs) = FlattenSeq(ys)
      /\ \A i \in 1 .. N : ys[i] = FlattenSeq(xs[i])
      /\ fs \in Seq(Seq(Byte)) /\ FlattenSeq(fs) \in Seq(Byte)
    BY <1>1, <1>3, PartsFacts
<1>9. FlattenSeq(ps) \in Seq(Byte)
    BY <1>2, FlattenType
<1> HIDE DEF ps, ys, fs, ports, names
<1>10. Coded(ps, l) /\ Coded(fs, m)
    BY <1>2, <1>8, <1>9 DEF Coded
<1>11. Coded(vs, SizeT) /\ FlattenSeq(vs) = SizeBytes(N)
    BY <1>1, SizeCoded
<1> HIDE DEF vs, l, m
<1>12. Coded(vs \o ps, SizeT + l)
    BY <1>10, <1>11, CodedConcat
<1>13. Coded((vs \o ps) \o fs, (SizeT + l) + m)
    BY <1>10, <1>12, CodedConcat
<1>14. (SizeT + l) + m = SizeT + (l + m)
    BY <1>10, <1>11 DEF Coded
<1>15. ASSUME NEW b, NEW k, NEW x, Reads(b, k, FlattenSeq((vs \o ps) \o fs))
       PROVE  GetDirectory(At(b, k, x)).val = dir
    <2> DEFINE d == At(b, k, x)
               max == GetSizeT(d)
               pp == GetMany(GetSizeT, max, max.val)
               aa == GetMany(GetString, pp, max.val)
               j == k + SizeT
               q == k + (SizeT + l)
    <2>1. Reads(b, k, FlattenSeq(vs \o ps)) /\ Reads(b, q, FlattenSeq(fs))
        BY <1>10, <1>12, <1>15, CodedReads
    <2>2. Reads(b, k, SizeBytes(N)) /\ Reads(b, j, FlattenSeq(ps))
        BY <1>10, <1>11, <2>1, CodedReads
    <2>3. max = At(b, j, N)
        BY <1>1, <2>2, SizeReads
    <2>4. PICK p : Stations(p, b, j, ps, N)
        BY <1>1, <1>2, <2>2, StationsExist
    <2>5. p[0] = j /\ p[N] = j + l
          /\ \A i \in 1 .. N : Reads(b, p[i - 1], ps[i]) /\ p[i] = p[i - 1] + Len(ps[i])
        BY <2>4 DEF Stations, l
    <2>6. SizesAt(b, p, ports, N)
        <3>1. ASSUME NEW i \in 1 .. N, NEW y
              PROVE  GetSizeT(At(b, p[i - 1], y)) = At(b, p[i], ports[i])
            <4> DEFINE e == ports[i]
            <4>1. Reads(b, p[i - 1], SizeBytes(e)) /\ p[i] = p[i - 1] + SizeT /\ e \in Data
                BY <1>2, <2>5
            <4> HIDE DEF e
            <4>2. GetSizeT(At(b, p[i - 1], y)) = At(b, p[i - 1] + SizeT, e)
                BY <4>1, SizeReads
            <4> QED
                BY <4>1, <4>2 DEF e
        <3> QED
            BY <3>1, Zenon DEF SizesAt
    <2>7. Ends(p, N, j, q)
        <3>1. k \in Nat /\ SizeT \in Nat /\ l \in Nat
            BY <1>10, <2>1, Widths DEF Reads, Coded
        <3> QED
            BY <2>5, <3>1 DEF Ends
    <2>8. PICK s : Stations(s, b, q, ys, N)
        BY <1>1, <1>8, <2>1, StationsExist
    <2>9. s[0] = q
          /\ \A i \in 1 .. N : Reads(b, s[i - 1], ys[i]) /\ s[i] = s[i - 1] + Len(ys[i])
        BY <2>8 DEF Stations
    <2>10. StringsAt(b, s, names, N)
        <3>1. ASSUME NEW i \in 1 .. N, NEW y
              PROVE  GetString(At(b, s[i - 1], y)) = At(b, s[i], names[i])
            <4> DEFINE e == names[i]
            <4>1. /\ Reads(b, s[i - 1], FlattenSeq(StringValues(e)))
                  /\ s[i] = s[i - 1] + Len(FlattenSeq(StringValues(e)))
                  /\ e \in Seq(STRING)
                BY <1>3, <1>8, <2>9
            <4> HIDE DEF e
            <4>2. GetString(At(b, s[i - 1], y)) = At(b, s[i - 1] + StringBytes(e), e)
                BY <4>1, GetStringReads
            <4>3. s[i] = s[i - 1] + StringBytes(e)
                BY <4>1, StringFacts
            <4> QED
                BY <4>2, <4>3 DEF e
        <3> QED
            BY <3>1, Zenon DEF StringsAt
    <2> DEFINE to == s[N]
    <2>11. N \in Nat /\ Ends(s, N, q, to) /\ IsRow(names, N) /\ IsRow(ports, N)
        BY <1>1, <1>2, <1>3, <2>9 DEF Ends
    <2> HIDE DEF j, q, to, d
    <2>12. ManySizes(At(b, j, N), N) = At(b, q, ports)
        BY <2>6, <2>7, <2>11, ManySizesRead
    <2>13. ManyStrings(At(b, q, ports), N) = At(b, to, names)
        BY <2>10, <2>11, ManyStringsRead
    <2>14. pp = ManySizes(max, max.val) /\ aa = ManyStrings(pp, max.val)
        BY Zenon DEF ManySizes, ManyStrings
    <2>15. max.val = N
        BY <2>3, AtFields
    <2> HIDE DEF max
    <2>16. pp = At(b, q, ports)
        BY <2>3, <2>12, <2>14, <2>15
    <2> HIDE DEF pp
    <2>17. aa = At(b, to, names)
        BY <2>13, <2>14, <2>15, <2>16
    <2> DEFINE val == [i \in 1 .. max.val |->
                          [address |-> IF aa.val[i] = <<>> THEN Null ELSE aa.val[i],
                           port    |-> pp.val[i]]]
    <2>18. GetDirectory(d) = Valued(aa, val)
        BY Zenon DEF GetDirectory, Valued, max, pp
    <2> HIDE DEF aa
    <2>19. aa.val = names /\ pp.val = ports
        BY <2>16, <2>17, AtFields
    <2>20. val = dir
        BY <1>6, <1>7, <2>15, <2>19
    <2> HIDE DEF val
    <2>21. Valued(aa, val) = At(b, to, dir)
        BY <2>17, <2>20, AtValued
    <2> QED
        BY <2>18, <2>21, AtFields DEF d
<1> QED
    BY <1>4, <1>5, <1>13, <1>14, <1>15

-----------------------------------------------------------------------------
\* A segment: columns whose cells all have a value that can be sent.

CellsOf(type) == CASE type = "B" -> BOOLEAN
                   [] type = "S" -> Seq(STRING)
                   [] OTHER      -> Int

IsColumn(type, col, n) == IsRow(col, n) /\ \A r \in 1 .. n : col[r] \in CellsOf(type)

IsTable(df) ==
    /\ df = [types |-> df.types, cols |-> df.cols, nrows |-> df.nrows]
    /\ df.types \in Seq(ColumnTypes) /\ df.nrows \in Nat
    /\ IsRow(df.cols, Len(df.types))
    /\ \A c \in 1 .. Len(df.types) : IsColumn(df.types[c], df.cols[c], df.nrows)

\* The value v of a type is vs as bytes.
ValueRead(type, v, vs) ==
    \A b, k, x : Reads(b, k, FlattenSeq(vs)) =>
        GetValue(type, At(b, k, x)) = At(b, k + Len(FlattenSeq(vs)), v)

LEMMA ValueFacts ==
    ASSUME NEW type \in ColumnTypes, NEW v \in CellsOf(type)
    PROVE  ValueBytes(type, v) \in Seq(Seq(Byte)) /\ ValueRead(type, v, ValueBytes(type, v))
<1>1. CASE type = "B"
    <2> DEFINE x == BoolBytes(v)
    <2>1. v \in BOOLEAN
        BY <1>1, Zenon DEF CellsOf
    <2>2. v \in Data
        BY <2>1, Zenon DEF Data
    <2>3. ValueBytes(type, v) = <<x>>
        BY <1>1, Zenon DEF ValueBytes
    <2>4. x \in Seq(Byte) /\ Len(x) = 1
        BY <2>2, KindBytes, Zenon
    <2>6. ASSUME NEW b, NEW k, NEW y, Reads(b, k, x)
          PROVE  GetValue(type, At(b, k, y)) = At(b, k + 1, v)
        <3>1. GetBool(At(b, k, y)) = At(b, k + 1, v)
            BY <2>2, <2>6, BoolReads, Zenon
        <3> QED
            BY <1>1, <3>1, Zenon DEF GetValue
    <2> HIDE DEF x
    <2>5. <<x>> \in Seq(Seq(Byte)) /\ FlattenSeq(<<x>>) = x
        BY <2>4, FlattenOne
    <2> QED
        BY <2>3, <2>4, <2>5, <2>6, Zenon DEF ValueRead
<1>2. CASE type = "I"
    <2> DEFINE x == IntBytes(v)
    <2>1. v \in Int
        BY <1>2, Zenon DEF CellsOf
    <2>2. v \in Data
        BY <2>1, Zenon DEF Data
    <2>3. ValueBytes(type, v) = <<x>>
        BY <1>2, Zenon DEF ValueBytes
    <2>4. x \in Seq(Byte) /\ Len(x) = IntSize
        BY <2>2, KindBytes, Zenon
    <2>6. ASSUME NEW b, NEW k, NEW y, Reads(b, k, x)
          PROVE  GetValue(type, At(b, k, y)) = At(b, k + IntSize, v)
        <3>1. GetInt(At(b, k, y)) = At(b, k + IntSize, v)
            BY <2>2, <2>6, IntReads, Zenon
        <3> QED
            BY <1>2, <3>1, Zenon DEF GetValue
    <2> HIDE DEF x
    <2>5. <<x>> \in Seq(Seq(Byte)) /\ FlattenSeq(<<x>>) = x
        BY <2>4, FlattenOne
    <2> QED
        BY <2>3, <2>4, <2>5, <2>6, Zenon DEF ValueRead
<1>3. CASE type = "F"
    <2> DEFINE x == DoubleBytes(v)
    <2>1. v \in Int
        BY <1>3, Zenon DEF CellsOf
    <2>2. v \in Data
        BY <2>1, Zenon DEF Data
    <2>3. ValueBytes(type, v) = <<x>>
        BY <1>3, Zenon DEF ValueBytes
    <2>4. x \in Seq(Byte) /\ Len(x) = DoubleSize
        BY <2>2, KindBytes, Zenon
    <2>6. ASSUME NEW b, NEW k, NEW y, Reads(b, k, x)
          PROVE  GetValue(type, At(b, k, y)) = At(b, k + DoubleSize, v)
        <3>1. GetDouble(At(b, k, y)) = At(b, k + DoubleSize, v)
            BY <2>2, <2>6, DoubleReads, Zenon
        <3> QED
            BY <1>3, <3>1, Zenon DEF GetValue
    <2> HIDE DEF x
    <2>5. <<x>> \in Seq(Seq(Byte)) /\ FlattenSeq(<<x>>) = x
        BY <2>4, FlattenOne
    <2> QED
        BY <2>3, <2>4, <2>5, <2>6, Zenon DEF ValueRead
<1>4. CASE type = "S"
    <2> DEFINE vs == StringValues(v)
    <2>1. v \in Seq(STRING)
        BY <1>4, Zenon DEF CellsOf
    <2>2. ValueBytes(type, v) = vs
        BY <1>4, Zenon DEF ValueBytes
    <2>3. vs \in Seq(Seq(Byte)) /\ Len(FlattenSeq(vs)) = StringBytes(v)
        BY <2>1, StringFacts
    <2>4. ASSUME NEW b, NEW k, NEW y, Reads(b, k, FlattenSeq(vs))
          PROVE  GetValue(type, At(b, k, y)) = At(b, k + StringBytes(v), v)
        <3>1. GetString(At(b, k, y)) = At(b, k + StringBytes(v), v)
            BY <2>1, <2>4, GetStringReads
        <3> QED
            BY <1>4, <3>1, Zenon DEF GetValue
    <2> QED
        BY <2>2, <2>3, <2>4, Zenon DEF ValueRead
<1> QED
    BY <1>1, <1>2, <1>3, <1>4, Zenon DEF ColumnTypes

Cells(type, col, n) == [r \in 1 .. n |-> ValueBytes(type, Cell(col, r - 1))]
ColumnValues(type, col, n) == <<EnumBytes(type)>> \o FlattenSeq(Cells(type, col, n))

LEMMA CellsFacts ==
    ASSUME NEW type \in ColumnTypes, NEW n \in Nat, NEW col, IsColumn(type, col, n)
    PROVE  /\ Cells(type, col, n) \in Seq(Seq(Seq(Byte))) /\ Len(Cells(type, col, n)) = n
           /\ \A r \in 1 .. n : ValueRead(type, col[r], Cells(type, col, n)[r])
<1> DEFINE vs == Cells(type, col, n)
<1>1. ASSUME NEW r \in 1 .. n PROVE vs[r] \in Seq(Seq(Byte)) /\ ValueRead(type, col[r], vs[r])
    <2> DEFINE v == col[r]
    <2>1. vs[r] = ValueBytes(type, Cell(col, r - 1))
        BY DEF Cells
    <2>2. (r - 1) + 1 = r
        OBVIOUS
    <2>3. Cell(col, r - 1) = v
        BY <2>2, Zenon DEF Cell
    <2>4. v \in CellsOf(type)
        BY Zenon DEF IsColumn
    <2> HIDE DEF v, vs
    <2>5. ValueBytes(type, v) \in Seq(Seq(Byte)) /\ ValueRead(type, v, ValueBytes(type, v))
        BY <2>4, ValueFacts
    <2>6. vs[r] = ValueBytes(type, v)
        BY <2>1, <2>3
    <2> QED
        BY <2>5, <2>6, Zenon DEF v
<1>2. vs = [r \in 1 .. n |-> vs[r]]
    BY Zenon DEF Cells
<1> HIDE DEF vs
<1>3. vs \in Seq(Seq(Seq(Byte))) /\ Len(vs) = n
    BY <1>1, <1>2, RowOfBytes
<1> QED
    BY <1>1, <1>3 DEF vs

\* One column as bytes is read back.
ColumnRead(type, col, n, vs) ==
    \A b, k, x : Reads(b, k, FlattenSeq(vs)) =>
        /\ GetEnum(At(b, k, x)).val = type
        /\ ManyValues(type, GetEnum(At(b, k, x)), n) = At(b, k + Len(FlattenSeq(vs)), col)

LEMMA ColumnFacts ==
    ASSUME NEW type \in ColumnTypes, NEW n \in Nat, NEW col, IsColumn(type, col, n)
    PROVE  /\ Coded(ColumnValues(type, col, n), Len(FlattenSeq(ColumnValues(type, col, n))))
           /\ ColumnRead(type, col, n, ColumnValues(type, col, n))
<1> DEFINE vs == <<EnumBytes(type)>>
           xs == Cells(type, col, n)
           fs == FlattenSeq(xs)
           ys == Parts(xs, n)
           m == Len(FlattenSeq(fs))
<1>0. type \in Data
    BY Zenon DEF Data
<1>1. Coded(vs, IntSize) /\ FlattenSeq(vs) = EnumBytes(type)
    BY <1>0, EnumCoded
<1>2. /\ xs \in Seq(Seq(Seq(Byte))) /\ Len(xs) = n
      /\ \A r \in 1 .. n : ValueRead(type, col[r], xs[r])
    BY CellsFacts
<1>3. ColumnValues(type, col, n) = vs \o fs
    BY Zenon DEF ColumnValues
<1> HIDE DEF vs, xs
<1>4. /\ ys \in Seq(Seq(Byte)) /\ Len(ys) = n /\ FlattenSeq(fs) = FlattenSeq(ys)
      /\ \A i \in 1 .. n : ys[i] = FlattenSeq(xs[i])
      /\ fs \in Seq(Seq(Byte)) /\ FlattenSeq(fs) \in Seq(Byte)
    BY <1>2, PartsFacts
<1> HIDE DEF ys, fs
<1>5. Coded(fs, m)
    BY <1>4 DEF Coded
<1> HIDE DEF m
<1>6. Coded(vs \o fs, IntSize + m)
    BY <1>1, <1>5, CodedConcat
<1>7. Len(FlattenSeq(vs \o fs)) = IntSize + m /\ IntSize \in Nat /\ m \in Nat
    BY <1>1, <1>5, <1>6 DEF Coded
<1>8. ASSUME NEW b, NEW k, NEW x, Reads(b, k, FlattenSeq(vs \o fs))
      PROVE  /\ GetEnum(At(b, k, x)).val = type
             /\ ManyValues(type, GetEnum(At(b, k, x)), n) = At(b, k + (IntSize + m), col)
    <2> DEFINE q == k + IntSize
               to == k + (IntSize + m)
    <2>1. Reads(b, k, EnumBytes(type)) /\ Reads(b, q, FlattenSeq(fs))
        BY <1>1, <1>5, <1>8, CodedReads
    <2>2. GetEnum(At(b, k, x)) = At(b, q, type)
        BY <1>0, <2>1, EnumReads, Zenon
    <2>3. PICK p : Stations(p, b, q, ys, n)
        BY <1>4, <2>1, StationsExist
    <2>4. p[0] = q /\ p[n] = q + m
          /\ \A i \in 1 .. n : Reads(b, p[i - 1], ys[i]) /\ p[i] = p[i - 1] + Len(ys[i])
        BY <1>4, <2>3 DEF Stations, m
    <2>5. ASSUME NEW i \in 1 .. n, NEW y
          PROVE  GetValue(type, At(b, p[i - 1], y)) = At(b, p[i], col[i])
        <3> DEFINE e == xs[i]
                   v == col[i]
                   o == p[i - 1]
        <3>1. Reads(b, o, FlattenSeq(e)) /\ p[i] = o + Len(FlattenSeq(e))
              /\ ValueRead(type, v, e)
            BY <1>2, <1>4, <2>4
        <3> HIDE DEF e, v, o
        <3>2. GetValue(type, At(b, o, y)) = At(b, o + Len(FlattenSeq(e)), v)
            BY <3>1, Zenon DEF ValueRead
        <3> QED
            BY <3>1, <3>2 DEF v, o
    <2>6. ValuesAt(type, b, p, col, n)
        BY <2>5, Zenon DEF ValuesAt
    <2>7. Ends(p, n, q, to)
        <3>1. k \in Nat
            BY <2>1 DEF Reads
        <3> QED
            BY <1>7, <2>4, <3>1 DEF Ends
    <2>8. IsRow(col, n)
        BY Zenon DEF IsColumn
    <2> HIDE DEF q, to
    <2>9. ManyValues(type, At(b, q, type), n) = At(b, to, col)
        BY <2>6, <2>7, <2>8, ManyValuesRead
    <2> QED
        BY <2>2, <2>9, AtFields DEF to
<1>9. ColumnRead(type, col, n, vs \o fs)
    BY <1>7, <1>8, Zenon DEF ColumnRead
<1> QED
    BY <1>3, <1>6, <1>7, <1>9

LEMMA MaxPair ==
    ASSUME NEW a \in Int, NEW b \in Int
    PROVE  Max({a, b}) = IF a <= b THEN b ELSE a
<1> DEFINE m == IF a <= b THEN b ELSE a
           P(x) == x \in {a, b} /\ \A y \in {a, b} : x >= y
<1>1. P(m)
    OBVIOUS
<1>2. \A x : P(x) => x = m
    OBVIOUS
<1>3. Max({a, b}) = CHOOSE x \in {a, b} : \A y \in {a, b} : x >= y
    BY DEF Max
<1>4. P(CHOOSE x \in {a, b} : \A y \in {a, b} : x >= y)
    <2> HIDE DEF m
    <2> QED
        BY <1>1
<1> HIDE DEF P, m
<1> QED
    BY <1>2, <1>3, <1>4 DEF m

\* The first c of a sequence.
Part(s, c) == [i \in 1 .. c |-> s[i]]

LEMMA PartFacts ==
    ASSUME NEW s, NEW c \in Nat
    PROVE  /\ Len(Part(s, c)) = c
           /\ \A i \in 1 .. c : Part(s, c)[i] = s[i]
           /\ Part(s, c) \in Seq({s[i] : i \in 1 .. c})
BY DEF Part

LEMMA PartGrows ==
    ASSUME NEW s, NEW c \in Nat \ {0}
    PROVE  Append(Part(s, c - 1), s[c]) = Part(s, c)
<1> DEFINE A == {s[i] : i \in 1 .. c}
           p == Part(s, c - 1)
           q == Part(s, c)
           e == s[c]
<1>1. c - 1 \in Nat /\ e \in A
    BY c \in 1 .. c
<1>2. p \in Seq(A) /\ Len(p) = c - 1
    <2>1. \A i \in 1 .. c - 1 : s[i] \in A
        OBVIOUS
    <2> HIDE DEF A
    <2> QED
        BY <1>1, <2>1 DEF Part
<1>3. \A i \in 1 .. c - 1 : p[i] = s[i]
    BY DEF Part
<1>4. q \in Seq(A) /\ Len(q) = c /\ \A i \in 1 .. c : q[i] = s[i]
    BY DEF Part
<1> HIDE DEF A, p, q, e
<1>5. Append(p, e) \in Seq(A) /\ Len(Append(p, e)) = c
    BY <1>1, <1>2
<1>6. ASSUME NEW i \in 1 .. c PROVE Append(p, e)[i] = q[i]
    <2>1. CASE i = c
        BY <1>1, <1>2, <1>4, <2>1 DEF e
    <2>2. CASE i # c
        <3>1. i \in 1 .. c - 1
            BY <2>2
        <3>2. Append(p, e)[i] = p[i]
            BY <1>1, <1>2, <3>1
        <3> QED
            BY <1>3, <1>4, <3>1, <3>2
    <2> QED
        BY <2>1, <2>2
<1>7. Append(p, e) = q
    BY <1>4, <1>5, <1>6
<1> QED
    BY <1>7 DEF p, q, e

\* A dataframe of the first c columns of another.
First(df, c) == [types |-> Part(df.types, c), cols |-> Part(df.cols, c),
                 nrows |-> IF c = 0 THEN 0 ELSE df.nrows]

LEMMA FirstGrows ==
    ASSUME NEW df, IsTable(df), NEW c \in 1 .. Len(df.types)
    PROVE  AddColumn(First(df, c - 1), df.types[c], df.cols[c]) = First(df, c)
<1> DEFINE p == First(df, c - 1)
           n == df.nrows
           col == df.cols[c]
           m == Max({p.nrows, Len(col)})
<1>1. n \in Nat /\ Len(col) = n
    <2>1. n \in Nat /\ IsRow(col, n)
        BY Zenon DEF IsTable, IsColumn
    <2> HIDE DEF n, col
    <2> QED
        BY <2>1 DEF IsRow
<1>2. c \in Nat \ {0} /\ c # 0
    <2>1. Len(df.types) \in Nat
        BY DEF IsTable
    <2> QED
        BY <2>1
<1>3. p.types = Part(df.types, c - 1) /\ p.cols = Part(df.cols, c - 1)
      /\ p.nrows = IF c - 1 = 0 THEN 0 ELSE n
    BY DEF First
<1> HIDE DEF n
<1>4. p.nrows \in Int /\ p.nrows <= n
    BY <1>1, <1>3
<1> HIDE DEF p, col
<1>5. m = n
    <2> DEFINE a == p.nrows
    <2>1. a \in Int /\ n \in Int /\ a <= n /\ m = Max({a, n})
        BY <1>1, <1>4
    <2> HIDE DEF a, m
    <2>2. Max({a, n}) = n
        BY <2>1, MaxPair
    <2> QED
        BY <2>1, <2>2
<1>6. Append(Part(df.types, c - 1), df.types[c]) = Part(df.types, c)
    BY <1>2, PartGrows
<1>7. Append(Part(df.cols, c - 1), df.cols[c]) = Part(df.cols, c)
    BY <1>2, PartGrows
<1>8. AddColumn(p, df.types[c], col) =
          [types |-> Append(p.types, df.types[c]), cols |-> Append(p.cols, col), nrows |-> m]
    BY Zenon DEF AddColumn
<1>9. First(df, c) = [types |-> Part(df.types, c), cols |-> Part(df.cols, c), nrows |-> n]
    BY <1>2, Zenon DEF First, n
<1> HIDE DEF m
<1> QED
    BY <1>3, <1>5, <1>6, <1>7, <1>8, <1>9, Zenon DEF p, col

LEMMA FirstAll ==
    ASSUME NEW df, IsTable(df), Len(df.types) # 0
    PROVE  /\ First(df, 0) = NewDataFrame(<<>>)
           /\ First(df, Len(df.types)) = df
<1>1. /\ df = [types |-> df.types, cols |-> df.cols, nrows |-> df.nrows]
      /\ df.cols = Part(df.cols, Len(df.types))
    BY Zenon DEF IsTable, IsRow, Part
<1>2. df.types = Part(df.types, Len(df.types))
    BY DEF IsTable, Part
<1>3. First(df, Len(df.types)) = [types |-> df.types, cols |-> df.cols, nrows |-> df.nrows]
    BY <1>1, <1>2, Zenon DEF First
<1>4. Part(df.types, 0) = <<>> /\ Part(df.cols, 0) = <<>>
    BY DEF Part
<1>5. [c \in DOMAIN <<>> |-> <<>>] = <<>>
    OBVIOUS
<1>6. NewDataFrame(<<>>) = [types |-> <<>>, cols |-> <<>>, nrows |-> 0]
    BY <1>5, Zenon DEF NewDataFrame
<1>7. First(df, 0) = [types |-> <<>>, cols |-> <<>>, nrows |-> 0]
    BY <1>4, Zenon DEF First
<1> QED
    BY <1>1, <1>3, <1>6, <1>7

\* A Deserializer with the columns read so far.
Acc(b, k, x, f) == [d |-> At(b, k, x), df |-> f]

LEMMA ReadColumnReads ==
    ASSUME NEW type, NEW col, NEW n, NEW vs, ColumnRead(type, col, n, vs),
           NEW b, NEW k, NEW x, Reads(b, k, FlattenSeq(vs)), NEW f
    PROVE  ReadColumn(Acc(b, k, x, f), n) =
               Acc(b, k + Len(FlattenSeq(vs)), col, AddColumn(f, type, col))
<1> DEFINE acc == Acc(b, k, x, f)
           to == k + Len(FlattenSeq(vs))
           e == GetEnum(At(b, k, x))
           values == ManyValues(type, e, n)
<1>1. e.val = type /\ values = At(b, to, col)
    BY Zenon DEF ColumnRead
<1>2. acc.d = At(b, k, x) /\ acc.df = f
    BY DEF Acc
<1>3. values.val = col
    BY <1>1, AtFields
<1> HIDE DEF acc
<1>4. ReadColumn(acc, n) =
          [d  |-> ManyValues(GetEnum(acc.d).val, GetEnum(acc.d), n),
           df |-> AddColumn(acc.df, GetEnum(acc.d).val,
                            ManyValues(GetEnum(acc.d).val, GetEnum(acc.d), n).val)]
    BY Zenon DEF ReadColumn, ManyValues
<1>5. ReadColumn(acc, n) = [d |-> values, df |-> AddColumn(f, type, values.val)]
    BY <1>1, <1>2, <1>4, Zenon
<1>6. [d |-> values, df |-> AddColumn(f, type, values.val)] =
          [d |-> At(b, to, col), df |-> AddColumn(f, type, col)]
    BY <1>1, <1>3, Zenon
<1>7. Acc(b, to, col, AddColumn(f, type, col)) =
          [d |-> At(b, to, col), df |-> AddColumn(f, type, col)]
    BY Zenon DEF Acc
<1> QED
    BY <1>5, <1>6, <1>7, Zenon DEF acc, to

\* The columns of a dataframe, as values.
Columns(df) == [c \in DOMAIN df.types |-> ColumnValues(df.types[c], df.cols[c], df.nrows)]

LEMMA ColumnsFacts ==
    ASSUME NEW df, IsTable(df), NEW N, N = Len(df.types)
    PROVE  /\ Columns(df) \in Seq(Seq(Seq(Byte))) /\ Len(Columns(df)) = N /\ N \in Nat
           /\ \A c \in 1 .. N : ColumnRead(df.types[c], df.cols[c], df.nrows, Columns(df)[c])
<1> DEFINE vs == Columns(df)
           n == df.nrows
<1>1. N \in Nat /\ DOMAIN df.types = 1 .. N /\ n \in Nat
      /\ \A c \in 1 .. N : df.types[c] \in ColumnTypes
    BY DEF IsTable
<1>2. ASSUME NEW c \in 1 .. N
      PROVE  vs[c] \in Seq(Seq(Byte)) /\ ColumnRead(df.types[c], df.cols[c], n, vs[c])
    <2> DEFINE type == df.types[c]
               col == df.cols[c]
               v == ColumnValues(type, col, n)
    <2>1. vs[c] = v
        BY <1>1 DEF Columns
    <2>2. IsColumn(type, col, n) /\ type \in ColumnTypes /\ n \in Nat
        BY <1>1, Zenon DEF IsTable
    <2> HIDE DEF type, col, n, vs
    <2>3. Coded(v, Len(FlattenSeq(v))) /\ ColumnRead(type, col, n, v)
        BY <2>2, ColumnFacts
    <2> HIDE DEF v
    <2>4. v \in Seq(Seq(Byte))
        BY <2>3 DEF Coded
    <2> QED
        BY <2>1, <2>3, <2>4, Zenon DEF type, col
<1>3. vs = [c \in 1 .. N |-> vs[c]]
    BY <1>1, Zenon DEF Columns
<1> HIDE DEF vs
<1>4. vs \in Seq(Seq(Seq(Byte))) /\ Len(vs) = N
    BY <1>1, <1>2, <1>3, RowOfBytes
<1> QED
    BY <1>1, <1>2, <1>4 DEF vs, n

\* The Deserializers between the columns.
ColumnStops(b, p, x, df, n) ==
    [c \in 0 .. n |-> Acc(b, p[c], IF c = 0 THEN x ELSE df.cols[c], First(df, c))]

LEMMA ColumnStopsFacts ==
    ASSUME NEW b, NEW p, NEW x, NEW df, NEW n \in Nat
    PROVE  /\ ColumnStops(b, p, x, df, n)[0] = Acc(b, p[0], x, First(df, 0))
           /\ \A c \in 1 .. n : ColumnStops(b, p, x, df, n)[c]
                                    = Acc(b, p[c], df.cols[c], First(df, c))
           /\ \A c \in 1 .. n : \E y : ColumnStops(b, p, x, df, n)[c - 1]
                                           = Acc(b, p[c - 1], y, First(df, c - 1))
<1> DEFINE w == ColumnStops(b, p, x, df, n)
           cols == df.cols
<1>1. \A i \in 0 .. n : w[i] = Acc(b, p[i], IF i = 0 THEN x ELSE cols[i], First(df, i))
    BY DEF ColumnStops
<1> HIDE DEF w, cols
<1>2. w[0] = Acc(b, p[0], x, First(df, 0))
    BY <1>1
<1>3. \A i \in 1 .. n : w[i] = Acc(b, p[i], cols[i], First(df, i))
    BY <1>1
<1>4. ASSUME NEW i \in 1 .. n PROVE \E y : w[i - 1] = Acc(b, p[i - 1], y, First(df, i - 1))
    <2>1. i - 1 \in 0 .. n
        OBVIOUS
    <2> QED
        BY <1>1, <2>1
<1> QED
    BY <1>2, <1>3, <1>4 DEF w, cols

\* The columns are read one after the other.
ReadAll(start, N, n) ==
    LET read[c \in 0 .. N] == IF c = 0 THEN start ELSE ReadColumn(read[c - 1], n)
    IN  read[N]

\* A dataframe has been read out of b.
Recovered(acc, b, df) == \E to, y : acc = Acc(b, to, y, df)

LEMMA ReadAllReads ==
    ASSUME NEW df, IsTable(df), NEW N, N = Len(df.types), N # 0,
           NEW b, NEW k, NEW x, Reads(b, k, FlattenSeq(FlattenSeq(Columns(df))))
    PROVE  Recovered(ReadAll(Acc(b, k, x, NewDataFrame(<<>>)), N, df.nrows), b, df)
<1> DEFINE xs == Columns(df)
           ys == Parts(xs, N)
           n == df.nrows
           start == Acc(b, k, x, NewDataFrame(<<>>))
           P(f) == f = [c \in 0 .. N |-> IF c = 0 THEN start ELSE ReadColumn(f[c - 1], n)]
           h == CHOOSE f : P(f)
<1>1. /\ xs \in Seq(Seq(Seq(Byte))) /\ Len(xs) = N /\ N \in Nat
      /\ \A c \in 1 .. N : ColumnRead(df.types[c], df.cols[c], n, xs[c])
    BY ColumnsFacts
<1> HIDE DEF xs
<1>2. /\ ys \in Seq(Seq(Byte)) /\ Len(ys) = N
      /\ FlattenSeq(FlattenSeq(xs)) = FlattenSeq(ys)
      /\ \A i \in 1 .. N : ys[i] = FlattenSeq(xs[i])
    BY <1>1, PartsFacts
<1> HIDE DEF ys
<1>3. PICK p : Stations(p, b, k, ys, N)
    <2>1. Reads(b, k, FlattenSeq(ys)) /\ N \in Nat
        BY <1>1, <1>2 DEF xs
    <2> QED
        BY <1>2, <2>1, StationsExist
<1>4. p[0] = k /\ \A i \in 1 .. N : Reads(b, p[i - 1], ys[i]) /\ p[i] = p[i - 1] + Len(ys[i])
    BY <1>3 DEF Stations
<1> DEFINE w == ColumnStops(b, p, x, df, N)
<1>5. w = [c \in 0 .. N |-> w[c]]
    BY Zenon DEF ColumnStops
<1>6. /\ w[0] = Acc(b, p[0], x, First(df, 0))
      /\ \A c \in 1 .. N : w[c] = Acc(b, p[c], df.cols[c], First(df, c))
      /\ \A c \in 1 .. N : \E y : w[c - 1] = Acc(b, p[c - 1], y, First(df, c - 1))
    <2>1. N \in Nat
        BY <1>1
    <2> QED
        BY <2>1, ColumnStopsFacts
<1>7. First(df, 0) = NewDataFrame(<<>>) /\ First(df, N) = df
    BY FirstAll
<1>8. w[0] = start
    BY <1>4, <1>6, <1>7
<1> HIDE DEF w, start, n
<1>9. ASSUME NEW c \in 1 .. N PROVE w[c] = ReadColumn(w[c - 1], n)
    <2>1. PICK y : w[c - 1] = Acc(b, p[c - 1], y, First(df, c - 1))
        BY <1>6
    <2> DEFINE o == p[c - 1]
               v == xs[c]
               col == df.cols[c]
               type == df.types[c]
               g == First(df, c - 1)
    <2>2. Reads(b, o, FlattenSeq(v)) /\ p[c] = o + Len(FlattenSeq(v))
          /\ ColumnRead(type, col, n, v)
        BY <1>1, <1>2, <1>4
    <2>3. AddColumn(g, type, col) = First(df, c)
        BY FirstGrows
    <2>4. w[c] = Acc(b, p[c], col, First(df, c))
        BY <1>6
    <2> HIDE DEF o, v, col, type, g
    <2>5. ReadColumn(Acc(b, o, y, g), n) =
              Acc(b, o + Len(FlattenSeq(v)), col, AddColumn(g, type, col))
        BY <2>2, ReadColumnReads
    <2> QED
        BY <2>1, <2>2, <2>3, <2>4, <2>5, Zenon DEF o, g
<1>10. P(w)
    <2> DEFINE v == [i \in 0 .. N |-> IF i = 0 THEN start ELSE ReadColumn(w[i - 1], n)]
    <2>1. ASSUME NEW i \in 0 .. N PROVE w[i] = v[i]
        <3>1. CASE i = 0
            BY <3>1, <1>8
        <3>2. CASE i # 0
            <4>1. i \in 1 .. N
                BY <1>1, <3>2
            <4>2. w[i] = ReadColumn(w[i - 1], n)
                BY <4>1, <1>9
            <4> QED
                BY <3>2, <4>2
        <3> QED
            BY <3>1, <3>2
    <2>2. v = [i \in 0 .. N |-> v[i]]
        OBVIOUS
    <2> HIDE DEF v
    <2>3. w = v
        BY <1>5, <2>1, <2>2
    <2> QED
        BY <2>3, Zenon DEF v
<1>11. P(h)
    BY <1>10, Zenon
<1>12. ReadAll(start, N, n) = h[N]
    BY Zenon DEF ReadAll
<1> HIDE DEF h
<1>13. h[N] = w[N]
    <2>0. N \in Nat
        BY <1>1
    <2>1. h[0] = w[0]
        BY <1>8, <1>11, <2>0
    <2>2. ASSUME NEW i \in 1 .. N PROVE h[i] = ReadColumn(h[i - 1], n)
        BY <1>11
    <2>3. Steps(h, w, N)
        BY <1>9, <2>2 DEF Steps
    <2>4. \A i \in 0 .. N : h[i] = w[i]
        BY <2>0, <2>1, <2>3, SameSteps
    <2> QED
        BY <2>0, <2>4
<1>14. w[N] = Acc(b, p[N], df.cols[N], df)
    BY <1>1, <1>6, <1>7
<1> QED
    BY <1>12, <1>13, <1>14, Zenon DEF start, n, Recovered

LEMMA DataFrameFacts ==
    ASSUME NEW df, IsTable(df), Len(df.types) # 0
    PROVE  /\ Coded(DataFrameValues(df), Len(FlattenSeq(DataFrameValues(df))))
           /\ \A b, k, x : Reads(b, k, FlattenSeq(DataFrameValues(df))) =>
                  GetDataFrame(At(b, k, x)).val = df
<1> DEFINE N == Len(df.types)
           n == df.nrows
           vs == <<SizeBytes(N), SizeBytes(n)>>
           xs == Columns(df)
           fs == FlattenSeq(xs)
           m == Len(FlattenSeq(fs))
<1>1. /\ xs \in Seq(Seq(Seq(Byte))) /\ N \in Nat
    BY ColumnsFacts
<1>2. N \in Data /\ n \in Data
    BY <1>1 DEF IsTable, Data
<1>3. DataFrameValues(df) = vs \o fs
    BY Zenon DEF DataFrameValues, Columns, ColumnValues, Cells
<1> HIDE DEF N, n
<1>4. /\ Coded(vs, SizeT + SizeT)
      /\ \A b, k, x : Reads(b, k, FlattenSeq(vs)) =>
             /\ GetSizeT(At(b, k, x)) = At(b, k + SizeT, N)
             /\ GetSizeT(At(b, k + SizeT, N)) = At(b, k + (SizeT + SizeT), n)
    BY <1>2, TwoSizes
<1> HIDE DEF vs, xs
<1>5. fs \in Seq(Seq(Byte))
    BY <1>1, FlattenType
<1> HIDE DEF fs
<1>6. FlattenSeq(fs) \in Seq(Byte)
    BY <1>5, FlattenType
<1>7. Coded(fs, m)
    BY <1>5, <1>6 DEF Coded
<1> HIDE DEF m
<1>8. Coded(vs \o fs, (SizeT + SizeT) + m)
    BY <1>4, <1>7, CodedConcat
<1>9. Coded(vs \o fs, Len(FlattenSeq(vs \o fs)))
    BY <1>8 DEF Coded
<1>10. ASSUME NEW b, NEW k, NEW x, Reads(b, k, FlattenSeq(vs \o fs))
       PROVE  GetDataFrame(At(b, k, x)).val = df
    <2> DEFINE d == At(b, k, x)
               c == GetSizeT(d)
               r == GetSizeT(c)
               q == k + (SizeT + SizeT)
               start == [d |-> r, df |-> NewDataFrame(<<>>)]
    <2>1. Reads(b, k, FlattenSeq(vs)) /\ Reads(b, q, FlattenSeq(fs))
        BY <1>4, <1>7, <1>10, CodedReads
    <2>2. c = At(b, k + SizeT, N) /\ r = At(b, q, n)
        BY <1>4, <2>1
    <2>3. c.val = N /\ r.val = n
        BY <2>2, AtFields
    <2> HIDE DEF d, c, r
    <2>4. GetDataFrame(d) = Valued(ReadAll(start, c.val, r.val).d, ReadAll(start, c.val, r.val).df)
        BY Zenon DEF GetDataFrame, ReadAll, Valued, c, r
    <2>5. start = Acc(b, q, n, NewDataFrame(<<>>))
        BY <2>2, Zenon DEF Acc
    <2> HIDE DEF start
    <2>6. PICK to, y : ReadAll(Acc(b, q, n, NewDataFrame(<<>>)), N, n) = Acc(b, to, y, df)
        <3>1. Reads(b, q, FlattenSeq(FlattenSeq(Columns(df))))
            BY <2>1 DEF fs, xs
        <3>2. N = Len(df.types) /\ N # 0
            BY DEF N
        <3> HIDE DEF q
        <3>3. Recovered(ReadAll(Acc(b, q, n, NewDataFrame(<<>>)), N, df.nrows), b, df)
            BY <3>1, <3>2, ReadAllReads
        <3> QED
            BY <3>3, Zenon DEF n, Recovered
    <2>7. ReadAll(start, c.val, r.val) = Acc(b, to, y, df)
        BY <2>3, <2>5, <2>6, Zenon
    <2>8. Acc(b, to, y, df).d = At(b, to, y) /\ Acc(b, to, y, df).df = df
        BY DEF Acc
    <2>9. GetDataFrame(d) = Valued(At(b, to, y), df)
        BY <2>4, <2>7, <2>8, Zenon
    <2>10. Valued(At(b, to, y), df) = At(b, to, df)
        BY AtValued
    <2> QED
        BY <2>9, <2>10, AtFields DEF d
<1> QED
    BY <1>3, <1>9, <1>10

-----------------------------------------------------------------------------
\* Rows that are added one after the other.

Built(types, R, n) ==
    [types |-> types, cols |-> [c \in DOMAIN types |-> [r \in 1 .. n |-> R[r][c]]], nrows |-> n]

Filled(df, cols, n) == [df EXCEPT !.cols = cols, !.nrows = n]

LEMMA FilledRecord ==
    ASSUME NEW t, NEW c, NEW n, NEW d, NEW m
    PROVE  Filled([types |-> t, cols |-> c, nrows |-> n], d, m)
               = [types |-> t, cols |-> d, nrows |-> m]
<1> DEFINE A == {t, c, n, d, m}
           r == [types |-> t, cols |-> c, nrows |-> n]
           s == [r EXCEPT !.cols = d, !.nrows = m]
<1>1. r \in [types : A, cols : A, nrows : A] /\ d \in A /\ m \in A /\ r.types = t
    OBVIOUS
<1> HIDE DEF A, r
<1>2. /\ s.types = r.types /\ s.cols = d /\ s.nrows = m
      /\ s \in [types : A, cols : A, nrows : A]
    BY <1>1
<1> HIDE DEF s
<1>3. s = [types |-> s.types, cols |-> s.cols, nrows |-> s.nrows]
    BY <1>2
<1>4. s = [types |-> t, cols |-> d, nrows |-> m]
    BY <1>1, <1>2, <1>3
<1> QED
    BY <1>4, Zenon DEF s, r, Filled

LEMMA ConcatFacts ==
    ASSUME NEW S, NEW s \in Seq(S), NEW t \in Seq(S)
    PROVE  /\ s \o t \in Seq(S) /\ Len(s \o t) = Len(s) + Len(t)
           /\ \A i \in 1 .. Len(s) : (s \o t)[i] = s[i]
           /\ \A i \in 1 .. Len(t) : (s \o t)[Len(s) + i] = t[i]
OBVIOUS

\* A column is padded by one cell, which is then set.
LEMMA PaddedSet ==
    ASSUME NEW n \in Nat, NEW col, IsRow(col, n), NEW type, NEW v
    PROVE  SetCell(Padded(col, type, n + 1), n, v)
               = [r \in 1 .. n + 1 |-> IF r = n + 1 THEN v ELSE col[r]]
<1> DEFINE A == {col[r] : r \in 1 .. n} \cup {v, Default(type)}
           e == Default(type)
           k == Max({0, (n + 1) - Len(col)})
           p == Padded(col, type, n + 1)
           q == [i \in 1 .. k |-> e]
<1>1. col = [r \in 1 .. n |-> col[r]]
    BY Zenon DEF IsRow
<1>2. \A r \in 1 .. n : col[r] \in A
    OBVIOUS
<1>3. v \in A /\ e \in A
    OBVIOUS
<1> HIDE DEF A, e
<1>4. col \in Seq(A) /\ Len(col) = n
    BY <1>1, <1>2, RowOfBytes
<1>5. k = 1
    <2>1. (n + 1) - Len(col) = 1
        BY <1>4
    <2>2. Max({0, 1}) = 1
        BY MaxPair
    <2> QED
        BY <2>1, <2>2
<1> HIDE DEF k
<1>6. q \in Seq(A) /\ Len(q) = 1
    BY <1>3, <1>5
<1>7. p = col \o q
    BY Zenon DEF Padded, e, k
<1> HIDE DEF p, q
<1>8. p \in Seq(A) /\ Len(p) = n + 1 /\ \A r \in 1 .. n : p[r] = col[r]
    <2>1. /\ col \o q \in Seq(A) /\ Len(col \o q) = Len(col) + Len(q)
          /\ \A r \in 1 .. Len(col) : (col \o q)[r] = col[r]
        BY <1>4, <1>6, ConcatFacts
    <2> QED
        BY <1>4, <1>6, <1>7, <2>1
<1>9. SetCell(p, n, v) = [p EXCEPT ![n + 1] = v]
    BY Zenon DEF SetCell
<1>10. p = [r \in 1 .. n + 1 |-> p[r]] /\ DOMAIN p = 1 .. n + 1
    BY <1>8
<1>11. [p EXCEPT ![n + 1] = v] = [r \in 1 .. n + 1 |-> IF r = n + 1 THEN v ELSE p[r]]
    BY <1>10
<1>12. \A r \in 1 .. n + 1 : r # n + 1 => p[r] = col[r]
    BY <1>8
<1> QED
    BY <1>9, <1>11, <1>12 DEF p

LEMMA BuiltGrows ==
    ASSUME NEW types, NEW R, NEW n \in Nat
    PROVE  AddRow(Built(types, R, n), R[n + 1]) = Built(types, R, n + 1)
<1> DEFINE C(k) == [c \in DOMAIN types |-> [r \in 1 .. k |-> R[r][c]]]
           cols == C(n)
           row == R[n + 1]
           df == Built(types, R, n)
           more == [c \in DOMAIN cols |->
                       SetCell(Padded(cols[c], types[c], n + 1), n, row[c])]
<1>1. df = [types |-> types, cols |-> cols, nrows |-> n]
    BY Zenon DEF Built
<1>2. df.types = types /\ df.cols = cols /\ df.nrows = n
    BY DEF Built
<1>3. AddRow(df, row) = Filled(df, [c \in DOMAIN df.cols |->
          SetCell(Padded(df.cols[c], df.types[c], df.nrows + 1), df.nrows, row[c])],
          Max({df.nrows, df.nrows + 1}))
    BY Zenon DEF AddRow, FillRow, Filled
<1> HIDE DEF df
<1>4. AddRow(df, row) = Filled(df, more, Max({n, n + 1}))
    BY <1>2, <1>3, Zenon
<1>5. Max({n, n + 1}) = n + 1
    BY MaxPair
<1>6. more = C(n + 1)
    <2>1. DOMAIN cols = DOMAIN types
        OBVIOUS
    <2>2. ASSUME NEW c \in DOMAIN types
          PROVE  SetCell(Padded(cols[c], types[c], n + 1), n, row[c]) = C(n + 1)[c]
        <3> DEFINE col == [r \in 1 .. n |-> R[r][c]]
                   v == row[c]
                   type == types[c]
        <3>1. cols[c] = col /\ C(n + 1)[c] = [r \in 1 .. n + 1 |-> R[r][c]]
            OBVIOUS
        <3>2. IsRow(col, n)
            BY DEF IsRow
        <3>3. \A r \in 1 .. n + 1 : (IF r = n + 1 THEN v ELSE col[r]) = R[r][c]
            <4>1. ASSUME NEW r \in 1 .. n + 1 PROVE (IF r = n + 1 THEN v ELSE col[r]) = R[r][c]
                <5>1. CASE r = n + 1
                    BY <5>1
                <5>2. CASE r # n + 1
                    <6>1. r \in 1 .. n
                        BY <5>2
                    <6> QED
                        BY <5>2, <6>1
                <5> QED
                    BY <5>1, <5>2
            <4> QED
                BY <4>1
        <3> HIDE DEF col, v, type
        <3>4. SetCell(Padded(col, type, n + 1), n, v)
                  = [r \in 1 .. n + 1 |-> IF r = n + 1 THEN v ELSE col[r]]
            BY <3>2, PaddedSet
        <3>5. [r \in 1 .. n + 1 |-> IF r = n + 1 THEN v ELSE col[r]]
                  = [r \in 1 .. n + 1 |-> R[r][c]]
            BY <3>3, Zenon
        <3> QED
            BY <3>1, <3>4, <3>5, Zenon DEF v, type
    <2>3. C(n + 1) = [c \in DOMAIN types |-> C(n + 1)[c]]
        OBVIOUS
    <2> HIDE DEF C
    <2>4. more = [c \in DOMAIN types |-> C(n + 1)[c]]
        BY <2>1, <2>2, Zenon
    <2> QED
        BY <2>3, <2>4
<1>7. Filled([types |-> types, cols |-> cols, nrows |-> n], C(n + 1), n + 1)
          = [types |-> types, cols |-> C(n + 1), nrows |-> n + 1]
    <2> DEFINE d == C(n + 1)
               m == n + 1
    <2> HIDE DEF cols, d, m
    <2>1. Filled([types |-> types, cols |-> cols, nrows |-> n], d, m)
              = [types |-> types, cols |-> d, nrows |-> m]
        BY FilledRecord
    <2> QED
        BY <2>1, Zenon DEF d, m
<1>8. Built(types, R, n + 1) = [types |-> types, cols |-> C(n + 1), nrows |-> n + 1]
    BY Zenon DEF Built
<1> QED
    BY <1>1, <1>4, <1>5, <1>6, <1>7, <1>8, Zenon DEF df

LEMMA BuiltEmpty ==
    ASSUME NEW types, NEW R
    PROVE  Built(types, R, 0) = NewDataFrame(types)
<1>1. \A c : [r \in 1 .. 0 |-> R[r][c]] = <<>>
    OBVIOUS
<1>2. [c \in DOMAIN types |-> [r \in 1 .. 0 |-> R[r][c]]] = [c \in DOMAIN types |-> <<>>]
    BY <1>1, Zenon
<1> QED
    BY <1>2, Zenon DEF Built, NewDataFrame

\* The dataframes on the way.
BuiltRows(types, R, N) == [r \in 0 .. N |-> Built(types, R, r)]

LEMMA BuiltRowsFacts ==
    ASSUME NEW types, NEW N \in Nat, NEW R
    PROVE  /\ BuiltRows(types, R, N)[0] = NewDataFrame(types)
           /\ \A r \in 1 .. N : BuiltRows(types, R, N)[r]
                                    = AddRow(BuiltRows(types, R, N)[r - 1], R[r])
           /\ BuiltRows(types, R, N)[N] = Built(types, R, N)
<1> DEFINE w == BuiltRows(types, R, N)
<1>1. \A r \in 0 .. N : w[r] = Built(types, R, r)
    BY DEF BuiltRows
<1> HIDE DEF w
<1>2. w[0] = NewDataFrame(types)
    BY <1>1, BuiltEmpty
<1>3. ASSUME NEW r \in 1 .. N PROVE w[r] = AddRow(w[r - 1], R[r])
    <2>1. r \in 0 .. N /\ r - 1 \in 0 .. N /\ r - 1 \in Nat /\ (r - 1) + 1 = r
        OBVIOUS
    <2>2. AddRow(Built(types, R, r - 1), R[(r - 1) + 1]) = Built(types, R, (r - 1) + 1)
        BY <2>1, BuiltGrows
    <2> QED
        BY <1>1, <2>1, <2>2
<1>4. w[N] = Built(types, R, N)
    BY <1>1
<1> QED
    BY <1>2, <1>3, <1>4 DEF w

-----------------------------------------------------------------------------
\* From the columns of a file to the rows of a segment, and to the rows of its copy.

TypesOf(set) == [c \in 1 .. Len(set) |-> set[c].type]
RowsOf(set)  == [r \in 1 .. Len(set[1].entries) |-> SorerRow(set, r - 1)]
CellOf(set, r, c) == IF set[c].entries[r] = Missing THEN Default(set[c].type)
                     ELSE set[c].entries[r][1]

LEMMA FileFacts ==
    ASSUME NEW set \in File
    PROVE  /\ Len(set) \in Nat \ {0} /\ DOMAIN set = 1 .. Len(set)
           /\ Len(set[1].entries) \in Nat
           /\ \A c \in 1 .. Len(set) : /\ set[c].type \in ColumnTypes
                                       /\ set[c].entries \in Seq(Entry(set[c].type))
                                       /\ Len(set[c].entries) = Len(set[1].entries)
<1> DEFINE U == ColumnOf("B") \cup ColumnOf("I") \cup ColumnOf("F") \cup ColumnOf("S")
           M == Len(set)
<1>1. set \in Seq(U) /\ set # <<>>
      /\ \A c \in DOMAIN set : Len(set[c].entries) = Len(set[1].entries)
    BY Zenon DEF File
<1> HIDE DEF U
<1>2. M \in Nat \ {0} /\ DOMAIN set = 1 .. M /\ \A c \in 1 .. M : set[c] \in U
    BY <1>1
<1>3. ASSUME NEW x \in U PROVE x.type \in ColumnTypes /\ x.entries \in Seq(Entry(x.type))
    <2> DEFINE E(t) == Seq(Entry(t))
    <2>1. \E t \in ColumnTypes : x \in ColumnOf(t)
        BY Zenon DEF U, ColumnTypes
    <2>2. PICK t \in ColumnTypes : x \in ColumnOf(t)
        BY <2>1
    <2>3. x \in [type : {t}, entries : E(t)]
        BY <2>2, Zenon DEF ColumnOf
    <2> HIDE DEF E
    <2>4. x.type = t /\ x.entries \in E(t)
        BY <2>3
    <2> QED
        BY <2>2, <2>4, Zenon DEF E
<1>4. 1 \in 1 .. M
    BY <1>2
<1>5. Len(set[1].entries) \in Nat
    <2> DEFINE e == set[1].entries
               A == Entry(set[1].type)
    <2>1. e \in Seq(A)
        BY <1>2, <1>3, <1>4
    <2> HIDE DEF e, A
    <2>2. Len(e) \in Nat
        BY <2>1
    <2> QED
        BY <2>2 DEF e
<1> QED
    BY <1>1, <1>2, <1>3, <1>5, Zenon

LEMMA SchemaOf ==
    ASSUME NEW set \in File
    PROVE  SorerSchema(set) = TypesOf(set) /\ TypesOf(set) \in Seq(ColumnTypes)
           /\ Len(TypesOf(set)) = Len(set)
<1> DEFINE M == Len(set)
           T == TypesOf(set)
           P(f) == f = [c \in 0 .. M |-> IF c = 0 THEN <<>>
                                        ELSE IF set[c].type = "UNKNOWN" THEN f[c - 1]
                                        ELSE Append(f[c - 1], set[c].type)]
           h == CHOOSE f : P(f)
           w == [c \in 0 .. M |-> Part(T, c)]
<1>1. M \in Nat \ {0} /\ \A c \in 1 .. M : set[c].type \in ColumnTypes
    BY FileFacts
<1>2. ASSUME NEW c \in 1 .. M PROVE T[c] = set[c].type /\ set[c].type # "UNKNOWN"
    <2>1. T[c] = set[c].type
        BY DEF TypesOf
    <2>2. "UNKNOWN" \notin ColumnTypes
        BY DEF ColumnTypes
    <2> QED
        BY <1>1, <2>1, <2>2
<1>3. T = [c \in 1 .. M |-> T[c]] /\ \A c \in 1 .. M : T[c] \in ColumnTypes
    BY <1>1, <1>2, Zenon DEF TypesOf
<1> HIDE DEF T
<1>4. \A c \in 0 .. M : w[c] = Part(T, c)
    OBVIOUS
<1>5. w = [c \in 0 .. M |-> w[c]]
    OBVIOUS
<1> HIDE DEF w
<1>6. w[0] = <<>>
    <2>1. 0 \in 0 .. M
        BY <1>1
    <2>2. Part(T, 0) = <<>>
        BY DEF Part
    <2> QED
        BY <1>4, <2>1, <2>2
<1>7. ASSUME NEW c \in 1 .. M
      PROVE  w[c] = IF set[c].type = "UNKNOWN" THEN w[c - 1] ELSE Append(w[c - 1], set[c].type)
    <2>1. c \in Nat \ {0} /\ c \in 0 .. M /\ c - 1 \in 0 .. M
        BY <1>1
    <2>2. Append(Part(T, c - 1), T[c]) = Part(T, c)
        BY <2>1, PartGrows
    <2>3. w[c] = Part(T, c) /\ w[c - 1] = Part(T, c - 1)
        BY <1>4, <2>1
    <2> QED
        BY <1>2, <2>2, <2>3, Zenon
<1>8. P(w)
    <2> DEFINE v == [c \in 0 .. M |-> IF c = 0 THEN <<>>
                                      ELSE IF set[c].type = "UNKNOWN" THEN w[c - 1]
                                      ELSE Append(w[c - 1], set[c].type)]
    <2>1. ASSUME NEW i \in 0 .. M PROVE w[i] = v[i]
        <3>1. CASE i = 0
            BY <3>1, <1>6
        <3>2. CASE i # 0
            <4>1. i \in 1 .. M
                BY <1>1, <3>2
            <4>2. w[i] = IF set[i].type = "UNKNOWN" THEN w[i - 1]
                         ELSE Append(w[i - 1], set[i].type)
                BY <4>1, <1>7
            <4>3. v[i] = IF i = 0 THEN <<>> ELSE IF set[i].type = "UNKNOWN" THEN w[i - 1]
                         ELSE Append(w[i - 1], set[i].type)
                OBVIOUS
            <4> QED
                BY <3>2, <4>2, <4>3, Zenon
        <3> QED
            BY <3>1, <3>2
    <2>2. v = [i \in 0 .. M |-> v[i]]
        OBVIOUS
    <2> HIDE DEF v
    <2>3. w = v
        BY <1>5, <2>1, <2>2
    <2> QED
        BY <2>3, Zenon DEF v
<1>9. P(h)
    BY <1>8, Zenon
<1>10. SorerSchema(set) = h[M]
    BY Zenon DEF SorerSchema
<1> HIDE DEF h
<1>11. h[M] = w[M]
    <2>0. M \in Nat
        BY <1>1
    <2>1. h[0] = w[0]
        BY <1>6, <1>9, <2>0
    <2>2. ASSUME NEW i \in 1 .. M, h[i - 1] = w[i - 1] PROVE h[i] = w[i]
        <3>1. i \in 0 .. M /\ i # 0
            OBVIOUS
        <3>2. h[i] = IF i = 0 THEN <<>> ELSE IF set[i].type = "UNKNOWN" THEN h[i - 1]
                     ELSE Append(h[i - 1], set[i].type)
            BY <1>9, <3>1, Zenon
        <3> QED
            BY <1>7, <2>2, <3>1, <3>2, Zenon
    <2>3. Steps(h, w, M)
        BY <2>2 DEF Steps
    <2>4. \A i \in 0 .. M : h[i] = w[i]
        BY <2>0, <2>1, <2>3, SameSteps, Zenon
    <2> QED
        BY <2>0, <2>4
<1>12. M \in Nat
    BY <1>1
<1>13. T \in Seq(ColumnTypes) /\ Len(T) = M
    BY <1>3, <1>12, RowOfBytes
<1>14. w[M] = T
    <2>1. M \in 0 .. M
        BY <1>12
    <2>2. Part(T, M) = T
        BY <1>3, Zenon DEF Part
    <2> QED
        BY <1>4, <2>1, <2>2
<1> QED
    BY <1>10, <1>11, <1>13, <1>14 DEF T

\* Rows that are added one after the other make a dataframe of them.
LEMMA ConvertBuilt ==
    ASSUME NEW set \in File
    PROVE  Convert(set) = Built(TypesOf(set), RowsOf(set), Len(set[1].entries))
<1> DEFINE N == Len(set[1].entries)
           T == TypesOf(set)
           R == RowsOf(set)
           start == NewDataFrame(T)
           P(f) == f = [r \in 0 .. N |-> IF r = 0 THEN start
                                        ELSE AddRow(f[r - 1], SorerRow(set, r - 1))]
           h == CHOOSE f : P(f)
           w == BuiltRows(T, R, N)
<1>1. N \in Nat
    BY FileFacts
<1>2. Convert(set) = h[N]
    <2>1. Convert(set) = (CHOOSE f : f = [r \in 0 .. N |->
              IF r = 0 THEN NewDataFrame(SorerSchema(set))
              ELSE AddRow(f[r - 1], SorerRow(set, r - 1))])[N]
        BY Zenon DEF Convert
    <2>2. SorerSchema(set) = T
        BY SchemaOf
    <2> QED
        BY <2>1, <2>2, Zenon
<1>3. \A r \in 1 .. N : R[r] = SorerRow(set, r - 1)
    BY DEF RowsOf
<1>4. w = [r \in 0 .. N |-> w[r]]
    BY Zenon DEF BuiltRows
<1> HIDE DEF N, R, T
<1>5. /\ w[0] = start /\ w[N] = Built(T, R, N)
      /\ \A r \in 1 .. N : w[r] = AddRow(w[r - 1], R[r])
    BY <1>1, BuiltRowsFacts
<1> HIDE DEF w, start, h
<1>6. ASSUME NEW i \in 1 .. N PROVE w[i] = AddRow(w[i - 1], SorerRow(set, i - 1))
    BY <1>3, <1>5
<1>7. P(w)
    <2> DEFINE v == [r \in 0 .. N |-> IF r = 0 THEN start
                                      ELSE AddRow(w[r - 1], SorerRow(set, r - 1))]
    <2>1. ASSUME NEW i \in 0 .. N PROVE w[i] = v[i]
        <3>1. CASE i = 0
            BY <3>1, <1>5
        <3>2. CASE i # 0
            <4>1. i \in 1 .. N
                BY <1>1, <3>2
            <4>2. w[i] = AddRow(w[i - 1], SorerRow(set, i - 1))
                BY <4>1, <1>6
            <4> QED
                BY <3>2, <4>2
        <3> QED
            BY <3>1, <3>2
    <2>2. v = [i \in 0 .. N |-> v[i]]
        OBVIOUS
    <2> HIDE DEF v
    <2>3. w = v
        BY <1>4, <2>1, <2>2
    <2> QED
        BY <2>3, Zenon DEF v
<1>8. P(h)
    BY <1>7, Zenon DEF h
<1>9. h[N] = w[N]
    <2>1. h[0] = w[0]
        BY <1>1, <1>5, <1>8
    <2>2. ASSUME NEW i \in 1 .. N PROVE h[i] = AddRow(h[i - 1], SorerRow(set, i - 1))
        <3>1. i \in 0 .. N /\ i # 0
            BY <1>1
        <3> QED
            BY <1>8, <3>1, Zenon
    <2>3. Steps(h, w, N)
        BY <1>6, <2>2 DEF Steps
    <2>4. \A i \in 0 .. N : h[i] = w[i]
        BY <1>1, <2>1, <2>3, SameSteps, Zenon
    <2> QED
        BY <1>1, <2>4
<1> QED
    BY <1>2, <1>5, <1>9 DEF T, R, N

LEMMA RowCells ==
    ASSUME NEW set \in File, NEW r \in 1 .. Len(set[1].entries), NEW c \in 1 .. Len(set)
    PROVE  RowsOf(set)[r][c] = CellOf(set, r, c)
<1> DEFINE T == TypesOf(set)
<1>1. RowsOf(set)[r] = SorerRow(set, r - 1)
    BY DEF RowsOf
<1>2. SorerSchema(set) = T /\ c \in DOMAIN T
    BY SchemaOf DEF TypesOf
<1> HIDE DEF T
<1>3. SorerRow(set, r - 1)[c] =
          IF set[c].entries[(r - 1) + 1] = Missing THEN Default(set[c].type)
          ELSE set[c].entries[(r - 1) + 1][1]
    BY <1>2, Zenon DEF SorerRow
<1>4. (r - 1) + 1 = r
    BY FileFacts
<1> QED
    BY <1>1, <1>3, <1>4, Zenon DEF CellOf

\* The rows of a dataframe, read from its copy.
LEMMA CopyBuilt ==
    ASSUME NEW types, NEW N \in Nat, NEW R
    PROVE  CopyOf(Built(types, R, N)) = Built(types, R, N)
<1> DEFINE df == Built(types, R, N)
           T == df.types
           M == df.nrows
           Q == [r \in 1 .. M |-> CopyRow(df, r - 1)]
           start == NewDataFrame(T)
           P(f) == f = [r \in 0 .. M |-> IF r = 0 THEN start
                                        ELSE AddRow(f[r - 1], CopyRow(df, r - 1))]
           h == CHOOSE f : P(f)
           w == BuiltRows(T, Q, M)
<1>1. T = types /\ M = N /\ M \in Nat
      /\ df.cols = [c \in DOMAIN T |-> [r \in 1 .. M |-> R[r][c]]]
    BY DEF Built
<1>2. CopyOf(df) = h[M]
    BY Zenon DEF CopyOf
<1> HIDE DEF df, T, M
<1>12. M \in Nat
    BY <1>1
<1>3. \A r \in 1 .. M : Q[r] = CopyRow(df, r - 1)
    OBVIOUS
<1>4. w = [r \in 0 .. M |-> w[r]]
    BY Zenon DEF BuiltRows
<1>5. ASSUME NEW r \in 1 .. M, NEW c \in DOMAIN T PROVE Q[r][c] = R[r][c]
    <2>1. Q[r] = [e \in DOMAIN T |-> Cell(df.cols[e], r - 1)]
        BY <1>3, Zenon DEF CopyRow, T
    <2>2. Q[r][c] = Cell(df.cols[c], r - 1)
        BY <1>1, <2>1
    <2>3. Cell(df.cols[c], r - 1) = df.cols[c][(r - 1) + 1]
        BY Zenon DEF Cell
    <2>4. (r - 1) + 1 = r
        OBVIOUS
    <2>5. df.cols[c] = [e \in 1 .. M |-> R[e][c]]
        BY <1>1
    <2>6. [e \in 1 .. M |-> R[e][c]][r] = R[r][c]
        OBVIOUS
    <2> QED
        BY <2>2, <2>3, <2>4, <2>5, <2>6
<1> HIDE DEF Q
<1>6. Built(T, Q, M) = df
    <2>1. ASSUME NEW c \in DOMAIN T
          PROVE  [r \in 1 .. M |-> Q[r][c]] = [r \in 1 .. M |-> R[r][c]]
        BY <1>5, Zenon
    <2>2. [c \in DOMAIN T |-> [r \in 1 .. M |-> Q[r][c]]]
              = [c \in DOMAIN T |-> [r \in 1 .. M |-> R[r][c]]]
        BY <2>1, Zenon
    <2>3. df = [types |-> T, cols |-> [c \in DOMAIN T |-> [r \in 1 .. M |-> R[r][c]]], nrows |-> M]
        BY <1>1, Zenon DEF Built, df
    <2> QED
        BY <2>2, <2>3, Zenon DEF Built
<1>7. /\ w[0] = start /\ w[M] = Built(T, Q, M)
      /\ \A r \in 1 .. M : w[r] = AddRow(w[r - 1], Q[r])
    BY <1>12, BuiltRowsFacts
<1> HIDE DEF w, start, h
<1>8. ASSUME NEW i \in 1 .. M PROVE w[i] = AddRow(w[i - 1], CopyRow(df, i - 1))
    BY <1>3, <1>7
<1>9. P(w)
    <2> DEFINE v == [r \in 0 .. M |-> IF r = 0 THEN start
                                      ELSE AddRow(w[r - 1], CopyRow(df, r - 1))]
    <2>1. ASSUME NEW i \in 0 .. M PROVE w[i] = v[i]
        <3>1. CASE i = 0
            BY <3>1, <1>7
        <3>2. CASE i # 0
            <4>1. i \in 1 .. M
                BY <1>1, <3>2
            <4>2. w[i] = AddRow(w[i - 1], CopyRow(df, i - 1))
                BY <4>1, <1>8
            <4> QED
                BY <3>2, <4>2
        <3> QED
            BY <3>1, <3>2
    <2>2. v = [i \in 0 .. M |-> v[i]]
        OBVIOUS
    <2> HIDE DEF v
    <2>3. w = v
        BY <1>4, <2>1, <2>2
    <2> QED
        BY <2>3, Zenon DEF v
<1>10. P(h)
    BY <1>9, Zenon DEF h
<1>11. h[M] = w[M]
    <2>1. h[0] = w[0]
        BY <1>1, <1>7, <1>10
    <2>2. ASSUME NEW i \in 1 .. M PROVE h[i] = AddRow(h[i - 1], CopyRow(df, i - 1))
        <3>1. i \in 0 .. M /\ i # 0
            BY <1>1
        <3> QED
            BY <1>10, <3>1, Zenon
    <2>3. Steps(h, w, M)
        BY <1>8, <2>2 DEF Steps
    <2>4. \A i \in 0 .. M : h[i] = w[i]
        BY <1>12, <2>1, <2>3, SameSteps
    <2> QED
        BY <1>1, <2>4
<1> QED
    BY <1>2, <1>6, <1>7, <1>11 DEF df

AreRows(rows, types, R, N) ==
    /\ Len(rows) = N /\ DOMAIN rows = 1 .. N
    /\ \A r \in 1 .. N, c \in DOMAIN types : rows[r][c] = R[r][c]

LEMMA MappedBuilt ==
    ASSUME NEW types, NEW N \in Nat, NEW R
    PROVE  AreRows(MappedRows(Built(types, R, N)), types, R, N)
<1> DEFINE df == Built(types, R, N)
           rows == MappedRows(df)
<1>1. df.types = types /\ df.nrows = N
      /\ df.cols = [c \in DOMAIN types |-> [r \in 1 .. N |-> R[r][c]]]
    BY DEF Built
<1> HIDE DEF df
<1>2. rows = [r \in 1 .. N |-> CopyRow(df, r - 1)]
    BY <1>1, Zenon DEF MappedRows
<1>3. Len(rows) = N /\ DOMAIN rows = 1 .. N
    <2> DEFINE A == {CopyRow(df, r - 1) : r \in 1 .. N}
    <2>1. \A r \in 1 .. N : rows[r] = CopyRow(df, r - 1) /\ CopyRow(df, r - 1) \in A
        BY <1>2
    <2> HIDE DEF A
    <2>2. rows = [r \in 1 .. N |-> rows[r]] /\ \A r \in 1 .. N : rows[r] \in A
        BY <1>2, <2>1
    <2> HIDE DEF rows
    <2>3. Len(rows) = N
        BY <2>2, RowOfBytes
    <2> QED
        BY <2>2, <2>3
<1>4. ASSUME NEW r \in 1 .. N, NEW c \in DOMAIN types PROVE rows[r][c] = R[r][c]
    <2>1. rows[r] = [e \in DOMAIN df.types |-> Cell(df.cols[e], r - 1)]
        BY <1>2, Zenon DEF CopyRow
    <2>2. rows[r][c] = Cell(df.cols[c], r - 1)
        BY <1>1, <2>1
    <2>3. Cell(df.cols[c], r - 1) = df.cols[c][(r - 1) + 1]
        BY Zenon DEF Cell
    <2>4. (r - 1) + 1 = r
        OBVIOUS
    <2>5. df.cols[c] = [e \in 1 .. N |-> R[e][c]]
        BY <1>1
    <2>6. [e \in 1 .. N |-> R[e][c]][r] = R[r][c]
        OBVIOUS
    <2> QED
        BY <2>2, <2>3, <2>4, <2>5, <2>6
<1> QED
    BY <1>3, <1>4, Zenon DEF df, AreRows

\* A file without missing strings becomes a segment that can be sent.
LEMMA ConvertTable ==
    ASSUME NEW set \in File, Serializable(Convert(set))
    PROVE  IsTable(Convert(set)) /\ Len(Convert(set).types) # 0
<1> DEFINE N == Len(set[1].entries)
           M == Len(set)
           T == TypesOf(set)
           R == RowsOf(set)
           C == [c \in DOMAIN T |-> [r \in 1 .. N |-> R[r][c]]]
           df == Convert(set)
<1>1. /\ M \in Nat \ {0} /\ N \in Nat
      /\ \A c \in 1 .. M : set[c].type \in ColumnTypes
                           /\ set[c].entries \in Seq(Entry(set[c].type))
                           /\ Len(set[c].entries) = N
    BY FileFacts
<1>2. T \in Seq(ColumnTypes) /\ Len(T) = M /\ DOMAIN T = 1 .. M
    BY SchemaOf DEF TypesOf
<1>3. df = [types |-> T, cols |-> C, nrows |-> N]
    BY ConvertBuilt, Zenon DEF Built
<1>4. df.types = T /\ df.cols = C /\ df.nrows = N
    <2> HIDE DEF df, T, C, N
    <2> QED
        BY <1>3
<1>5. \A c \in 1 .. M : T[c] = set[c].type
    BY DEF TypesOf
<1>6. ASSUME NEW c \in 1 .. M, NEW r \in 1 .. N PROVE C[c][r] \in CellsOf(T[c])
    <2> DEFINE e == set[c].entries[r]
               type == T[c]
    <2>1. C[c][r] = IF e = Missing THEN Default(type) ELSE e[1]
        <3>1. C[c][r] = R[r][c]
            BY <1>2
        <3>2. R[r][c] = CellOf(set, r, c)
            BY RowCells
        <3> HIDE DEF C, R
        <3> QED
            BY <1>5, <3>1, <3>2, Zenon DEF CellOf
    <2>2. e \in Entry(type) /\ type \in ColumnTypes
        <3>1. set[c].entries \in Seq(Entry(type)) /\ Len(set[c].entries) = N
              /\ type \in ColumnTypes
            BY <1>1, <1>5
        <3> HIDE DEF type
        <3> QED
            BY <3>1
    <2> DEFINE V == CASE type = "B" -> BOOLEAN [] type = "S" -> Text [] OTHER -> Int
    <2>3. e # Missing => e[1] \in V
        <3>1. e # Missing => e \in [1 .. 1 -> V]
            BY <2>2, Zenon DEF Entry
        <3> HIDE DEF e, V
        <3> QED
            BY <3>1
    <2>4. CASE type = "S"
        <3>1. V = Text
            BY <2>4, Zenon
        <3>2. e # Missing
            <4> SUFFICES ASSUME e = Missing PROVE FALSE
                OBVIOUS
            <4>1. C[c][r] = Null
                BY <2>1, <2>4, Zenon DEF Default
            <4>2. r \in DOMAIN C[c]
                BY <1>2
            <4>3. Null \in Range(C[c])
                BY <4>1, <4>2, Zenon DEF Range
            <4>4. Null \notin Range(C[c])
                <5>1. \A i \in DOMAIN df.types : df.types[i] = "S" => Null \notin Range(df.cols[i])
                    BY Zenon DEF Serializable
                <5> HIDE DEF df, C
                <5> QED
                    BY <1>2, <1>4, <2>4, <5>1, Zenon
            <4> QED
                BY <4>3, <4>4
        <3>3. C[c][r] \in Text
            BY <2>1, <2>3, <3>1, <3>2, Zenon
        <3>4. CellsOf(type) = Seq(STRING)
            BY <2>4, Zenon DEF CellsOf
        <3> QED
            BY <3>3, <3>4, Zenon DEF Text
    <2>5. CASE type = "B"
        <3>1. V = BOOLEAN /\ CellsOf(type) = BOOLEAN /\ Default(type) = FALSE
            BY <2>5, Zenon DEF CellsOf, Default
        <3> QED
            BY <2>1, <2>3, <3>1, Zenon
    <2>6. CASE type = "I"
        <3>1. V = Int /\ CellsOf(type) = Int /\ Default(type) = 0
            BY <2>6, Zenon DEF CellsOf, Default
        <3>2. 0 \in Int
            OBVIOUS
        <3>3. CASE e = Missing
            <4>1. C[c][r] = Default(type)
                BY <2>1, <3>3, Zenon
            <4>2. Default(type) \in CellsOf(type)
                BY <3>1
            <4> QED
                BY <4>1, <4>2, Zenon
        <3>4. CASE e # Missing
            <4>1. e[1] \in Int
                BY <2>3, <3>1, <3>4, Zenon
            <4>2. C[c][r] = e[1]
                BY <2>1, <3>4, Zenon
            <4> QED
                BY <3>1, <4>1, <4>2, Zenon
        <3> QED
            BY <3>3, <3>4, Zenon
    <2>7. CASE type = "F"
        <3>1. V = Int /\ CellsOf(type) = Int /\ Default(type) = 0
            BY <2>7, Zenon DEF CellsOf, Default
        <3>2. 0 \in Int
            OBVIOUS
        <3>3. CASE e = Missing
            <4>1. C[c][r] = Default(type)
                BY <2>1, <3>3, Zenon
            <4>2. Default(type) \in CellsOf(type)
                BY <3>1
            <4> QED
                BY <4>1, <4>2, Zenon
        <3>4. CASE e # Missing
            <4>1. e[1] \in Int
                BY <2>3, <3>1, <3>4, Zenon
            <4>2. C[c][r] = e[1]
                BY <2>1, <3>4, Zenon
            <4> QED
                BY <3>1, <4>1, <4>2, Zenon
        <3> QED
            BY <3>3, <3>4, Zenon
    <2> QED
        BY <2>2, <2>4, <2>5, <2>6, <2>7, Zenon DEF ColumnTypes
<1>7. ASSUME NEW c \in 1 .. M PROVE IsColumn(T[c], C[c], N)
    <2>1. C[c] = [r \in 1 .. N |-> R[r][c]]
        BY <1>2
    <2>2. \A r \in 1 .. N : C[c][r] = R[r][c]
        BY <2>1
    <2> HIDE DEF C
    <2>3. C[c] = [r \in 1 .. N |-> C[c][r]]
        BY <2>1, <2>2, Zenon
    <2> QED
        BY <1>6, <2>3, Zenon DEF IsColumn, IsRow
<1>8. IsRow(C, M)
    <2>1. C = [c \in 1 .. M |-> C[c]]
        BY <1>2
    <2> HIDE DEF C
    <2> QED
        BY <2>1, Zenon DEF IsRow
<1> HIDE DEF df, T, C, N
<1>9. IsTable(df)
    BY <1>1, <1>2, <1>3, <1>4, <1>7, <1>8, Zenon DEF IsTable
<1>10. Len(df.types) # 0
    BY <1>1, <1>2, <1>4
<1> QED
    BY <1>9, <1>10 DEF df

\* The rows of a segment, as they are read from a copy.
LEMMA ConvertRows ==
    ASSUME NEW set \in File
    PROVE  /\ Len(MappedRows(CopyOf(Convert(set)))) = Len(set[1].entries)
           /\ \A r \in DOMAIN MappedRows(CopyOf(Convert(set))), c \in DOMAIN set :
                  MappedRows(CopyOf(Convert(set)))[r][c] = CellOf(set, r, c)
<1> DEFINE N == Len(set[1].entries)
           M == Len(set)
           T == TypesOf(set)
           R == RowsOf(set)
           rows == MappedRows(Built(T, R, N))
<1>1. N \in Nat /\ DOMAIN set = 1 .. M
    BY FileFacts
<1>2. DOMAIN T = 1 .. M
    BY DEF TypesOf
<1>3. \A r \in 1 .. N, c \in 1 .. M : R[r][c] = CellOf(set, r, c)
    BY RowCells
<1>6. N \in Nat
    BY <1>1
<1>4. CopyOf(Convert(set)) = Built(T, R, N)
    <2>1. Convert(set) = Built(T, R, N)
        BY ConvertBuilt
    <2> HIDE DEF N, T, R
    <2> QED
        BY <1>6, <2>1, CopyBuilt
<1>5. /\ Len(rows) = N /\ DOMAIN rows = 1 .. N
      /\ \A r \in 1 .. N, c \in DOMAIN T : rows[r][c] = R[r][c]
    <2>1. AreRows(rows, T, R, N)
        <3> HIDE DEF N, T, R
        <3> QED
            BY <1>6, MappedBuilt
    <2> HIDE DEF N, T, R, rows
    <2> QED
        BY <2>1, Zenon DEF AreRows
<1> HIDE DEF N, M, T, R, rows
<1>7. Len(rows) = N /\ \A r \in DOMAIN rows, c \in DOMAIN set : rows[r][c] = CellOf(set, r, c)
    BY <1>1, <1>2, <1>3, <1>5
<1> QED
    BY <1>4, <1>7, Zenon DEF rows, N

-----------------------------------------------------------------------------
\* What a Serializer holds, and when it fits.

SerializerState == [bytes : Seq(Byte), size : Nat, overrun : BOOLEAN]

GrownSize(ser, value) ==
    IF ser.size - Len(ser.bytes) >= Len(value) THEN ser.size ELSE ser.size * ser.size

SetOverrun(ser, value) == ser.overrun \/ Len(ser.bytes) + Len(value) > GrownSize(ser, value)

LEMMA SetGenericIs ==
    ASSUME NEW ser \in SerializerState, NEW value \in Seq(Byte)
    PROVE  SetGeneric(ser, value) = [bytes   |-> ser.bytes \o value,
                                     size    |-> GrownSize(ser, value),
                                     overrun |-> SetOverrun(ser, value)]
<1> DEFINE b == ser.bytes
           n == ser.size
           o == ser.overrun
           fits == n - Len(b) >= Len(value)
           m == GrownSize(ser, value)
           grown == IF fits THEN ser ELSE GrowBuffer(ser)
           s == b \o value
           p == SetOverrun(ser, value)
           last == [grown EXCEPT !.bytes = s, !.overrun = p]
<1>1. b \in Seq(Byte) /\ n \in Nat /\ o \in BOOLEAN /\ ser = [bytes |-> b, size |-> n, overrun |-> o]
    BY DEF SerializerState
<1>2. grown = [bytes |-> b, size |-> m, overrun |-> o]
    <2>1. CASE fits
        <3>1. m = n
            BY <2>1, Zenon DEF GrownSize
        <3> QED
            BY <1>1, <2>1, <3>1, Zenon
    <2>2. CASE ~ fits
        <3>1. m = n * n
            BY <2>2, Zenon DEF GrownSize
        <3>2. grown = [ser EXCEPT !.size = n * n]
            BY <2>2, Zenon DEF GrowBuffer
        <3> HIDE DEF b, n, o, grown, m
        <3>3. [[bytes |-> b, size |-> n, overrun |-> o] EXCEPT !.size = n * n]
                  = [bytes |-> b, size |-> n * n, overrun |-> o]
            OBVIOUS
        <3> QED
            BY <1>1, <3>1, <3>2, <3>3, Zenon
    <2> QED
        BY <2>1, <2>2
<1>3. grown.bytes = b /\ grown.size = m /\ grown.overrun = o
    <2> HIDE DEF grown, b, m, o
    <2> QED
        BY <1>2
<1>4. SetGeneric(ser, value)
          = [grown EXCEPT !.bytes = grown.bytes \o value,
                          !.overrun = grown.overrun \/ Len(ser.bytes) + Len(value) > grown.size]
    BY Zenon DEF SetGeneric
<1>5. p = (o \/ Len(b) + Len(value) > m)
    BY Zenon DEF SetOverrun
<1> HIDE DEF grown, b, n, o, m, p, s, last
<1>6. SetGeneric(ser, value) = last
    BY <1>3, <1>4, <1>5, Zenon DEF s, last, b
<1>7. last = [bytes |-> s, size |-> m, overrun |-> p]
    <2> DEFINE A == {b, m, o, s, p}
               r == [grown EXCEPT !.bytes = s, !.overrun = p]
    <2>1. grown \in [bytes : A, size : A, overrun : A] /\ s \in A /\ p \in A /\ grown.size = m
        BY <1>2
    <2> HIDE DEF A
    <2>2. /\ r.bytes = s /\ r.size = grown.size /\ r.overrun = p
          /\ r \in [bytes : A, size : A, overrun : A]
        BY <2>1
    <2> HIDE DEF r
    <2>3. r = [bytes |-> r.bytes, size |-> r.size, overrun |-> r.overrun]
        BY <2>2
    <2>4. r = [bytes |-> s, size |-> m, overrun |-> p]
        BY <2>1, <2>2, <2>3
    <2> QED
        BY <2>4, Zenon DEF last, r
<1> QED
    BY <1>6, <1>7, Zenon DEF s, m, p, b

LEMMA SetGenericFacts ==
    ASSUME NEW ser \in SerializerState, NEW value \in Seq(Byte)
    PROVE  /\ SetGeneric(ser, value) \in SerializerState
           /\ SetGeneric(ser, value).bytes = ser.bytes \o value
           /\ SetGeneric(ser, value).size = GrownSize(ser, value)
           /\ SetGeneric(ser, value).overrun = SetOverrun(ser, value)
<1> DEFINE s == ser.bytes \o value
           m == GrownSize(ser, value)
           p == SetOverrun(ser, value)
           b == ser.bytes
           n == ser.size
<1>1. SetGeneric(ser, value) = [bytes |-> s, size |-> m, overrun |-> p]
    BY SetGenericIs
<1>2. b \in Seq(Byte) /\ n \in Nat
    BY DEF SerializerState
<1>3. s \in Seq(Byte)
    <2> HIDE DEF b
    <2> QED
        BY <1>2, ConcatFacts DEF b
<1>4. m \in Nat
    <2>1. n * n \in Nat
        <3> HIDE DEF n
        <3> QED
            BY <1>2
    <2> QED
        BY <1>2, <2>1, Zenon DEF GrownSize
<1>5. p \in BOOLEAN
    BY DEF SetOverrun, SerializerState
<1> HIDE DEF s, m, p
<1>6. [bytes |-> s, size |-> m, overrun |-> p] \in SerializerState
    BY <1>3, <1>4, <1>5 DEF SerializerState
<1> QED
    BY <1>1, <1>6 DEF s, m, p

LEMMA NewSerializerFacts ==
    NewSerializer \in SerializerState /\ NewSerializer.bytes = <<>>
    /\ NewSerializer.size = StartSize /\ NewSerializer.overrun = FALSE
BY StartSizeAssumption DEF NewSerializer, SerializerState

\* The Serializers while values are set one by one.
Sets(f, vs, N) ==
    /\ f[0] = NewSerializer
    /\ \A k \in 1 .. N : f[k] = SetGeneric(f[k - 1], vs[k])
    /\ \A k \in 0 .. N : f[k] \in SerializerState
    /\ Serialize(vs) = f[N]

LEMMA SetsExist ==
    ASSUME NEW vs \in Seq(Seq(Byte)), NEW N \in Nat, Len(vs) = N
    PROVE  \E f : Sets(f, vs, N)
<1> DEFINE F == [ser \in SerializerState |-> [v \in Seq(Byte) |-> SetGeneric(ser, v)]]
           Eq(g) == g = [s \in SUBSET (DOMAIN vs) |->
                            IF s = {} THEN NewSerializer
                            ELSE SetGeneric(g[s \ {Max(s)}], vs[Max(s)])]
           h == CHOOSE g : Eq(g)
           B == Seq(Byte)
<1>1. DOMAIN vs = 1 .. N /\ \A k \in 1 .. N : vs[k] \in B
    OBVIOUS
<1>2. F \in [SerializerState -> [B -> SerializerState]]
    BY SetGenericFacts
<1>3. \A s : Max(s) = Largest(s)
    BY DEF Max, Largest
<1>4. \E g : Eq(g)
    <2>1. PICK g \in [SUBSET (1 .. N) -> SerializerState] : FoldOf(g, NewSerializer, F, vs, N)
        <3>1. NewSerializer \in SerializerState
            BY NewSerializerFacts
        <3> HIDE DEF F, B
        <3>2. HasFold(SerializerState, NewSerializer, F, vs, N)
            BY <1>1, <1>2, <3>1, FoldExists
        <3> QED
            BY <3>2 DEF HasFold
    <2>2. ASSUME NEW s \in SUBSET (1 .. N)
          PROVE  g[s] = IF s = {} THEN NewSerializer
                        ELSE SetGeneric(g[s \ {Max(s)}], vs[Max(s)])
        <3>1. CASE s = {}
            BY <2>1, <3>1 DEF FoldOf
        <3>2. CASE s # {}
            <4>1. Max(s) \in 1 .. N
                BY <1>3, <3>2, LargestElement
            <4> DEFINE a == g[s \ {Max(s)}]
                       v == vs[Max(s)]
            <4>2. a \in SerializerState /\ v \in B
                BY <4>1, <1>1
            <4> HIDE DEF a, v
            <4>3. F[a][v] = SetGeneric(a, v)
                BY <4>2
            <4> HIDE DEF F, B
            <4>4. g[s] = F[g[s \ {Largest(s)}]][vs[Largest(s)]]
                BY <2>1, <3>2, Zenon DEF FoldOf
            <4> QED
                BY <1>3, <3>2, <4>3, <4>4, Zenon DEF a, v
        <3> QED
            BY <3>1, <3>2
    <2>3. Eq(g)
        <3> HIDE DEF F
        <3> QED
            BY <2>2, <1>1
    <2> QED
        BY <2>3
<1>5. Eq(h)
    BY <1>4
<1>6. Serialize(vs) = h[1 .. N]
    BY <1>1 DEF Serialize, FoldLeft, MapThenFoldSet
<1> HIDE DEF h
<1>7. h[{}] = NewSerializer
    BY <1>5
<1>8. ASSUME NEW k \in 1 .. N
      PROVE  h[1 .. k] = SetGeneric(h[1 .. k - 1], vs[k])
    <2>1. 1 .. k \in SUBSET (DOMAIN vs) /\ 1 .. k # {}
        <3>1. k \in 1 .. k /\ 1 .. k \in SUBSET (1 .. N)
            OBVIOUS
        <3>2. 1 .. k # {}
            BY <3>1
        <3> QED
            BY <1>1, <3>1, <3>2, Zenon
    <2>2. Max(1 .. k) = k /\ (1 .. k) \ {k} = 1 .. k - 1
        BY <1>3, LargestOfInterval
    <2>3. h[1 .. k] = SetGeneric(h[(1 .. k) \ {Max(1 .. k)}], vs[Max(1 .. k)])
        BY <1>5, <2>1
    <2> QED
        BY <2>2, <2>3
<1> DEFINE f == [k \in 0 .. N |-> h[1 .. k]]
<1>9. f[0] = NewSerializer
    <2>1. 1 .. 0 = {}
        OBVIOUS
    <2>2. f[0] = h[1 .. 0]
        OBVIOUS
    <2> QED
        BY <1>7, <2>1, <2>2
<1>10. ASSUME NEW k \in 1 .. N PROVE f[k] = SetGeneric(f[k - 1], vs[k])
    <2>1. f[k] = h[1 .. k] /\ f[k - 1] = h[1 .. k - 1]
        OBVIOUS
    <2> QED
        BY <1>8, <2>1
<1>11. f[N] = h[1 .. N]
    OBVIOUS
<1> HIDE DEF f
<1> DEFINE T == {j \in Nat : j <= N => f[j] \in SerializerState}
<1>12. 0 \in T
    BY <1>9, NewSerializerFacts
<1>13. ASSUME NEW j \in Nat, j \in T PROVE j + 1 \in T
    <2> SUFFICES ASSUME j + 1 <= N PROVE f[j + 1] \in SerializerState
        OBVIOUS
    <2> DEFINE a == f[j]
               v == vs[j + 1]
    <2>1. j + 1 \in 1 .. N /\ (j + 1) - 1 = j /\ a \in SerializerState
        BY <1>13
    <2>2. v \in Seq(Byte) /\ f[j + 1] = SetGeneric(a, v)
        BY <1>1, <1>10, <2>1
    <2> HIDE DEF a, v
    <2> QED
        BY <2>1, <2>2, SetGenericFacts
<1> HIDE DEF T
<1>14. \A j \in Nat : j \in T
    BY <1>12, <1>13, InductionSet
<1>15. \A k \in 0 .. N : f[k] \in SerializerState
    BY <1>14 DEF T
<1> QED
    BY <1>6, <1>9, <1>10, <1>11, <1>15 DEF Sets

\* A Serializer holds the values it was given.
LEMMA SerializeBytes ==
    ASSUME NEW vs \in Seq(Seq(Byte))
    PROVE  Serialize(vs).bytes = FlattenSeq(vs) /\ Serialize(vs) \in SerializerState
<1> DEFINE N == Len(vs)
<1>1. N \in Nat /\ Len(vs) = N /\ \A k \in 1 .. N : vs[k] \in Seq(Byte)
    OBVIOUS
<1>0. N \in Nat
    OBVIOUS
<1> HIDE DEF N
<1>2. PICK f : Sets(f, vs, N)
    BY <1>1, SetsExist
<1>3. PICK g : Flats(g, vs, Byte)
    BY FlatsExist
<1>4. g[0] = <<>> /\ Grows(g, vs, N) /\ FlattenSeq(vs) = g[N]
    BY <1>1, <1>3, FlatsFacts
<1> DEFINE e == [k \in 0 .. N |-> f[k].bytes]
<1>5. \A k \in 0 .. N : e[k] = f[k].bytes
    OBVIOUS
<1> HIDE DEF e
<1>6. e[0] = <<>>
    BY <1>0, <1>2, <1>5, NewSerializerFacts DEF Sets
<1>7. ASSUME NEW k \in 1 .. N PROVE e[k] = e[k - 1] \o vs[k]
    <2> DEFINE a == f[k - 1]
               v == vs[k]
    <2>1. k \in 0 .. N /\ k - 1 \in 0 .. N
        BY <1>0
    <2>2. a \in SerializerState /\ v \in Seq(Byte) /\ f[k] = SetGeneric(a, v)
        BY <1>1, <1>2, <2>1, Zenon DEF Sets
    <2>3. e[k] = f[k].bytes /\ e[k - 1] = a.bytes
        BY <1>5, <2>1
    <2> HIDE DEF a, v
    <2>4. SetGeneric(a, v).bytes = a.bytes \o v
        BY <2>2, SetGenericFacts
    <2> QED
        BY <2>2, <2>3, <2>4, Zenon DEF v
<1>8. Grows(e, vs, N)
    BY <1>7, Zenon DEF Grows
<1>9. e[N] = g[N]
    BY <1>0, <1>4, <1>6, <1>8, GrowsUnique
<1>10. e[N] = f[N].bytes /\ f[N] \in SerializerState /\ Serialize(vs) = f[N]
    <2>1. N \in 0 .. N
        BY <1>0
    <2> QED
        BY <1>2, <1>5, <2>1, Zenon DEF Sets
<1> QED
    BY <1>4, <1>9, <1>10, Zenon

\* Squares of sizes.
LEMMA Squares ==
    ASSUME NEW n \in Nat, NEW s \in Nat \ {0}, s <= n
    PROVE  n * n \in Nat /\ n <= n * n /\ s * s - s <= n * n - n /\ s * s \in Nat
<1>1. n * n \in Nat /\ s * s \in Nat
    BY SMTT(20)
<1> DEFINE k == n - s
<1>2. k \in Nat /\ n = s + k
    OBVIOUS
<1> HIDE DEF k
<1>3. n * n = s * s + s * k + s * k + k * k
    BY <1>2, SMTT(20)
<1>4. s * k \in Nat /\ k * k \in Nat /\ k <= s * k
    BY <1>2, SMTT(20)
<1>5. s * s - s <= n * n - n
    BY <1>1, <1>2, <1>3, <1>4
<1>6. n <= n * n
    BY <1>2, SMTT(20)
<1> QED
    BY <1>1, <1>5, <1>6

\* A buffer that has room, and a value that is not out of proportion.
HasRoom(ser) ==
    /\ ser \in SerializerState /\ ser.overrun = FALSE
    /\ StartSize <= ser.size /\ Len(ser.bytes) <= ser.size

LEMMA SetFits ==
    ASSUME NEW ser, HasRoom(ser), NEW v \in Seq(Byte), Len(v) <= LongestValue
    PROVE  HasRoom(SetGeneric(ser, v))
<1> DEFINE next == SetGeneric(ser, v)
           b == ser.bytes
           n == ser.size
           l == Len(b)
           k == Len(v)
           m == GrownSize(ser, v)
<1>1. ser \in SerializerState /\ ser.overrun = FALSE /\ StartSize <= n /\ l <= n
      /\ b \in Seq(Byte) /\ n \in Nat
    BY DEF HasRoom, SerializerState
<1>2. l \in Nat /\ k \in Nat
    <2> HIDE DEF b
    <2> QED
        BY <1>1
<1>3. /\ next \in SerializerState /\ next.bytes = b \o v /\ next.size = m
      /\ next.overrun = SetOverrun(ser, v)
    BY <1>1, SetGenericFacts
<1>4. Len(b \o v) = l + k
    <2> HIDE DEF b
    <2> QED
        BY <1>1, ConcatFacts DEF b
<1>5. SetOverrun(ser, v) = (ser.overrun \/ l + k > m)
    BY Zenon DEF SetOverrun
<1>6. m = IF n - l >= k THEN n ELSE n * n
    BY Zenon DEF GrownSize
<1>7. StartSize \in Nat \ {0} /\ k <= StartSize * StartSize - StartSize
    BY StartSizeAssumption DEF LongestValue
<1> HIDE DEF next, b, n, l, k, m
<1>8. /\ n * n \in Nat /\ n <= n * n /\ StartSize * StartSize \in Nat
      /\ StartSize * StartSize - StartSize <= n * n - n
    BY <1>1, <1>7, Squares
<1>9. l + k <= m /\ StartSize <= m
    <2>1. CASE n - l >= k
        BY <1>1, <1>2, <1>6, <2>1
    <2>2. CASE ~ (n - l >= k)
        <3> DEFINE q == n * n
                   s == StartSize * StartSize
        <3>1. m = q /\ q \in Nat /\ s \in Nat /\ n <= q /\ s - StartSize <= q - n
              /\ k <= s - StartSize
            BY <1>6, <1>7, <1>8, <2>2
        <3> HIDE DEF q, s
        <3> QED
            BY <1>1, <1>2, <1>7, <3>1
    <2> QED
        BY <2>1, <2>2
<1>10. m \in Nat
    BY <1>1, <1>6, <1>8
<1>11. next.overrun = FALSE
    <2>1. ~ (l + k > m)
        BY <1>2, <1>9, <1>10
    <2>2. next.overrun = (ser.overrun \/ l + k > m)
        BY <1>3, <1>5, Zenon
    <2>3. ser.overrun = FALSE
        BY <1>1
    <2> QED
        BY <2>1, <2>2, <2>3, Zenon
<1>12. Len(next.bytes) <= next.size /\ StartSize <= next.size
    BY <1>3, <1>4, <1>9
<1> QED
    BY <1>3, <1>11, <1>12 DEF HasRoom, next

LEMMA SerializeFits ==
    ASSUME NEW vs \in Seq(Seq(Byte)), Fits(vs)
    PROVE  HasRoom(Serialize(vs))
<1> DEFINE N == Len(vs)
<1>1. /\ N \in Nat /\ Len(vs) = N
      /\ \A k \in 1 .. N : vs[k] \in Seq(Byte) /\ Len(vs[k]) <= LongestValue
    BY DEF Fits
<1>0. N \in Nat
    OBVIOUS
<1> HIDE DEF N
<1>2. PICK f : Sets(f, vs, N)
    BY <1>1, SetsExist
<1> DEFINE T == {j \in Nat : j <= N => HasRoom(f[j])}
<1>3. 0 \in T
    <2>1. HasRoom(NewSerializer)
        BY NewSerializerFacts, StartSizeAssumption DEF HasRoom
    <2>2. f[0] = NewSerializer
        BY <1>2, Zenon DEF Sets
    <2> QED
        BY <2>1, <2>2
<1>4. ASSUME NEW j \in Nat, j \in T PROVE j + 1 \in T
    <2> SUFFICES ASSUME j + 1 <= N PROVE HasRoom(f[j + 1])
        OBVIOUS
    <2> DEFINE a == f[j]
               v == vs[j + 1]
    <2>1. j + 1 \in 1 .. N /\ (j + 1) - 1 = j /\ HasRoom(a)
        BY <1>0, <1>4
    <2>2. f[j + 1] = SetGeneric(f[(j + 1) - 1], vs[j + 1])
        BY <1>2, <2>1, Zenon DEF Sets
    <2>3. v \in Seq(Byte) /\ Len(v) <= LongestValue /\ f[j + 1] = SetGeneric(a, v)
        BY <1>1, <2>1, <2>2
    <2> HIDE DEF a, v
    <2> QED
        BY <2>1, <2>3, SetFits
<1> HIDE DEF T
<1>5. \A j \in Nat : j \in T
    BY <1>3, <1>4, InductionSet
<1>6. HasRoom(f[N])
    BY <1>0, <1>5 DEF T
<1> QED
    BY <1>2, <1>6, Zenon DEF Sets

\* The last value is set when the others are there.
LEMMA SerializeLast ==
    ASSUME NEW vs \in Seq(Seq(Byte)), NEW v \in Seq(Byte)
    PROVE  Serialize(vs \o <<v>>) = SetGeneric(Serialize(vs), v)
<1> DEFINE N == Len(vs)
           us == vs \o <<v>>
<1>1. N \in Nat /\ Len(vs) = N
    OBVIOUS
<1>2. us \in Seq(Seq(Byte)) /\ Len(us) = N + 1 /\ us[N + 1] = v
      /\ \A k \in 1 .. N : us[k] = vs[k]
    OBVIOUS
<1>3. N \in Nat /\ N + 1 \in Nat
    BY <1>1
<1>0. N \in Nat
    BY <1>1
<1> HIDE DEF N, us
<1>4. PICK f : Sets(f, us, N + 1)
    BY <1>2, <1>3, SetsExist
<1>5. PICK g : Sets(g, vs, N)
    BY <1>1, <1>3, SetsExist
<1>6. f[0] = g[0]
    BY <1>4, <1>5, Zenon DEF Sets
<1>7. ASSUME NEW k \in 1 .. N, f[k - 1] = g[k - 1] PROVE f[k] = g[k]
    <2>1. k \in 1 .. N + 1
        BY <1>3
    <2>2. f[k] = SetGeneric(f[k - 1], us[k]) /\ g[k] = SetGeneric(g[k - 1], vs[k])
        BY <1>4, <1>5, <2>1, Zenon DEF Sets
    <2> QED
        BY <1>2, <1>7, <2>2, Zenon
<1>8. \A i \in 0 .. N : f[i] = g[i]
    <2>1. Steps(f, g, N)
        BY <1>7 DEF Steps
    <2> QED
        BY <1>0, <1>6, <2>1, SameSteps, Zenon
<1>9. f[N] = g[N]
    BY <1>3, <1>8
<1>10. f[N + 1] = SetGeneric(f[(N + 1) - 1], us[N + 1])
    <2>1. N + 1 \in 1 .. N + 1
        BY <1>3
    <2> QED
        BY <1>4, <2>1, Zenon DEF Sets
<1>11. (N + 1) - 1 = N
    BY <1>3
<1>12. Serialize(us) = f[N + 1] /\ Serialize(vs) = g[N]
    BY <1>4, <1>5, Zenon DEF Sets
<1> QED
    BY <1>2, <1>9, <1>10, <1>11, <1>12, Zenon DEF us

-----------------------------------------------------------------------------
\* A message is a header and what it carries.

HeaderFields == {"kind", "sender", "target", "id"}

SentFields(o) == (DOMAIN o \ {"set"}) \cup {"sender", "target"}
                     \cup (IF IsSegment(o) THEN {"value"} ELSE {})

LEMMA OutgoingFields ==
    ASSUME NEW o
    PROVE  /\ DOMAIN Outgoing(o) = SentFields(o)
           /\ Outgoing(o) = [f \in SentFields(o) |-> Outgoing(o)[f]]
           /\ Outgoing(o)["sender"] = 0 /\ Outgoing(o)["target"] = 1
           /\ \A f \in DOMAIN o \ {"set", "sender", "target", "value"} : Outgoing(o)[f] = o[f]
           /\ IsSegment(o) => Outgoing(o)["value"] = Convert(o.set)
           /\ ~ IsSegment(o) /\ "value" \in DOMAIN o => Outgoing(o)["value"] = o["value"]
<1>1. DOMAIN Outgoing(o) = SentFields(o)
      /\ Outgoing(o) = [f \in SentFields(o) |-> Outgoing(o)[f]]
    BY DEF Outgoing, SentFields
<1>2. "sender" \in SentFields(o) /\ "target" \in SentFields(o)
    BY DEF SentFields
<1>3. Outgoing(o)["sender"] = 0 /\ Outgoing(o)["target"] = 1
    BY <1>2 DEF Outgoing, SentFields
<1>4. ASSUME NEW f \in DOMAIN o \ {"set", "sender", "target", "value"}
      PROVE  Outgoing(o)[f] = o[f]
    <2>1. f \in SentFields(o)
        BY DEF SentFields
    <2> QED
        BY <2>1 DEF Outgoing, SentFields
<1>5. ASSUME IsSegment(o) PROVE Outgoing(o)["value"] = Convert(o.set)
    <2>1. "value" \in SentFields(o)
        BY <1>5 DEF SentFields
    <2> QED
        BY <1>5, <2>1 DEF Outgoing, SentFields
<1>6. ASSUME ~ IsSegment(o), "value" \in DOMAIN o PROVE Outgoing(o)["value"] = o["value"]
    <2>1. "value" \in SentFields(o)
        BY <1>6 DEF SentFields
    <2> QED
        BY <1>6, <2>1 DEF Outgoing, SentFields
<1> QED
    BY <1>1, <1>3, <1>4, <1>5, <1>6

\* The message m carries p, besides its header.
Carries(m, p) ==
    /\ m = [f \in HeaderFields \cup DOMAIN p |-> m[f]]
    /\ \A f \in DOMAIN p : f \notin HeaderFields /\ m[f] = p[f]

\* The header of m is that of the message o on its way to node 1.
HeaderOf(m, o) ==
    /\ m.kind = o.kind /\ o.kind \in MsgKind
    /\ m.id = o.id /\ o.id \in Nat
    /\ m.sender = 0 /\ m.target = 1

LEMMA StatusCarries ==
    ASSUME NEW o \in [kind : {"Status"}, id : Nat, msg : Text], NEW m, m = Outgoing(o)
    PROVE  /\ HeaderOf(m, o) /\ o.kind = "Status" /\ m.msg = o.msg /\ o.msg \in Seq(STRING)
           /\ Carries(m, [msg |-> o.msg])
<1>1. /\ DOMAIN o = {"kind", "id", "msg"} /\ o.kind = "Status" /\ o.id \in Nat
      /\ o.msg \in Seq(STRING)
    BY DEF Text
<1>2. ~ IsSegment(o)
    BY <1>1 DEF IsSegment
<1>3. SentFields(o) = HeaderFields \cup {"msg"}
    BY <1>1, <1>2 DEF SentFields, HeaderFields
<1>4. m.kind = o.kind /\ m.id = o.id /\ m.msg = o.msg /\ m.sender = 0 /\ m.target = 1
    BY <1>1, OutgoingFields
<1>5. m = [f \in HeaderFields \cup {"msg"} |-> m[f]]
    BY <1>3, OutgoingFields
<1>6. HeaderOf(m, o)
    BY <1>1, <1>4 DEF HeaderOf, MsgKind
<1> QED
    BY <1>1, <1>4, <1>5, <1>6 DEF Carries, HeaderFields

LEMMA RegisterCarries ==
    ASSUME NEW o \in [kind : {"Register"}, id : Nat, address : STRING, port : Nat],
           NEW m, m = Outgoing(o)
    PROVE  /\ HeaderOf(m, o) /\ o.kind = "Register" /\ m.address = o.address /\ m.port = o.port
           /\ o.address \in STRING /\ o.port \in Nat
           /\ Carries(m, [address |-> o.address, port |-> o.port])
<1>1. /\ DOMAIN o = {"kind", "id", "address", "port"} /\ o.kind = "Register" /\ o.id \in Nat
      /\ o.address \in STRING /\ o.port \in Nat
    OBVIOUS
<1>2. ~ IsSegment(o)
    BY <1>1 DEF IsSegment
<1>3. SentFields(o) = HeaderFields \cup {"address", "port"}
    BY <1>1, <1>2 DEF SentFields, HeaderFields
<1>4. /\ m.kind = o.kind /\ m.id = o.id /\ m.sender = 0 /\ m.target = 1
      /\ m.address = o.address /\ m.port = o.port
    BY <1>1, OutgoingFields
<1>5. m = [f \in HeaderFields \cup {"address", "port"} |-> m[f]]
    BY <1>3, OutgoingFields
<1>6. HeaderOf(m, o)
    BY <1>1, <1>4 DEF HeaderOf, MsgKind
<1> QED
    BY <1>1, <1>4, <1>5, <1>6 DEF Carries, HeaderFields

LEMMA DirectoryCarries ==
    ASSUME NEW o \in [kind : {"Directory"}, id : Nat, directory : Seq(Address)],
           NEW m, m = Outgoing(o)
    PROVE  /\ HeaderOf(m, o) /\ o.kind = "Directory" /\ m.directory = o.directory
           /\ o.directory \in Seq(Address)
           /\ Carries(m, [directory |-> o.directory])
<1>1. /\ DOMAIN o = {"kind", "id", "directory"} /\ o.kind = "Directory" /\ o.id \in Nat
      /\ o.directory \in Seq(Address)
    OBVIOUS
<1>2. ~ IsSegment(o)
    BY <1>1 DEF IsSegment
<1>3. SentFields(o) = HeaderFields \cup {"directory"}
    BY <1>1, <1>2 DEF SentFields, HeaderFields
<1>4. /\ m.kind = o.kind /\ m.id = o.id /\ m.sender = 0 /\ m.target = 1
      /\ m.directory = o.directory
    BY <1>1, OutgoingFields
<1>5. m = [f \in HeaderFields \cup {"directory"} |-> m[f]]
    BY <1>3, OutgoingFields
<1>6. HeaderOf(m, o)
    BY <1>1, <1>4 DEF HeaderOf, MsgKind
<1> QED
    BY <1>1, <1>4, <1>5, <1>6 DEF Carries, HeaderFields

LEMMA AskCarries ==
    ASSUME NEW o \in [kind : {"WaitAndGet"}, id : Nat, key : KeyOf(Nat)],
           NEW m, m = Outgoing(o)
    PROVE  /\ HeaderOf(m, o) /\ o.kind = "WaitAndGet" /\ m.key = o.key
           /\ o.key \in KeyOf(Nat)
           /\ Carries(m, [key |-> o.key])
<1>1. /\ DOMAIN o = {"kind", "id", "key"} /\ o.kind = "WaitAndGet" /\ o.id \in Nat
      /\ o.key \in KeyOf(Nat)
    OBVIOUS
<1>2. ~ IsSegment(o)
    BY <1>1 DEF IsSegment
<1>3. SentFields(o) = HeaderFields \cup {"key"}
    BY <1>1, <1>2 DEF SentFields, HeaderFields
<1>4. /\ m.kind = o.kind /\ m.id = o.id /\ m.sender = 0 /\ m.target = 1
      /\ m.key = o.key
    BY <1>1, OutgoingFields
<1>5. m = [f \in HeaderFields \cup {"key"} |-> m[f]]
    BY <1>3, OutgoingFields
<1>6. HeaderOf(m, o)
    BY <1>1, <1>4 DEF HeaderOf, MsgKind
<1> QED
    BY <1>1, <1>4, <1>5, <1>6 DEF Carries, HeaderFields

LEMMA ValueCarries ==
    ASSUME NEW o \in [kind : {"Put"}, id : Nat, key : KeyOf({NoHome}),
                      value : [types : Seq(ColumnTypes), nrows : Nat]],
           NEW m, m = Outgoing(o)
    PROVE  /\ HeaderOf(m, o) /\ o.kind = "Put" /\ m.key = o.key /\ m.value = o.value
           /\ o.key \in KeyOf({NoHome}) /\ o.value \in [types : Seq(ColumnTypes), nrows : Nat]
           /\ Carries(m, [key |-> o.key, value |-> o.value])
<1>1. /\ DOMAIN o = {"kind", "id", "key", "value"} /\ o.kind = "Put" /\ o.id \in Nat
      /\ o.key \in KeyOf({NoHome}) /\ o.value \in [types : Seq(ColumnTypes), nrows : Nat]
    OBVIOUS
<1>2. ~ IsSegment(o)
    BY <1>1 DEF IsSegment
<1>3. SentFields(o) = HeaderFields \cup {"key", "value"}
    BY <1>1, <1>2 DEF SentFields, HeaderFields
<1>4. /\ m.kind = o.kind /\ m.id = o.id /\ m.sender = 0 /\ m.target = 1
      /\ m.key = o.key
    <2>1. /\ DOMAIN o = {"kind", "id", "key", "value"}
          /\ \A f \in DOMAIN o \ {"set", "sender", "target", "value"} : m[f] = o[f]
        BY <1>1, OutgoingFields
    <2>2. m["kind"] = o["kind"] /\ m["id"] = o["id"] /\ m["key"] = o["key"]
        BY <2>1
    <2>3. m["sender"] = 0 /\ m["target"] = 1
        BY OutgoingFields
    <2> QED
        BY <2>2, <2>3
<1>5. m = [f \in HeaderFields \cup {"key", "value"} |-> m[f]]
    BY <1>3, OutgoingFields
<1>6. HeaderOf(m, o)
    BY <1>1, <1>4 DEF HeaderOf, MsgKind
<1>7. m.value = o.value
    BY <1>1, <1>2, OutgoingFields
<1> QED
    BY <1>1, <1>4, <1>5, <1>6, <1>7 DEF Carries, HeaderFields

LEMMA SegmentCarries ==
    ASSUME NEW o \in [kind : {"Put", "Reply"}, id : Nat, key : KeyOf(Nat \ {NoHome}), set : File],
           NEW m, m = Outgoing(o)
    PROVE  /\ HeaderOf(m, o) /\ o.kind \in {"Put", "Reply"} /\ m.key = o.key
           /\ m.value = Convert(o.set)
           /\ o.key \in KeyOf(Nat \ {NoHome}) /\ o.set \in File /\ IsSegment(o)
           /\ Carries(m, [key |-> o.key, value |-> Convert(o.set)])
<1>1. /\ DOMAIN o = {"kind", "id", "key", "set"} /\ o.kind \in {"Put", "Reply"} /\ o.id \in Nat
      /\ o.key \in KeyOf(Nat \ {NoHome}) /\ o.set \in File
    OBVIOUS
<1>2. IsSegment(o)
    BY <1>1 DEF IsSegment
<1>3. SentFields(o) = HeaderFields \cup {"key", "value"}
    BY <1>1, <1>2 DEF SentFields, HeaderFields
<1>4. /\ m.kind = o.kind /\ m.id = o.id /\ m.sender = 0 /\ m.target = 1
      /\ m.key = o.key
    BY <1>1, OutgoingFields
<1>5. m = [f \in HeaderFields \cup {"key", "value"} |-> m[f]]
    BY <1>3, OutgoingFields
<1>6. HeaderOf(m, o)
    BY <1>1, <1>4 DEF HeaderOf, MsgKind
<1>7. m.value = Convert(o.set)
    BY <1>2, OutgoingFields
<1> QED
    BY <1>1, <1>2, <1>4, <1>5, <1>6, <1>7 DEF Carries, HeaderFields

-----------------------------------------------------------------------------
\* What a message carries is read from the bytes behind the header.

Behind(b, k) == SubSeq(b, k + 1, Len(b))

LEMMA BehindFacts ==
    ASSUME NEW b \in Seq(Byte), NEW k \in Nat, k <= Len(b)
    PROVE  /\ Behind(b, k) \in Seq(Byte) /\ Len(Behind(b, k)) = Len(b) - k
           /\ \A i \in 1 .. Len(b) - k : Behind(b, k)[i] = b[k + i]
<1> DEFINE S == Byte
<1>1. b \in Seq(S)
    OBVIOUS
<1> HIDE DEF S
<1>2. /\ SubSeq(b, k + 1, Len(b)) \in Seq(S) /\ Len(SubSeq(b, k + 1, Len(b))) = Len(b) - k
      /\ \A i \in 1 .. Len(b) - k : SubSeq(b, k + 1, Len(b))[i] = b[k + i]
    BY <1>1
<1> QED
    BY <1>2, Zenon DEF Behind, S

LEMMA ReadsBehind ==
    ASSUME NEW b, NEW k, NEW s \in Seq(Byte), Reads(b, k, s)
    PROVE  Reads(Behind(b, k), 0, s)
<1> DEFINE c == Behind(b, k)
           N == Len(s)
<1>1. /\ b \in Seq(Byte) /\ k \in Nat /\ k + N <= Len(b)
      /\ \A i \in 1 .. N : b[k + i] = s[i]
    BY DEF Reads
<1>2. N \in Nat /\ Len(b) \in Nat
    BY <1>1
<1>3. k <= Len(b)
    <2> HIDE DEF N
    <2> QED
        BY <1>1, <1>2
<1>4. /\ c \in Seq(Byte) /\ Len(c) = Len(b) - k
      /\ \A i \in 1 .. Len(b) - k : c[i] = b[k + i]
    BY <1>1, <1>3, BehindFacts
<1> HIDE DEF c, N
<1>5. 0 + N <= Len(c)
    BY <1>1, <1>2, <1>4
<1>6. ASSUME NEW i \in 1 .. N PROVE c[0 + i] = s[i]
    <2>1. i \in 1 .. Len(b) - k /\ 0 + i = i
        BY <1>1, <1>2
    <2>2. c[i] = b[k + i] /\ b[k + i] = s[i]
        BY <1>1, <1>4, <2>1
    <2> QED
        BY <2>1, <2>2
<1> QED
    BY <1>4, <1>5, <1>6 DEF Reads, c, N

\* The payload of m is as long as its header says, and is read back as p.
PayloadRead(m, p) ==
    /\ Coded(PayloadValues(m), PayloadSize(m))
    /\ \A b : Reads(b, HeaderSize, FlattenSeq(PayloadValues(m))) => GetPayload(m.kind, b) = p

LEMMA NewBehind ==
    ASSUME NEW b
    PROVE  NewDeserializer(SubSeq(b, HeaderSize + 1, Len(b))) = At(Behind(b, HeaderSize), 0, 0)
BY NewAt DEF Behind

LEMMA StatusRead ==
    ASSUME NEW m, m.kind = "Status", m.msg \in Seq(STRING)
    PROVE  PayloadRead(m, [msg |-> m.msg])
<1> DEFINE s == m.msg
           vs == StringValues(s)
<1>1. s \in Seq(STRING)
    OBVIOUS
<1>2. PayloadValues(m) = vs /\ PayloadSize(m) = StringBytes(s)
    BY DEF PayloadValues, PayloadSize
<1>3. Coded(vs, StringBytes(s)) /\ FlattenSeq(vs) \in Seq(Byte)
    BY <1>1, StringCoded, StringFacts
<1>4. ASSUME NEW b, Reads(b, HeaderSize, FlattenSeq(vs))
      PROVE  GetPayload(m.kind, b) = [msg |-> s]
    <2> DEFINE c == Behind(b, HeaderSize)
    <2>1. Reads(c, 0, FlattenSeq(vs))
        BY <1>3, <1>4, ReadsBehind
    <2>2. GetString(At(c, 0, 0)) = At(c, 0 + StringBytes(s), s)
        BY <1>1, <2>1, GetStringReads
    <2>3. GetString(At(c, 0, 0)).val = s
        BY <2>2, AtFields
    <2>4. GetPayload("Status", b) = [msg |-> GetString(At(c, 0, 0)).val]
        BY NewBehind DEF GetPayload
    <2> QED
        BY <2>3, <2>4
<1> QED
    BY <1>2, <1>3, <1>4 DEF PayloadRead

LEMMA DirectoryRead ==
    ASSUME NEW m, m.kind = "Directory", m.directory \in Seq(Address)
    PROVE  PayloadRead(m, [directory |-> m.directory])
<1> DEFINE s == m.directory
           vs == DirectoryValues(s)
<1>1. s \in Seq(Address)
    OBVIOUS
<1>2. PayloadValues(m) = vs /\ PayloadSize(m) = DirectoryBytes(s)
    BY DEF PayloadValues, PayloadSize
<1>3. Coded(vs, DirectoryBytes(s))
    BY <1>1, DirectoryFacts
<1>4. ASSUME NEW b, Reads(b, HeaderSize, FlattenSeq(vs))
      PROVE  GetPayload(m.kind, b) = [directory |-> s]
    <2> DEFINE c == Behind(b, HeaderSize)
    <2>1. Reads(c, 0, FlattenSeq(vs))
        BY <1>3, <1>4, ReadsBehind DEF Coded
    <2>2. GetDirectory(At(c, 0, 0)).val = s
        BY <1>1, <2>1, DirectoryFacts
    <2>3. GetPayload("Directory", b) = [directory |-> GetDirectory(At(c, 0, 0)).val]
        BY NewBehind DEF GetPayload
    <2> QED
        BY <2>2, <2>3
<1> QED
    BY <1>2, <1>3, <1>4 DEF PayloadRead

LEMMA RegisterRead ==
    ASSUME NEW m, m.kind = "Register", m.address \in STRING, m.port \in Nat
    PROVE  PayloadRead(m, [address |-> m.address, port |-> m.port])
<1> DEFINE a == m.address
           p == m.port
           x == Bytes("address", a, AddressBytes)
           y == SizeBytes(p)
           vs == <<x, y>>
<1>1. a \in Data /\ p \in Data
    BY DEF Data
<1>2. PayloadValues(m) = vs /\ PayloadSize(m) = AddressBytes + SizeT
    BY DEF PayloadValues, PayloadSize
<1>3. "address" \in Tags /\ AddressBytes \in Nat \ {0} /\ SizeT \in Nat \ {0}
    BY Widths DEF Tags
<1>4. x \in Seq(Byte) /\ Len(x) = AddressBytes
    BY <1>1, <1>3, BytesFacts
<1>5. y \in Seq(Byte) /\ Len(y) = SizeT
    BY <1>1, KindBytes
<1>6. vs = <<x>> \o <<y>> /\ FlattenSeq(<<x>>) = x /\ FlattenSeq(<<y>>) = y
      /\ Coded(<<x>>, AddressBytes) /\ Coded(<<y>>, SizeT)
    BY <1>4, <1>5, CodedOne, Pair
<1> HIDE DEF x, y, vs
<1>7. Coded(vs, AddressBytes + SizeT)
    BY <1>6, CodedConcat
<1>8. ASSUME NEW b, Reads(b, HeaderSize, FlattenSeq(vs))
      PROVE  GetPayload(m.kind, b) = [address |-> a, port |-> p]
    <2> DEFINE c == Behind(b, HeaderSize)
               d == Get(At(c, 0, 0), "address", AddressBytes, "?")
    <2>1. Reads(c, 0, FlattenSeq(vs))
        BY <1>7, <1>8, ReadsBehind DEF Coded
    <2>2. Reads(c, 0, x) /\ Reads(c, 0 + AddressBytes, y)
        <3>1. Reads(c, 0, FlattenSeq(<<x>> \o <<y>>))
            BY <1>6, <2>1, Zenon
        <3>2. Coded(<<x>>, AddressBytes) /\ Coded(<<y>>, SizeT)
            BY <1>6
        <3> HIDE DEF c
        <3>3. Reads(c, 0, FlattenSeq(<<x>>)) /\ Reads(c, 0 + AddressBytes, FlattenSeq(<<y>>))
            BY <3>1, <3>2, CodedReads
        <3> QED
            BY <1>6, <3>3, Zenon
    <2>3. d = At(c, 0 + AddressBytes, a)
        BY <1>1, <1>3, <2>2, GetReads DEF x
    <2>4. GetSizeT(d) = At(c, 0 + AddressBytes + SizeT, p)
        BY <1>1, <2>2, <2>3, SizeReads DEF y
    <2>5. d.val = a /\ GetSizeT(d).val = p
        BY <2>3, <2>4, AtFields
    <2>6. GetPayload("Register", b) = [address |-> d.val, port |-> GetSizeT(d).val]
        BY NewBehind DEF GetPayload
    <2> QED
        BY <2>5, <2>6
<1> QED
    BY <1>2, <1>7, <1>8 DEF PayloadRead

\* A keyed payload is one value, made of those of the key and what goes with it.
KeyedRead(m, p) ==
    \A c : Reads(c, 0, FlattenSeq(KeyedValues(m))) => GetKeyed(m.kind, At(c, 0, 0)) = p

LEMMA KeyedPayload ==
    ASSUME NEW m, IsKeyed(m), KeyedValues(m) \in Seq(Seq(Byte)), NEW p, KeyedRead(m, p)
    PROVE  PayloadRead(m, p)
<1> DEFINE kv == KeyedValues(m)
           x == FlattenSeq(kv)
           e == Serialize(kv).bytes
<1>1. kv \in Seq(Seq(Byte))
    OBVIOUS
<1>2. x \in Seq(Byte) /\ e = x
    <2> HIDE DEF kv
    <2> QED
        BY <1>1, FlattenType, SerializeBytes
<1>3. PayloadValues(m) = <<e>> /\ PayloadSize(m) = Len(e)
    BY DEF PayloadValues, PayloadSize, IsKeyed
<1> HIDE DEF x, e
<1>4. Coded(<<x>>, Len(x)) /\ FlattenSeq(<<x>>) = x
    BY <1>2, CodedOne
<1>5. ASSUME NEW b, Reads(b, HeaderSize, x) PROVE GetPayload(m.kind, b) = p
    <2> DEFINE c == Behind(b, HeaderSize)
    <2>1. Reads(c, 0, x)
        BY <1>2, <1>5, ReadsBehind
    <2>2. GetKeyed(m.kind, At(c, 0, 0)) = p
        BY <2>1, Zenon DEF KeyedRead, x
    <2>3. GetPayload(m.kind, b) = GetKeyed(m.kind, At(c, 0, 0))
        BY NewBehind DEF GetPayload, IsKeyed
    <2> QED
        BY <2>2, <2>3
<1>6. PayloadValues(m) = <<x>> /\ PayloadSize(m) = Len(x)
    BY <1>2, <1>3
<1> QED
    BY <1>4, <1>5, <1>6, Zenon DEF PayloadRead

LEMMA KeyTypes ==
    ASSUME NEW key, key \in KeyOf(Nat) \/ key \in KeyOf({NoHome}) \/ key \in KeyOf(Nat \ {NoHome})
    PROVE  key \in KeyOf(Nat \cup {NoHome})
BY DEF KeyOf

LEMMA AskRead ==
    ASSUME NEW m, m.kind = "WaitAndGet", m.key \in KeyOf(Nat)
    PROVE  KeyedValues(m) \in Seq(Seq(Byte)) /\ PayloadRead(m, [key |-> m.key])
<1> DEFINE key == m.key
<1>1. key \in KeyOf(Nat \cup {NoHome})
    BY KeyTypes
<1>2. KeyedValues(m) = KeyValues(key)
    BY DEF KeyedValues
<1>3. Coded(KeyValues(key), KeySize(key))
    <2> HIDE DEF key
    <2> QED
        BY <1>1, KeyFacts
<1>4. KeyedRead(m, [key |-> key])
    <2> SUFFICES ASSUME NEW c, Reads(c, 0, FlattenSeq(KeyValues(key)))
                 PROVE  GetKeyed(m.kind, At(c, 0, 0)) = [key |-> key]
        BY <1>2 DEF KeyedRead
    <2>1. GetKey(At(c, 0, 0)) = At(c, 0 + KeySize(key), key)
        <3> HIDE DEF key
        <3> QED
            BY <1>1, KeyFacts
    <2>2. GetKey(At(c, 0, 0)).val = key
        BY <2>1, AtFields
    <2>3. GetKeyed("WaitAndGet", At(c, 0, 0)) = [key |-> GetKey(At(c, 0, 0)).val]
        BY DEF GetKeyed
    <2> QED
        BY <2>2, <2>3
<1>5. IsKeyed(m) /\ KeyedValues(m) \in Seq(Seq(Byte))
    BY <1>2, <1>3 DEF IsKeyed, Coded
<1> QED
    BY <1>4, <1>5, KeyedPayload

\* A value behind a key.
LEMMA KeyAndValue ==
    ASSUME NEW key \in KeyOf(Nat \cup {NoHome}), NEW ws, NEW l, Coded(ws, l)
    PROVE  /\ KeyValues(key) \o ws \in Seq(Seq(Byte))
           /\ \A c : Reads(c, 0, FlattenSeq(KeyValues(key) \o ws)) =>
                  /\ GetKey(At(c, 0, 0)) = At(c, 0 + KeySize(key), key)
                  /\ Reads(c, 0 + KeySize(key), FlattenSeq(ws))
<1>1. Coded(KeyValues(key), KeySize(key))
    BY KeyFacts
<1>2. Coded(KeyValues(key) \o ws, KeySize(key) + l)
    BY <1>1, CodedConcat
<1>3. ASSUME NEW c, Reads(c, 0, FlattenSeq(KeyValues(key) \o ws))
      PROVE  /\ GetKey(At(c, 0, 0)) = At(c, 0 + KeySize(key), key)
             /\ Reads(c, 0 + KeySize(key), FlattenSeq(ws))
    <2>1. /\ Reads(c, 0, FlattenSeq(KeyValues(key)))
          /\ Reads(c, 0 + KeySize(key), FlattenSeq(ws))
        BY <1>1, <1>3, CodedReads
    <2> QED
        BY <2>1, KeyFacts
<1> QED
    BY <1>2, <1>3 DEF Coded

LEMMA ValueKeyedRead ==
    ASSUME NEW m, m.kind = "Put", m.key \in KeyOf({NoHome}),
           m.value \in [types : Seq(ColumnTypes), nrows : Nat]
    PROVE  KeyedValues(m) \in Seq(Seq(Byte))
           /\ PayloadRead(m, [key |-> m.key, value |-> m.value])
<1> DEFINE key == m.key
           v == m.value
           ws == DistributedValueValues(v)
<1>1. key \in KeyOf(Nat \cup {NoHome}) /\ key.home = NoHome
    BY KeyTypes DEF KeyOf
<1>2. v \in [types : Seq(ColumnTypes), nrows : Nat]
    OBVIOUS
<1>3. KeyedValues(m) = KeyValues(key) \o ws
    BY <1>1 DEF KeyedValues
<1> HIDE DEF key, v
<1>4. Coded(ws, Len(FlattenSeq(ws)))
      /\ \A b, k, x : Reads(b, k, FlattenSeq(ws)) => GetDistributedValue(At(b, k, x)).val = v
    BY <1>2, DistributedValueFacts
<1> HIDE DEF ws
<1>5. /\ KeyValues(key) \o ws \in Seq(Seq(Byte))
      /\ \A c : Reads(c, 0, FlattenSeq(KeyValues(key) \o ws)) =>
             /\ GetKey(At(c, 0, 0)) = At(c, 0 + KeySize(key), key)
             /\ Reads(c, 0 + KeySize(key), FlattenSeq(ws))
    BY <1>1, <1>4, KeyAndValue
<1>6. KeyedRead(m, [key |-> key, value |-> v])
    <2> SUFFICES ASSUME NEW c, Reads(c, 0, FlattenSeq(KeyValues(key) \o ws))
                 PROVE  GetKeyed(m.kind, At(c, 0, 0)) = [key |-> key, value |-> v]
        BY <1>3 DEF KeyedRead
    <2> DEFINE e == GetKey(At(c, 0, 0))
    <2>1. e = At(c, 0 + KeySize(key), key) /\ Reads(c, 0 + KeySize(key), FlattenSeq(ws))
        BY <1>5
    <2>2. GetDistributedValue(e).val = v /\ e.val = key
        BY <1>4, <2>1, AtFields
    <2>3. GetKeyed("Put", At(c, 0, 0)) = [key |-> e.val, value |-> GetDistributedValue(e).val]
        BY <1>1, <2>2 DEF GetKeyed
    <2> QED
        BY <2>2, <2>3
<1>7. IsKeyed(m) /\ KeyedValues(m) \in Seq(Seq(Byte))
    BY <1>3, <1>5 DEF IsKeyed
<1> QED
    BY <1>6, <1>7, KeyedPayload DEF key, v

\* m brings the dataframe v under a key of a node.
Brings(m, key, v) ==
    /\ m.kind \in {"Put", "Reply"} /\ m.key = key /\ key \in KeyOf(Nat \ {NoHome})
    /\ m.value = v /\ IsTable(v) /\ Len(v.types) # 0

LEMMA SegmentRead ==
    ASSUME NEW m, NEW key, NEW v, Brings(m, key, v)
    PROVE  KeyedValues(m) \in Seq(Seq(Byte))
           /\ PayloadRead(m, [key |-> key, value |-> v])
<1> DEFINE ws == DataFrameValues(v)
<1>0. /\ m.kind \in {"Put", "Reply"} /\ m.key = key /\ key \in KeyOf(Nat \ {NoHome})
      /\ m.value = v
    BY DEF Brings
<1>1. key \in KeyOf(Nat \cup {NoHome}) /\ key.home # NoHome
    BY <1>0, KeyTypes DEF KeyOf
<1>2. IsTable(v) /\ Len(v.types) # 0
    BY DEF Brings
<1>3. KeyedValues(m) = KeyValues(key) \o ws
    BY <1>0, <1>1 DEF KeyedValues
<1>4. Coded(ws, Len(FlattenSeq(ws)))
      /\ \A b, k, x : Reads(b, k, FlattenSeq(ws)) => GetDataFrame(At(b, k, x)).val = v
    BY <1>2, DataFrameFacts
<1> HIDE DEF ws
<1>5. /\ KeyValues(key) \o ws \in Seq(Seq(Byte))
      /\ \A c : Reads(c, 0, FlattenSeq(KeyValues(key) \o ws)) =>
             /\ GetKey(At(c, 0, 0)) = At(c, 0 + KeySize(key), key)
             /\ Reads(c, 0 + KeySize(key), FlattenSeq(ws))
    BY <1>1, <1>4, KeyAndValue
<1>6. KeyedRead(m, [key |-> key, value |-> v])
    <2> SUFFICES ASSUME NEW c, Reads(c, 0, FlattenSeq(KeyValues(key) \o ws))
                 PROVE  GetKeyed(m.kind, At(c, 0, 0)) = [key |-> key, value |-> v]
        BY <1>3 DEF KeyedRead
    <2> DEFINE e == GetKey(At(c, 0, 0))
    <2>1. e = At(c, 0 + KeySize(key), key) /\ Reads(c, 0 + KeySize(key), FlattenSeq(ws))
        BY <1>5
    <2>2. GetDataFrame(e).val = v /\ e.val = key
        BY <1>4, <2>1, AtFields
    <2>3. GetKeyed(m.kind, At(c, 0, 0)) = [key |-> e.val, value |-> GetDataFrame(e).val]
        BY <1>0, <1>1, <2>2 DEF GetKeyed
    <2> QED
        BY <2>2, <2>3
<1>7. IsKeyed(m) /\ KeyedValues(m) \in Seq(Seq(Byte))
    BY <1>0, <1>3, <1>5 DEF IsKeyed
<1> QED
    BY <1>6, <1>7, KeyedPayload


-----------------------------------------------------------------------------
\* The header.

Fronted(t, x, s, n) ==
    Len(t) = n + 1 /\ t[1] = x /\ \A i \in 2 .. n + 1 : t[i] = s[i - 1]

LEMMA InFront ==
    ASSUME NEW S, NEW x \in S, NEW s \in Seq(S), NEW n \in Nat, Len(s) = n
    PROVE  <<x>> \o s \in Seq(S) /\ Fronted(<<x>> \o s, x, s, n)
<1> DEFINE u == <<x>>
<1>1. u \in Seq(S) /\ Len(u) = 1 /\ u[1] = x
    OBVIOUS
<1> HIDE DEF u
<1>0. u \in Seq(S)
    BY <1>1
<1> DEFINE t == u \o s
<1>2. t \in Seq(S) /\ Len(t) = Len(u) + Len(s)
    BY <1>0, ConcatFacts
<1>3. /\ \A i \in 1 .. Len(u) : t[i] = u[i]
      /\ \A i \in 1 .. Len(s) : t[Len(u) + i] = s[i]
    <2>1. ASSUME NEW i \in 1 .. Len(u) PROVE t[i] = u[i]
        BY <1>0, ConcatFacts
    <2>2. ASSUME NEW i \in 1 .. Len(s) PROVE t[Len(u) + i] = s[i]
        BY <1>0, ConcatFacts
    <2> QED
        BY <2>1, <2>2
<1> HIDE DEF t
<1>4. Len(t) = n + 1 /\ t[1] = x
    BY <1>1, <1>2, <1>3
<1>5. ASSUME NEW i \in 2 .. n + 1 PROVE t[i] = s[i - 1]
    <2>1. i - 1 \in 1 .. Len(s) /\ Len(u) + (i - 1) = i
        BY <1>1
    <2>2. t[Len(u) + (i - 1)] = s[i - 1]
        BY <1>3, <2>1
    <2> QED
        BY <2>1, <2>2
<1> QED
    BY <1>2, <1>4, <1>5, Zenon DEF t, u, Fronted

LEMMA FiveParts ==
    ASSUME NEW u, NEW v, NEW w, NEW x, NEW y
    PROVE  <<u, v, w, x, y>> = <<u>> \o (<<v>> \o (<<w>> \o (<<x>> \o <<y>>)))
<1> DEFINE A == {u, v, w, x, y}
           s == <<u, v, w, x, y>>
           t2 == <<x>> \o <<y>>
           t3 == <<w>> \o t2
           t4 == <<v>> \o t3
           t5 == <<u>> \o t4
<1>1. u \in A /\ v \in A /\ w \in A /\ x \in A /\ y \in A
    OBVIOUS
<1> HIDE DEF A
<1>2. /\ s \in Seq(A) /\ Len(s) = 5
      /\ s[1] = u /\ s[2] = v /\ s[3] = w /\ s[4] = x /\ s[5] = y
    BY <1>1
<1>4. t2 \in Seq(A) /\ Len(t2) = 2 /\ t2[1] = x /\ t2[2] = y
    <2>1. <<x>> \in Seq(A) /\ <<y>> \in Seq(A) /\ <<x>>[1] = x /\ <<y>>[1] = y
          /\ Len(<<x>>) = 1 /\ Len(<<y>>) = 1
        BY <1>1
    <2> QED
        BY <2>1
<1> HIDE DEF s, t2
<1>5. t3 \in Seq(A) /\ Len(t3) = 3 /\ t3[1] = w /\ t3[2] = x /\ t3[3] = y
    <2>0. w \in A /\ t2 \in Seq(A) /\ Len(t2) = 2 /\ 2 \in Nat
        BY <1>1, <1>4
    <2>1. t3 \in Seq(A) /\ Fronted(t3, w, t2, 2)
        BY <2>0, InFront
    <2> HIDE DEF t3
    <2> QED
        BY <1>4, <2>1 DEF Fronted
<1> HIDE DEF t3
<1>6. t4 \in Seq(A) /\ Len(t4) = 4 /\ t4[1] = v /\ t4[2] = w /\ t4[3] = x /\ t4[4] = y
    <2>0. v \in A /\ t3 \in Seq(A) /\ Len(t3) = 3 /\ 3 \in Nat
        BY <1>1, <1>5
    <2>1. t4 \in Seq(A) /\ Fronted(t4, v, t3, 3)
        BY <2>0, InFront
    <2> HIDE DEF t4
    <2> QED
        BY <1>5, <2>1 DEF Fronted
<1> HIDE DEF t4
<1>7. /\ t5 \in Seq(A) /\ Len(t5) = 5
      /\ t5[1] = u /\ t5[2] = v /\ t5[3] = w /\ t5[4] = x /\ t5[5] = y
    <2>0. u \in A /\ t4 \in Seq(A) /\ Len(t4) = 4 /\ 4 \in Nat
        BY <1>1, <1>6
    <2>1. t5 \in Seq(A) /\ Fronted(t5, u, t4, 4)
        BY <2>0, InFront
    <2> HIDE DEF t5
    <2> QED
        BY <1>6, <2>1 DEF Fronted
<1> HIDE DEF t5
<1>8. \A i \in 1 .. Len(s) : s[i] = t5[i]
    BY <1>2, <1>7
<1>9. s = t5
    BY <1>2, <1>7, <1>8, SeqEqual
<1> QED
    BY <1>9, Zenon DEF s, t5, t4, t3, t2

\* What a header of these fields has at its positions.
HeaderAt(b, kind, from, to, id, size) ==
    /\ Reads(b, 0, EnumBytes(kind))
    /\ Reads(b, IntSize, SizeBytes(from))
    /\ Reads(b, IntSize + SizeT, SizeBytes(to))
    /\ Reads(b, IntSize + (2 * SizeT), SizeBytes(id))
    /\ Reads(b, IntSize + (3 * SizeT), SizeBytes(size))

LEMMA HeaderCoded ==
    ASSUME NEW m, m.kind \in Data, m.sender \in Data, m.target \in Data, m.id \in Data,
           PayloadSize(m) \in Data
    PROVE  /\ Coded(HeaderValues(m), HeaderSize)
           /\ \A b : Reads(b, 0, FlattenSeq(HeaderValues(m))) =>
                  HeaderAt(b, m.kind, m.sender, m.target, m.id, PayloadSize(m))
<1> DEFINE u == EnumBytes(m.kind)
           v == SizeBytes(m.sender)
           w == SizeBytes(m.target)
           x == SizeBytes(m.id)
           y == SizeBytes(PayloadSize(m))
<1>1. Coded(<<u>>, IntSize) /\ FlattenSeq(<<u>>) = u
    BY EnumCoded
<1>2. /\ Coded(<<v>>, SizeT) /\ FlattenSeq(<<v>>) = v
      /\ Coded(<<w>>, SizeT) /\ FlattenSeq(<<w>>) = w
      /\ Coded(<<x>>, SizeT) /\ FlattenSeq(<<x>>) = x
      /\ Coded(<<y>>, SizeT) /\ FlattenSeq(<<y>>) = y
    BY SizeCoded
<1>3. HeaderValues(m) = <<u>> \o (<<v>> \o (<<w>> \o (<<x>> \o <<y>>)))
    BY FiveParts DEF HeaderValues
<1> HIDE DEF u, v, w, x, y
<1> DEFINE xy == <<x>> \o <<y>>
           wxy == <<w>> \o xy
           vwxy == <<v>> \o wxy
<1>4. Coded(xy, SizeT + SizeT)
    BY <1>2, CodedConcat
<1> HIDE DEF xy
<1>5. Coded(wxy, SizeT + (SizeT + SizeT))
    BY <1>2, <1>4, CodedConcat
<1> HIDE DEF wxy
<1>6. Coded(vwxy, SizeT + (SizeT + (SizeT + SizeT)))
    BY <1>2, <1>5, CodedConcat
<1> HIDE DEF vwxy
<1>7. HeaderValues(m) = <<u>> \o vwxy
    BY <1>3, Zenon DEF vwxy, wxy, xy
<1>8. Coded(HeaderValues(m), HeaderSize)
    <2>1. Coded(<<u>> \o vwxy, IntSize + (SizeT + (SizeT + (SizeT + SizeT))))
        BY <1>1, <1>6, CodedConcat
    <2>2. IntSize + (SizeT + (SizeT + (SizeT + SizeT))) = HeaderSize
        BY Widths
    <2> QED
        BY <1>7, <2>1, <2>2
<1>9. ASSUME NEW b, Reads(b, 0, FlattenSeq(HeaderValues(m)))
      PROVE  HeaderAt(b, m.kind, m.sender, m.target, m.id, PayloadSize(m))
    <2>1. Reads(b, 0, FlattenSeq(<<u>> \o vwxy))
        BY <1>7, <1>9
    <2>2. Reads(b, 0, FlattenSeq(<<u>>)) /\ Reads(b, 0 + IntSize, FlattenSeq(vwxy))
        BY <1>1, <1>6, <2>1, CodedReads
    <2>3. 0 + IntSize = IntSize
        BY Widths
    <2>4. Reads(b, IntSize, FlattenSeq(<<v>> \o wxy))
        BY <2>2, <2>3 DEF vwxy
    <2>5. Reads(b, IntSize, FlattenSeq(<<v>>)) /\ Reads(b, IntSize + SizeT, FlattenSeq(wxy))
        BY <1>2, <1>5, <2>4, CodedReads
    <2>6. Reads(b, IntSize + SizeT, FlattenSeq(<<w>> \o xy))
        BY <2>5 DEF wxy
    <2>7. /\ Reads(b, IntSize + SizeT, FlattenSeq(<<w>>))
          /\ Reads(b, (IntSize + SizeT) + SizeT, FlattenSeq(xy))
        BY <1>2, <1>4, <2>6, CodedReads
    <2>8. (IntSize + SizeT) + SizeT = IntSize + (2 * SizeT)
        BY Widths
    <2>9. Reads(b, IntSize + (2 * SizeT), FlattenSeq(<<x>> \o <<y>>))
        BY <2>7, <2>8 DEF xy
    <2>10. /\ Reads(b, IntSize + (2 * SizeT), FlattenSeq(<<x>>))
           /\ Reads(b, (IntSize + (2 * SizeT)) + SizeT, FlattenSeq(<<y>>))
        BY <1>2, <2>9, CodedReads
    <2>11. (IntSize + (2 * SizeT)) + SizeT = IntSize + (3 * SizeT)
        BY Widths
    <2>12. /\ Reads(b, 0, u) /\ Reads(b, IntSize, v) /\ Reads(b, IntSize + SizeT, w)
           /\ Reads(b, IntSize + (2 * SizeT), x) /\ Reads(b, IntSize + (3 * SizeT), y)
        BY <1>1, <1>2, <2>2, <2>5, <2>7, <2>10, <2>11
    <2> QED
        BY <2>12, Zenon DEF HeaderAt, u, v, w, x, y
<1> QED
    BY <1>8, <1>9

\* A size is read where its bytes are, some sizes behind the kind.
LEMMA FieldReads ==
    ASSUME NEW b, NEW d, d = At(b, 0, 0), NEW i \in Nat, NEW k, k = IntSize + (i * SizeT),
           NEW v \in Data, Reads(b, k, SizeBytes(v))
    PROVE  GetSizeT([d EXCEPT !.off = @ + IntSize + i * SizeT]).val = v
<1>1. [d EXCEPT !.off = @ + IntSize + i * SizeT] = Skipped(d, d.off + IntSize + i * SizeT)
    BY Zenon DEF Skipped
<1>2. d.off + IntSize + i * SizeT = k
    <2>1. d.off = 0
        BY AtFields
    <2>2. i * SizeT \in Nat
        BY Widths
    <2> QED
        BY <2>1, <2>2, Widths
<1>3. Skipped(d, k) = At(b, k, 0)
    BY AtSkipped
<1>4. GetSizeT(At(b, k, 0)).val = v
    BY SizeReads, AtFields
<1> QED
    BY <1>1, <1>2, <1>3, <1>4, Zenon

LEMMA GetHeaderReads ==
    ASSUME NEW b, NEW kind \in Data, NEW from \in Data, NEW to \in Data, NEW id \in Data,
           NEW size \in Data, HeaderAt(b, kind, from, to, id, size)
    PROVE  GetHeader(NewDeserializer(b)) =
               [kind |-> kind, sender |-> from, target |-> to, id |-> id, size |-> size]
<1> DEFINE d == NewDeserializer(b)
           Field(i) == GetSizeT([d EXCEPT !.off = @ + IntSize + i * SizeT]).val
<1>1. d = At(b, 0, 0)
    BY NewAt
<1>2. GetEnum(d).val = kind
    <2>1. Reads(b, 0, EnumBytes(kind))
        BY DEF HeaderAt
    <2>2. GetEnum(At(b, 0, 0)) = At(b, 0 + IntSize, kind)
        <3> HIDE DEF d, Field
        <3> QED
            BY <2>1, EnumReads
    <2> QED
        BY <1>1, <2>2, AtFields
<1> HIDE DEF d
<1>3. Field(0) = from
    <2>1. Reads(b, IntSize, SizeBytes(from)) /\ IntSize = IntSize + (0 * SizeT) /\ 0 \in Nat
        BY Widths DEF HeaderAt
    <2> QED
        BY <1>1, <2>1, FieldReads
<1>4. Field(1) = to
    <2>1. /\ Reads(b, IntSize + SizeT, SizeBytes(to))
          /\ IntSize + SizeT = IntSize + (1 * SizeT) /\ 1 \in Nat
        BY Widths DEF HeaderAt
    <2> QED
        BY <1>1, <2>1, FieldReads
<1>5. Field(2) = id
    <2>1. Reads(b, IntSize + (2 * SizeT), SizeBytes(id)) /\ 2 \in Nat
        BY DEF HeaderAt
    <2> QED
        BY <1>1, <2>1, FieldReads
<1>6. Field(3) = size
    <2>1. Reads(b, IntSize + (3 * SizeT), SizeBytes(size)) /\ 3 \in Nat
        BY DEF HeaderAt
    <2> QED
        BY <1>1, <2>1, FieldReads
<1>7. GetHeader(d) = [kind |-> GetEnum(d).val, sender |-> Field(0), target |-> Field(1),
                      id |-> Field(2), size |-> Field(3)]
    BY Zenon DEF GetHeader
<1> HIDE DEF Field
<1> QED
    BY <1>2, <1>3, <1>4, <1>5, <1>6, <1>7, Zenon DEF d


-----------------------------------------------------------------------------
\* A whole message.

\* What is shown of every message on its way.
Shape(o, m, p) ==
    /\ HeaderOf(m, o) /\ Carries(m, p) /\ PayloadRead(m, p)
    /\ IsKeyed(m) => KeyedValues(m) \in Seq(Seq(Byte))

LEMMA Shapes ==
    ASSUME NEW o \in Message, ~ HasNullString(o), NEW m, m = Outgoing(o)
    PROVE  \E p : Shape(o, m, p)
<1>1. CASE o \in [kind : {"Status"}, id : Nat, msg : Text]
    <2>1. /\ HeaderOf(m, o) /\ o.kind = "Status" /\ m.msg = o.msg /\ o.msg \in Seq(STRING)
          /\ Carries(m, [msg |-> o.msg])
        BY <1>1, StatusCarries
    <2>2. m.kind = "Status"
        BY <2>1 DEF HeaderOf
    <2>3. PayloadRead(m, [msg |-> o.msg])
        BY <2>1, <2>2, StatusRead
    <2>4. ~ IsKeyed(m)
        BY <2>2 DEF IsKeyed
    <2> QED
        BY <2>1, <2>3, <2>4, Zenon DEF Shape
<1>2. CASE o \in [kind : {"Register"}, id : Nat, address : STRING, port : Nat]
    <2>1. /\ HeaderOf(m, o) /\ o.kind = "Register" /\ m.address = o.address /\ m.port = o.port
          /\ o.address \in STRING /\ o.port \in Nat
          /\ Carries(m, [address |-> o.address, port |-> o.port])
        BY <1>2, RegisterCarries
    <2>2. m.kind = "Register"
        BY <2>1 DEF HeaderOf
    <2>3. PayloadRead(m, [address |-> o.address, port |-> o.port])
        BY <2>1, <2>2, RegisterRead
    <2>4. ~ IsKeyed(m)
        BY <2>2 DEF IsKeyed
    <2> QED
        BY <2>1, <2>3, <2>4, Zenon DEF Shape
<1>3. CASE o \in [kind : {"Directory"}, id : Nat, directory : Seq(Address)]
    <2>1. /\ HeaderOf(m, o) /\ o.kind = "Directory" /\ m.directory = o.directory
          /\ o.directory \in Seq(Address) /\ Carries(m, [directory |-> o.directory])
        BY <1>3, DirectoryCarries
    <2>2. m.kind = "Directory"
        BY <2>1 DEF HeaderOf
    <2>3. PayloadRead(m, [directory |-> o.directory])
        BY <2>1, <2>2, DirectoryRead
    <2>4. ~ IsKeyed(m)
        BY <2>2 DEF IsKeyed
    <2> QED
        BY <2>1, <2>3, <2>4, Zenon DEF Shape
<1>4. CASE o \in [kind : {"WaitAndGet"}, id : Nat, key : KeyOf(Nat)]
    <2>1. /\ HeaderOf(m, o) /\ o.kind = "WaitAndGet" /\ m.key = o.key /\ o.key \in KeyOf(Nat)
          /\ Carries(m, [key |-> o.key])
        BY <1>4, AskCarries
    <2>2. m.kind = "WaitAndGet"
        BY <2>1 DEF HeaderOf
    <2>3. KeyedValues(m) \in Seq(Seq(Byte)) /\ PayloadRead(m, [key |-> o.key])
        BY <2>1, <2>2, AskRead
    <2> QED
        BY <2>1, <2>3, Zenon DEF Shape
<1>5. CASE o \in [kind : {"Put"}, id : Nat, key : KeyOf({NoHome}),
                  value : [types : Seq(ColumnTypes), nrows : Nat]]
    <2>1. /\ HeaderOf(m, o) /\ o.kind = "Put" /\ m.key = o.key /\ m.value = o.value
          /\ o.key \in KeyOf({NoHome}) /\ o.value \in [types : Seq(ColumnTypes), nrows : Nat]
          /\ Carries(m, [key |-> o.key, value |-> o.value])
        BY <1>5, ValueCarries
    <2>2. m.kind = "Put"
        BY <2>1 DEF HeaderOf
    <2>3. KeyedValues(m) \in Seq(Seq(Byte))
          /\ PayloadRead(m, [key |-> o.key, value |-> o.value])
        BY <2>1, <2>2, ValueKeyedRead
    <2> QED
        BY <2>1, <2>3, Zenon DEF Shape
<1>6. CASE o \in [kind : {"Put", "Reply"}, id : Nat, key : KeyOf(Nat \ {NoHome}), set : File]
    <2>1. /\ HeaderOf(m, o) /\ o.kind \in {"Put", "Reply"} /\ m.key = o.key
          /\ m.value = Convert(o.set)
          /\ o.key \in KeyOf(Nat \ {NoHome}) /\ o.set \in File /\ IsSegment(o)
          /\ Carries(m, [key |-> o.key, value |-> Convert(o.set)])
        BY <1>6, SegmentCarries
    <2>2. m.kind \in {"Put", "Reply"}
        BY <2>1 DEF HeaderOf
    <2>3. Serializable(Convert(o.set))
        BY <2>1 DEF HasNullString
    <2>4. IsTable(Convert(o.set)) /\ Len(Convert(o.set).types) # 0
        BY <2>1, <2>3, ConvertTable
    <2>5. KeyedValues(m) \in Seq(Seq(Byte))
          /\ PayloadRead(m, [key |-> o.key, value |-> Convert(o.set)])
        <3> DEFINE key == o.key
                   v == Convert(o.set)
        <3>1. Brings(m, key, v)
            BY <2>1, <2>2, <2>4 DEF Brings
        <3> HIDE DEF key, v
        <3>2. KeyedValues(m) \in Seq(Seq(Byte)) /\ PayloadRead(m, [key |-> key, value |-> v])
            BY <3>1, SegmentRead
        <3> QED
            BY <3>2, Zenon DEF key, v
    <2> QED
        BY <2>1, <2>5, Zenon DEF Shape
<1> QED
    BY <1>1, <1>2, <1>3, <1>4, <1>5, <1>6 DEF Message

\* The bytes of the message o on its way, and how many they are.
Wire(o)     == FlattenSeq(MessageValues(Outgoing(o)))
WireSize(o) == HeaderSize + PayloadSize(Outgoing(o))
HeaderWire(o) == FlattenSeq(HeaderValues(Outgoing(o)))

LEMMA Assembled ==
    ASSUME NEW b, NEW m, NEW p, Carries(m, p), GetPayload(m.kind, b) = p, NEW size,
           GetHeader(NewDeserializer(b)) =
               [kind |-> m.kind, sender |-> m.sender, target |-> m.target, id |-> m.id,
                size |-> size]
    PROVE  GetMessage(b) = m
<1> DEFINE h == GetHeader(NewDeserializer(b))
           D == HeaderFields \cup DOMAIN p
<1>1. h.kind = m.kind /\ \A f \in HeaderFields : h[f] = m[f]
    BY DEF HeaderFields
<1>2. GetMessage(b) = [f \in D |-> IF f \in HeaderFields THEN h[f] ELSE p[f]]
    BY <1>1 DEF GetMessage, HeaderFields
<1>3. m = [f \in D |-> m[f]]
    BY DEF Carries
<1>4. ASSUME NEW f \in D PROVE (IF f \in HeaderFields THEN h[f] ELSE p[f]) = m[f]
    BY <1>1 DEF Carries
<1> HIDE DEF h, D
<1>5. [f \in D |-> IF f \in HeaderFields THEN h[f] ELSE p[f]] = [f \in D |-> m[f]]
    BY <1>4
<1> QED
    BY <1>2, <1>3, <1>5, Zenon

\* The header and the whole message are read from any bytes that begin with them.
HeaderRead(o) ==
    \A b : Reads(b, 0, HeaderWire(o)) =>
        GetHeader(NewDeserializer(b)).size = PayloadSize(Outgoing(o))
WholeRead(o) == \A b : Reads(b, 0, Wire(o)) => GetMessage(b) = Outgoing(o)

WireFacts(o) ==
    /\ MessageValues(Outgoing(o)) \in Seq(Seq(Byte))
    /\ HeaderValues(Outgoing(o)) \in Seq(Seq(Byte))
    /\ Wire(o) \in Seq(Byte) /\ Len(Wire(o)) = WireSize(o)
    /\ HeaderWire(o) \in Seq(Byte) /\ Len(HeaderWire(o)) = HeaderSize
    /\ PayloadSize(Outgoing(o)) \in Nat
    /\ IsKeyed(Outgoing(o)) => KeyedValues(Outgoing(o)) \in Seq(Seq(Byte))
    /\ \E s \in Seq(Byte) : Wire(o) = HeaderWire(o) \o s
    /\ HeaderRead(o) /\ WholeRead(o)

LEMMA MessageFacts ==
    ASSUME NEW o \in Message, ~ HasNullString(o)
    PROVE  WireFacts(o)
<1> DEFINE m == Outgoing(o)
           hv == HeaderValues(m)
           pv == PayloadValues(m)
           n == PayloadSize(m)
<1>1. PICK p : Shape(o, m, p)
    BY Shapes
<1> HIDE DEF m
<1>2. m.kind \in Data /\ m.sender \in Data /\ m.target \in Data /\ m.id \in Data
    BY <1>1 DEF Shape, HeaderOf, Data
<1>3. Coded(pv, n) /\ n \in Nat /\ n \in Data
    BY <1>1 DEF Shape, PayloadRead, Coded, Data
<1>4. Coded(hv, HeaderSize)
      /\ \A b : Reads(b, 0, FlattenSeq(hv)) => HeaderAt(b, m.kind, m.sender, m.target, m.id, n)
    BY <1>2, <1>3, HeaderCoded
<1>5. MessageValues(m) = hv \o pv
    BY Zenon DEF MessageValues
<1> HIDE DEF hv, pv, n
<1>6. Coded(hv \o pv, HeaderSize + n) /\ FlattenSeq(hv \o pv) = FlattenSeq(hv) \o FlattenSeq(pv)
    BY <1>3, <1>4, CodedConcat
<1>7. ASSUME NEW b, Reads(b, 0, FlattenSeq(hv))
      PROVE  GetHeader(NewDeserializer(b)) =
                 [kind |-> m.kind, sender |-> m.sender, target |-> m.target, id |-> m.id,
                  size |-> n]
    <2> DEFINE kind == m.kind
               from == m.sender
               to == m.target
               id == m.id
    <2>1. HeaderAt(b, kind, from, to, id, n)
        BY <1>4, <1>7
    <2>2. kind \in Data /\ from \in Data /\ to \in Data /\ id \in Data /\ n \in Data
        BY <1>2, <1>3
    <2> HIDE DEF kind, from, to, id
    <2>3. GetHeader(NewDeserializer(b)) =
              [kind |-> kind, sender |-> from, target |-> to, id |-> id, size |-> n]
        BY <2>1, <2>2, GetHeaderReads
    <2> QED
        BY <2>3, Zenon DEF kind, from, to, id
<1>8. ASSUME NEW b, Reads(b, 0, FlattenSeq(hv)) PROVE GetHeader(NewDeserializer(b)).size = n
    BY <1>7, <1>8
<1>9. ASSUME NEW b, Reads(b, 0, FlattenSeq(hv \o pv)) PROVE GetMessage(b) = m
    <2>1. Reads(b, 0, FlattenSeq(hv)) /\ Reads(b, 0 + HeaderSize, FlattenSeq(pv))
        BY <1>3, <1>4, <1>9, CodedReads
    <2>2. 0 + HeaderSize = HeaderSize
        BY Widths
    <2>3. GetPayload(m.kind, b) = p
        BY <1>1, <2>1, <2>2 DEF Shape, PayloadRead, pv
    <2>4. Carries(m, p)
        BY <1>1 DEF Shape
    <2> QED
        BY <1>7, <2>1, <2>3, <2>4, Assembled
<1>10. Wire(o) = FlattenSeq(hv \o pv) /\ HeaderWire(o) = FlattenSeq(hv)
       /\ WireSize(o) = HeaderSize + n
    BY <1>5, Zenon DEF Wire, HeaderWire, WireSize, m, hv, n
<1>11. /\ hv \o pv \in Seq(Seq(Byte)) /\ hv \in Seq(Seq(Byte))
       /\ Wire(o) \in Seq(Byte) /\ Len(Wire(o)) = WireSize(o)
       /\ HeaderWire(o) \in Seq(Byte) /\ Len(HeaderWire(o)) = HeaderSize
    BY <1>4, <1>6, <1>10 DEF Coded
<1>12. \E s \in Seq(Byte) : Wire(o) = HeaderWire(o) \o s
    <2>1. FlattenSeq(pv) \in Seq(Byte)
        BY <1>3 DEF Coded
    <2> QED
        BY <1>6, <1>10, <2>1, Zenon
<1>13. HeaderRead(o)
    BY <1>8, <1>10, Zenon DEF HeaderRead, m, n
<1>14. WholeRead(o)
    BY <1>9, <1>10, Zenon DEF WholeRead, m
<1>15. IsKeyed(m) => KeyedValues(m) \in Seq(Seq(Byte))
    BY <1>1 DEF Shape
<1> QED
    BY <1>3, <1>5, <1>11, <1>12, <1>13, <1>14, <1>15, Zenon DEF WireFacts, m, hv, n


-----------------------------------------------------------------------------
\* The bytes of the messages that are on their way.

Wires(o, h, n) == [i \in 1 .. n - h |-> Wire(o[h + i])]
Rest(o, h, n)  == FlattenSeq(Wires(o, h, n))

\* The first n messages can be sent.
Sendable(o, n) == \A i \in 1 .. n : o[i] \in Message /\ ~ HasNullString(o[i])

LEMMA WiresFacts ==
    ASSUME NEW o, NEW n \in Nat, Sendable(o, n), NEW h \in 0 .. n
    PROVE  /\ Wires(o, h, n) \in Seq(Seq(Byte)) /\ Len(Wires(o, h, n)) = n - h
           /\ \A i \in 1 .. n - h : Wires(o, h, n)[i] = Wire(o[h + i])
           /\ Rest(o, h, n) \in Seq(Byte)
<1> DEFINE N == n - h
           S == Seq(Byte)
           vs == Wires(o, h, n)
<1>1. N \in Nat
    OBVIOUS
<1>2. vs = [i \in 1 .. N |-> vs[i]] /\ \A i \in 1 .. N : vs[i] = Wire(o[h + i])
    BY DEF Wires
<1>3. ASSUME NEW i \in 1 .. N PROVE vs[i] \in S
    <2>1. h + i \in 1 .. n
        OBVIOUS
    <2>2. WireFacts(o[h + i])
        BY <2>1, MessageFacts DEF Sendable
    <2> QED
        BY <1>2, <2>2 DEF WireFacts
<1> HIDE DEF vs, N, S
<1>4. vs \in Seq(S) /\ Len(vs) = N
    BY <1>1, <1>2, <1>3, RowOfBytes
<1>5. vs \in Seq(Seq(Byte))
    BY <1>4, Zenon DEF S
<1>6. FlattenSeq(vs) \in Seq(Byte)
    BY <1>5, FlattenType
<1>7. Rest(o, h, n) = FlattenSeq(vs)
    BY Zenon DEF Rest, vs
<1> QED
    BY <1>2, <1>4, <1>5, <1>6, <1>7 DEF vs, N

LEMMA RestEmpty ==
    ASSUME NEW o, NEW n \in Nat
    PROVE  Rest(o, n, n) = <<>>
<1>1. Wires(o, n, n) = <<>>
    <2>1. n - n = 0
        OBVIOUS
    <2>2. Wires(o, n, n) = [i \in 1 .. 0 |-> Wire(o[n + i])]
        BY <2>1, Zenon DEF Wires
    <2> HIDE DEF Wires
    <2> QED
        BY <2>2
<1> QED
    BY <1>1, FlattenEmpty, Zenon DEF Rest

\* Two sequences of sequences with the same parts.
LEMMA SameParts ==
    ASSUME NEW S, NEW vs \in Seq(S), NEW ws \in Seq(S), NEW N \in Nat, Len(vs) = N, Len(ws) = N,
           \A i \in 1 .. N : vs[i] = ws[i]
    PROVE  vs = ws
BY SeqEqual

\* A message is added at the end.
LEMMA RestSend ==
    ASSUME NEW o, NEW n \in Nat, Sendable(o, n + 1), NEW h \in 0 .. n
    PROVE  Rest(o, h, n + 1) = Rest(o, h, n) \o Wire(o[n + 1])
<1> DEFINE S == Seq(Byte)
           vs == Wires(o, h, n)
           us == Wires(o, h, n + 1)
           x == Wire(o[n + 1])
           N == n - h
<1>1. Sendable(o, n) /\ N \in Nat /\ (n + 1) - h = N + 1
    BY DEF Sendable
<1>2. vs \in Seq(S) /\ Len(vs) = N /\ \A i \in 1 .. N : vs[i] = Wire(o[h + i])
    BY <1>1, WiresFacts
<1>3. us \in Seq(S) /\ Len(us) = N + 1 /\ \A i \in 1 .. N + 1 : us[i] = Wire(o[h + i])
    <2>1. n + 1 \in Nat /\ h \in 0 .. n + 1
        OBVIOUS
    <2>2. us \in Seq(S) /\ Len(us) = (n + 1) - h
          /\ \A i \in 1 .. (n + 1) - h : us[i] = Wire(o[h + i])
        BY <2>1, WiresFacts
    <2> QED
        BY <1>1, <2>2
<1>4. x \in S
    <2>1. WireFacts(o[n + 1])
        BY MessageFacts DEF Sendable
    <2> QED
        BY <2>1 DEF WireFacts
<1>5. h + (N + 1) = n + 1
    OBVIOUS
<1> HIDE DEF S, vs, us, x, N
<1>6. <<x>> \in Seq(S) /\ Len(<<x>>) = 1 /\ <<x>>[1] = x
    BY <1>4
<1> DEFINE y == <<x>>
<1> HIDE DEF y
<1>7. y \in Seq(S) /\ Len(y) = 1 /\ y[1] = x
    BY <1>6 DEF y
<1> DEFINE ws == vs \o y
<1>8. ws \in Seq(S) /\ Len(ws) = N + 1
    <2>1. vs \in Seq(S)
        BY <1>2
    <2>2. y \in Seq(S)
        BY <1>7
    <2>3. ws \in Seq(S) /\ Len(ws) = Len(vs) + Len(y)
        BY <2>1, <2>2, ConcatFacts
    <2> HIDE DEF ws
    <2> QED
        BY <1>2, <1>7, <2>3
<1>9. \A i \in 1 .. N : ws[i] = vs[i]
    BY <1>2, <1>7, ConcatFacts
<1>10. ws[N + 1] = x
    <2>1. \A i \in 1 .. Len(y) : ws[Len(vs) + i] = y[i]
        BY <1>2, <1>7, ConcatFacts
    <2> HIDE DEF ws
    <2> QED
        BY <1>2, <1>7, <2>1
<1> HIDE DEF ws
<1>11. us[N + 1] = x
    <2>1. N + 1 \in 1 .. N + 1
        BY <1>1
    <2>2. us[N + 1] = Wire(o[h + (N + 1)])
        BY <1>3, <2>1
    <2> QED
        BY <1>5, <2>2 DEF x
<1>12. \A i \in 1 .. N + 1 : us[i] = ws[i]
    <2> SUFFICES ASSUME NEW i \in 1 .. N + 1 PROVE us[i] = ws[i]
        OBVIOUS
    <2>1. CASE i = N + 1
        BY <1>10, <1>11, <2>1
    <2>2. CASE i # N + 1
        <3>1. i \in 1 .. N
            BY <1>1, <2>2
        <3> QED
            BY <1>2, <1>3, <1>9, <3>1
    <2> QED
        BY <2>1, <2>2
<1>13. us = ws
    <2>1. N + 1 \in Nat
        BY <1>1
    <2> QED
        BY <1>3, <1>8, <1>12, <2>1, SameParts
<1>14. FlattenSeq(vs \o y) = FlattenSeq(vs) \o FlattenSeq(y)
    BY <1>2, <1>7, FlattenConcat DEF S
<1>15. FlattenSeq(y) = x
    BY <1>4, FlattenOne DEF S, y
<1> QED
    BY <1>13, <1>14, <1>15, Zenon DEF Rest, us, vs, ws, x

\* A message is taken from the front.
LEMMA RestTake ==
    ASSUME NEW o, NEW n \in Nat, Sendable(o, n), NEW h \in 0 .. n - 1
    PROVE  Rest(o, h, n) = Wire(o[h + 1]) \o Rest(o, h + 1, n)
<1> DEFINE S == Seq(Byte)
           vs == Wires(o, h + 1, n)
           us == Wires(o, h, n)
           x == Wire(o[h + 1])
           N == n - (h + 1)
<1>1. N \in Nat /\ n - h = N + 1 /\ h \in 0 .. n /\ h + 1 \in 0 .. n /\ h \in Nat
    OBVIOUS
<1>2. vs \in Seq(S) /\ Len(vs) = N /\ \A i \in 1 .. N : vs[i] = Wire(o[(h + 1) + i])
    BY <1>1, WiresFacts
<1>3. us \in Seq(S) /\ Len(us) = N + 1 /\ \A i \in 1 .. N + 1 : us[i] = Wire(o[h + i])
    <2>1. us \in Seq(S) /\ Len(us) = n - h /\ \A i \in 1 .. n - h : us[i] = Wire(o[h + i])
        BY <1>1, WiresFacts
    <2> QED
        BY <1>1, <2>1
<1>4. x \in S
    <2>1. h + 1 \in 1 .. n
        OBVIOUS
    <2>2. WireFacts(o[h + 1])
        BY <2>1, MessageFacts DEF Sendable
    <2> QED
        BY <2>2 DEF WireFacts
<1> HIDE DEF S, vs, us, x, N
<1> DEFINE ws == <<x>> \o vs
<1>5. ws \in Seq(S) /\ Fronted(ws, x, vs, N)
    BY <1>1, <1>2, <1>4, InFront
<1> HIDE DEF ws
<1>6. Len(ws) = N + 1 /\ ws[1] = x /\ \A i \in 2 .. N + 1 : ws[i] = vs[i - 1]
    BY <1>5 DEF Fronted
<1>7. us[1] = x
    <2>1. 1 \in 1 .. N + 1
        BY <1>1
    <2> QED
        BY <1>3, <2>1 DEF x
<1>8. \A i \in 1 .. N + 1 : us[i] = ws[i]
    <2> SUFFICES ASSUME NEW i \in 1 .. N + 1 PROVE us[i] = ws[i]
        OBVIOUS
    <2>1. CASE i = 1
        BY <1>6, <1>7, <2>1
    <2>2. CASE i # 1
        <3>1. i \in 2 .. N + 1 /\ i - 1 \in 1 .. N /\ (h + 1) + (i - 1) = h + i
            BY <1>1, <2>2
        <3>2. ws[i] = vs[i - 1] /\ vs[i - 1] = Wire(o[(h + 1) + (i - 1)])
            BY <1>2, <1>6, <3>1
        <3>3. us[i] = Wire(o[h + i])
            BY <1>3
        <3> QED
            BY <3>1, <3>2, <3>3
    <2> QED
        BY <2>1, <2>2
<1>9. us = ws
    <2>1. N + 1 \in Nat
        BY <1>1
    <2> QED
        BY <1>3, <1>5, <1>6, <1>8, <2>1, SameParts
<1> DEFINE y == <<x>>
<1>10. y \in Seq(S) /\ FlattenSeq(y) = x
    <2>1. FlattenSeq(y) = x
        BY <1>4, FlattenOne DEF S
    <2> QED
        BY <1>4, <2>1
<1> HIDE DEF y
<1>11. FlattenSeq(y \o vs) = FlattenSeq(y) \o FlattenSeq(vs)
    BY <1>2, <1>10, FlattenConcat DEF S
<1> QED
    BY <1>9, <1>10, <1>11, Zenon DEF Rest, us, vs, ws, x, y


-----------------------------------------------------------------------------
\* The buffer b and the stream s are the beginning of the bytes R.

Holds(R, b, s) ==
    /\ R \in Seq(Byte) /\ b \in Seq(Byte) /\ s \in Seq(Byte)
    /\ Len(b) + Len(s) <= Len(R)
    /\ \A i \in 1 .. Len(b) : b[i] = R[i]
    /\ \A i \in 1 .. Len(s) : s[i] = R[Len(b) + i]

\* The first k of a sequence, and those behind them.
LEMMA CutFacts ==
    ASSUME NEW S, NEW s \in Seq(S), NEW k \in 0 .. Len(s)
    PROVE  /\ SubSeq(s, 1, k) \in Seq(S) /\ Len(SubSeq(s, 1, k)) = k
           /\ \A i \in 1 .. k : SubSeq(s, 1, k)[i] = s[i]
           /\ SubSeq(s, k + 1, Len(s)) \in Seq(S) /\ Len(SubSeq(s, k + 1, Len(s))) = Len(s) - k
           /\ \A i \in 1 .. Len(s) - k : SubSeq(s, k + 1, Len(s))[i] = s[k + i]
<1>1. SubSeq(s, 1, k) \in Seq(S) /\ Len(SubSeq(s, 1, k)) = k
      /\ \A i \in 1 .. k : SubSeq(s, 1, k)[i] = s[i]
    OBVIOUS
<1>2. /\ SubSeq(s, k + 1, Len(s)) \in Seq(S) /\ Len(SubSeq(s, k + 1, Len(s))) = Len(s) - k
      /\ \A i \in 1 .. Len(s) - k : SubSeq(s, k + 1, Len(s))[i] = s[k + i]
    OBVIOUS
<1> QED
    BY <1>1, <1>2

LEMMA HoldsSend ==
    ASSUME NEW R, NEW b, NEW s, Holds(R, b, s), Len(b) + Len(s) = Len(R), NEW w \in Seq(Byte)
    PROVE  /\ Holds(R \o w, b, s \o w)
           /\ Len(b) + Len(s \o w) = Len(R \o w)
<1> DEFINE S == Byte
           R2 == R \o w
           s2 == s \o w
<1>1. R \in Seq(S) /\ b \in Seq(S) /\ s \in Seq(S) /\ w \in Seq(S)
      /\ (\A i \in 1 .. Len(b) : b[i] = R[i]) /\ \A i \in 1 .. Len(s) : s[i] = R[Len(b) + i]
    BY DEF Holds
<1> HIDE DEF S
<1>2. R \in Seq(S)
    BY <1>1
<1>3. s \in Seq(S)
    BY <1>1
<1>4. w \in Seq(S)
    BY <1>1
<1>5. Len(R) \in Nat /\ Len(b) \in Nat /\ Len(s) \in Nat /\ Len(w) \in Nat
    BY <1>1
<1>6. R2 \in Seq(S) /\ Len(R2) = Len(R) + Len(w)
    BY <1>2, <1>4, ConcatFacts
<1>7. \A i \in 1 .. Len(R) : R2[i] = R[i]
    BY <1>2, <1>4, ConcatFacts
<1>8. \A i \in 1 .. Len(w) : R2[Len(R) + i] = w[i]
    BY <1>2, <1>4, ConcatFacts
<1>9. s2 \in Seq(S) /\ Len(s2) = Len(s) + Len(w)
    BY <1>3, <1>4, ConcatFacts
<1>10. \A i \in 1 .. Len(s) : s2[i] = s[i]
    BY <1>3, <1>4, ConcatFacts
<1>11. \A i \in 1 .. Len(w) : s2[Len(s) + i] = w[i]
    BY <1>3, <1>4, ConcatFacts
<1> HIDE DEF R2, s2
<1>12. Len(b) + Len(s2) = Len(R2)
    <2>1. Len(R2) = Len(R) + Len(w) /\ Len(s2) = Len(s) + Len(w)
        BY <1>6, <1>9, Zenon
    <2> QED
        BY <1>5, <2>1
<1>13. \A i \in 1 .. Len(b) : b[i] = R2[i]
    BY <1>1, <1>5, <1>7
<1>14. ASSUME NEW i \in 1 .. Len(s2) PROVE s2[i] = R2[Len(b) + i]
    <2>1. CASE i <= Len(s)
        <3>1. i \in 1 .. Len(s) /\ Len(b) + i \in 1 .. Len(R)
            BY <1>5, <2>1
        <3> QED
            BY <1>1, <1>7, <1>10, <3>1
    <2>2. CASE ~ (i <= Len(s))
        <3> DEFINE j == i - Len(s)
        <3>1. j \in 1 .. Len(w) /\ Len(s) + j = i /\ Len(R) + j = Len(b) + i
            <4>1. Len(s2) = Len(s) + Len(w)
                BY <1>9, Zenon
            <4>2. i \in 1 .. Len(s) + Len(w)
                BY <4>1, Zenon
            <4> QED
                BY <1>5, <2>2, <4>2
        <3> HIDE DEF j
        <3> QED
            BY <1>8, <1>11, <3>1
    <2> QED
        BY <2>1, <2>2
<1>15. Len(b) + Len(s2) <= Len(R2)
    BY <1>5, <1>6, <1>9
<1> QED
    BY <1>1, <1>6, <1>9, <1>12, <1>13, <1>14, <1>15 DEF Holds, R2, s2, S

LEMMA HoldsCut ==
    ASSUME NEW R, NEW b, NEW s, Holds(R, b, s), NEW k \in 0 .. Len(s)
    PROVE  Holds(R, b, SubSeq(s, 1, k))
<1>1. s \in Seq(Byte) /\ b \in Seq(Byte) /\ R \in Seq(Byte) /\ Len(b) + Len(s) <= Len(R)
    BY DEF Holds
<1> DEFINE t == SubSeq(s, 1, k)
<1>2. t \in Seq(Byte) /\ Len(t) = k /\ \A i \in 1 .. k : t[i] = s[i]
    BY <1>1, CutFacts
<1> HIDE DEF t
<1>3. Len(b) + Len(t) <= Len(R)
    <2>1. Len(b) \in Nat /\ Len(s) \in Nat /\ Len(R) \in Nat
        BY <1>1
    <2> QED
        BY <1>1, <1>2, <2>1
<1>4. ASSUME NEW i \in 1 .. Len(t) PROVE t[i] = R[Len(b) + i]
    <2>1. i \in 1 .. k /\ i \in 1 .. Len(s)
        BY <1>1, <1>2
    <2>2. s[i] = R[Len(b) + i]
        BY <2>1 DEF Holds
    <2> QED
        BY <1>2, <2>1, <2>2
<1>5. \A i \in 1 .. Len(b) : b[i] = R[i]
    BY DEF Holds
<1> QED
    BY <1>1, <1>2, <1>3, <1>4, <1>5 DEF Holds, t

LEMMA HoldsNothing ==
    ASSUME NEW R, NEW b, NEW s, Holds(R, b, s), s = <<>>
    PROVE  Holds(R, <<>>, s)
BY DEF Holds

\* The first k bytes of the stream s have been read into the buffer b.
Moves(b, s, c, t, k) ==
    /\ k \in 0 .. Len(s)
    /\ c = b \o SubSeq(s, 1, k) /\ t = SubSeq(s, k + 1, Len(s))

LEMMA HoldsRead ==
    ASSUME NEW R, NEW b, NEW s, Holds(R, b, s), NEW k, NEW c, NEW t, Moves(b, s, c, t, k)
    PROVE  Holds(R, c, t) /\ Len(c) + Len(t) = Len(b) + Len(s) /\ Len(c) = Len(b) + k
<1> DEFINE S == Byte
           u == SubSeq(s, 1, k)
<1>0. k \in 0 .. Len(s) /\ c = b \o u /\ t = SubSeq(s, k + 1, Len(s))
    BY DEF Moves
<1>1. s \in Seq(S) /\ b \in Seq(S) /\ R \in Seq(S) /\ Len(b) + Len(s) <= Len(R)
      /\ (\A i \in 1 .. Len(b) : b[i] = R[i]) /\ \A i \in 1 .. Len(s) : s[i] = R[Len(b) + i]
    BY DEF Holds
<1> HIDE DEF S
<1>2. u \in Seq(S) /\ Len(u) = k /\ \A i \in 1 .. k : u[i] = s[i]
    BY <1>0, <1>1, CutFacts
<1>3. t \in Seq(S) /\ Len(t) = Len(s) - k /\ \A i \in 1 .. Len(s) - k : t[i] = s[k + i]
    BY <1>0, <1>1, CutFacts
<1> HIDE DEF u
<1>4. b \in Seq(S)
    BY <1>1
<1>5. u \in Seq(S)
    BY <1>2
<1> DEFINE d == b \o u
<1>6. d \in Seq(S) /\ Len(d) = Len(b) + Len(u)
    BY <1>4, <1>5, ConcatFacts
<1>7. \A i \in 1 .. Len(b) : d[i] = b[i]
    BY <1>4, <1>5, ConcatFacts
<1>8. \A i \in 1 .. Len(u) : d[Len(b) + i] = u[i]
    BY <1>4, <1>5, ConcatFacts
<1>9. c = d
    BY <1>0
<1>10. Len(b) \in Nat /\ Len(s) \in Nat /\ Len(R) \in Nat /\ k \in 0 .. Len(s)
    BY <1>0, <1>1
<1> HIDE DEF d
<1>11. ASSUME NEW i \in 1 .. Len(d) PROVE d[i] = R[i]
    <2>1. CASE i <= Len(b)
        <3>1. i \in 1 .. Len(b)
            BY <1>10, <2>1
        <3> QED
            BY <1>1, <1>7, <3>1
    <2>2. CASE ~ (i <= Len(b))
        <3> DEFINE j == i - Len(b)
        <3>1. j \in 1 .. k /\ j \in 1 .. Len(s) /\ Len(b) + j = i
            BY <1>2, <1>6, <1>10, <2>2
        <3> HIDE DEF j
        <3> QED
            BY <1>1, <1>2, <1>8, <3>1
    <2> QED
        BY <2>1, <2>2
<1>12. ASSUME NEW i \in 1 .. Len(t) PROVE t[i] = R[Len(d) + i]
    <2>1. i \in 1 .. Len(s) - k /\ k + i \in 1 .. Len(s) /\ Len(b) + (k + i) = Len(d) + i
        BY <1>2, <1>3, <1>6, <1>10
    <2> QED
        BY <1>1, <1>3, <2>1
<1>13. Len(d) + Len(t) = Len(b) + Len(s) /\ Len(d) = Len(b) + k
    <2>1. Len(d) = Len(b) + k
        BY <1>2, <1>6
    <2>2. Len(t) = Len(s) - k
        BY <1>3
    <2>3. (Len(b) + k) + (Len(s) - k) = Len(b) + Len(s)
        BY <1>10
    <2> QED
        BY <2>1, <2>2, <2>3
<1>14. Len(d) + Len(t) <= Len(R)
    BY <1>1, <1>13
<1>15. Holds(R, d, t)
    BY <1>1, <1>3, <1>6, <1>11, <1>12, <1>14 DEF Holds, S
<1> QED
    BY <1>9, <1>13, <1>15

\* What the buffer begins with, if it is long enough.
LEMMA HoldsFirst ==
    ASSUME NEW w \in Seq(Byte), NEW q \in Seq(Byte), NEW R, R = w \o q,
           NEW b, NEW s, Holds(R, b, s), Len(w) <= Len(b)
    PROVE  Reads(b, 0, w)
<1> DEFINE S == Byte
<1>1. b \in Seq(Byte) /\ \A i \in 1 .. Len(b) : b[i] = R[i]
    BY DEF Holds
<1>2. \A i \in 1 .. Len(w) : R[i] = w[i]
    <2>1. w \in Seq(S) /\ q \in Seq(S)
        OBVIOUS
    <2> HIDE DEF S
    <2> QED
        BY <2>1, ConcatFacts
<1>3. Len(w) \in Nat /\ Len(b) \in Nat
    BY <1>1
<1>4. ASSUME NEW i \in 1 .. Len(w) PROVE b[0 + i] = w[i]
    <2>1. i \in 1 .. Len(b) /\ 0 + i = i
        BY <1>3
    <2> QED
        BY <1>1, <1>2, <2>1
<1>5. 0 + Len(w) <= Len(b) /\ 0 \in Nat
    BY <1>3
<1> QED
    BY <1>1, <1>4, <1>5 DEF Reads

\* It is taken from the buffer.
Taken(b, w, c, n) ==
    n = Len(w) /\ n <= Len(b) /\ c = SubSeq(b, n + 1, Len(b))

Shorter(b, c, n) == Len(b) = n + Len(c)

LEMMA HoldsTake ==
    ASSUME NEW w \in Seq(Byte), NEW q \in Seq(Byte), NEW R, R = w \o q,
           NEW b, NEW s, Holds(R, b, s), NEW n, NEW c, Taken(b, w, c, n)
    PROVE  Holds(q, c, s) /\ Shorter(R, q, n) /\ Shorter(b, c, n)
<1> DEFINE S == Byte
<1>0. w \in Seq(S) /\ q \in Seq(S)
    OBVIOUS
<1>9. n = Len(w) /\ n <= Len(b) /\ c = SubSeq(b, n + 1, Len(b))
    BY DEF Taken
<1>1. b \in Seq(S) /\ s \in Seq(S) /\ Len(b) + Len(s) <= Len(R)
      /\ (\A i \in 1 .. Len(b) : b[i] = R[i]) /\ \A i \in 1 .. Len(s) : s[i] = R[Len(b) + i]
    BY DEF Holds
<1> HIDE DEF S
<1>2. Len(w) \in Nat /\ Len(b) \in Nat /\ Len(s) \in Nat /\ Len(q) \in Nat /\ n \in 0 .. Len(b)
    BY <1>0, <1>1, <1>9
<1>3. Len(R) = Len(w) + Len(q)
    BY <1>0, ConcatFacts
<1>4. \A i \in 1 .. Len(q) : R[Len(w) + i] = q[i]
    BY <1>0, ConcatFacts
<1>5. c \in Seq(S) /\ Len(c) = Len(b) - n /\ \A i \in 1 .. Len(b) - n : c[i] = b[n + i]
    BY <1>1, <1>2, <1>9, CutFacts
<1>6. ASSUME NEW i \in 1 .. Len(c) PROVE c[i] = q[i]
    <2>1. i \in 1 .. Len(b) - n /\ n + i \in 1 .. Len(b) /\ i \in 1 .. Len(q)
        BY <1>1, <1>2, <1>3, <1>5, <1>9
    <2> QED
        BY <1>1, <1>4, <1>5, <1>9, <2>1
<1>7. ASSUME NEW i \in 1 .. Len(s) PROVE s[i] = q[Len(c) + i]
    <2>1. Len(c) + i \in 1 .. Len(q) /\ Len(w) + (Len(c) + i) = Len(b) + i
        <3> DEFINE lc == Len(c)
        <3>1. lc = Len(b) - n /\ Len(b) + Len(s) <= Len(w) + Len(q) /\ n = Len(w)
            BY <1>1, <1>3, <1>5, <1>9
        <3>2. lc \in Nat /\ lc + i \in Nat /\ n \in Nat /\ i \in Nat
            BY <1>2, <3>1
        <3> HIDE DEF lc
        <3>3. lc + i \in 1 .. Len(q) /\ Len(w) + (lc + i) = Len(b) + i
            BY <1>2, <3>1, <3>2
        <3> QED
            BY <3>3 DEF lc
    <2> QED
        BY <1>1, <1>4, <2>1
<1>8. Len(c) + Len(s) <= Len(q)
    BY <1>1, <1>2, <1>3, <1>5, <1>9
<1>10. Holds(q, c, s)
    BY <1>0, <1>1, <1>5, <1>6, <1>7, <1>8 DEF Holds, S
<1>11. Shorter(R, q, n) /\ Shorter(b, c, n)
    BY <1>2, <1>3, <1>5, <1>9 DEF Shorter
<1> QED
    BY <1>10, <1>11

LEMMA MinPair ==
    ASSUME NEW a \in Int, NEW b \in Int
    PROVE  Min({a, b}) = IF a <= b THEN a ELSE b
<1> DEFINE T == {a, b}
           m == IF a <= b THEN a ELSE b
<1>1. m \in T /\ \A y \in T : m <= y
    OBVIOUS
<1>2. ASSUME NEW x \in T, \A y \in T : x <= y PROVE x = m
    <2>1. x \in Int /\ m \in Int /\ x <= m /\ m <= x
        BY <1>1, <1>2
    <2> QED
        BY <2>1
<1>3. Min(T) = CHOOSE x \in T : \A y \in T : x <= y
    BY DEF Min
<1> HIDE DEF T, m
<1>4. Min(T) = m
    BY <1>1, <1>2, <1>3
<1> QED
    BY <1>4 DEF T, m


-----------------------------------------------------------------------------
\* Where the Serializers of a message have room.

SerializersOverrun(m) ==
    Serialize(MessageValues(m)).overrun \/ (IsKeyed(m) /\ Serialize(KeyedValues(m)).overrun)

LEMMA OverrunType ==
    ASSUME NEW o \in Message, ~ HasNullString(o)
    PROVE  SerializersOverrun(Outgoing(o)) \in BOOLEAN
<1> DEFINE m == Outgoing(o)
           vs == MessageValues(m)
           ks == KeyedValues(m)
<1>1. vs \in Seq(Seq(Byte)) /\ (IsKeyed(m) => ks \in Seq(Seq(Byte)))
    BY MessageFacts DEF WireFacts
<1> HIDE DEF vs, ks
<1>2. Serialize(vs).overrun \in BOOLEAN
    <2>1. Serialize(vs) \in SerializerState
        BY <1>1, SerializeBytes
    <2> QED
        BY <2>1 DEF SerializerState
<1>3. IsKeyed(m) => Serialize(ks).overrun \in BOOLEAN
    <2> SUFFICES ASSUME IsKeyed(m) PROVE Serialize(ks).overrun \in BOOLEAN
        OBVIOUS
    <2>1. Serialize(ks) \in SerializerState
        BY <1>1, SerializeBytes
    <2> QED
        BY <2>1 DEF SerializerState
<1> DEFINE p == Serialize(vs).overrun
           q == Serialize(ks).overrun
           r == IsKeyed(m)
<1> HIDE DEF p, q, r
<1>4. p \in BOOLEAN /\ (r => q \in BOOLEAN)
    BY <1>2, <1>3 DEF p, q, r
<1>5. (p \/ (r /\ q)) \in BOOLEAN
    BY <1>4
<1> QED
    BY <1>5 DEF SerializersOverrun, p, q, r, vs, ks

LEMMA MessageRoom ==
    ASSUME NEW o \in Message, ~ HasNullString(o), MessageFits(Outgoing(o))
    PROVE  ~ SerializersOverrun(Outgoing(o))
<1> DEFINE m == Outgoing(o)
           vs == MessageValues(m)
           hs == HeaderValues(m)
           ks == KeyedValues(m)
<1>1. vs \in Seq(Seq(Byte)) /\ hs \in Seq(Seq(Byte))
      /\ (IsKeyed(m) => ks \in Seq(Seq(Byte)))
      /\ Len(FlattenSeq(hs)) = HeaderSize
    BY MessageFacts DEF WireFacts, HeaderWire
<1>2. CASE ~ IsKeyed(m)
    <2>1. Fits(vs)
        BY <1>2 DEF MessageFits
    <2> HIDE DEF vs
    <2>2. HasRoom(Serialize(vs))
        BY <1>1, <2>1, SerializeFits
    <2>3. Serialize(vs).overrun = FALSE
        BY <2>2 DEF HasRoom
    <2> QED
        BY <1>2, <2>3, Zenon DEF SerializersOverrun, vs
<1>3. CASE IsKeyed(m)
    <2> DEFINE ser == Serialize(hs)
               e == Serialize(ks).bytes
    <2>1. /\ Fits(ks) /\ Fits(hs) /\ HeaderSize + PayloadSize(m) <= ser.size * ser.size
          /\ PayloadSize(m) = Len(e) /\ PayloadValues(m) = <<e>>
        BY <1>3 DEF MessageFits, PayloadSize, PayloadValues, IsKeyed
    <2>2. vs = hs \o <<e>>
        BY <2>1, Zenon DEF MessageValues
    <2> HIDE DEF vs, hs, ks
    <2>3. HasRoom(Serialize(ks))
        BY <1>1, <1>3, <2>1, SerializeFits
    <2>4. Serialize(ks).overrun = FALSE /\ e \in Seq(Byte)
        BY <2>3 DEF HasRoom, SerializerState
    <2>5. HasRoom(ser)
        BY <1>1, <2>1, SerializeFits
    <2>6. ser \in SerializerState /\ ser.overrun = FALSE /\ ser.size \in Nat
        BY <2>5 DEF HasRoom, SerializerState
    <2>7. Len(ser.bytes) = HeaderSize
        <3>1. ser.bytes = FlattenSeq(hs)
            BY <1>1, SerializeBytes
        <3> QED
            BY <1>1, <3>1
    <2> HIDE DEF e, ser
    <2>8. Serialize(vs) = SetGeneric(ser, e)
        <3>1. e \in Seq(Byte)
            BY <2>4
        <3>2. hs \in Seq(Seq(Byte))
            BY <1>1
        <3>3. Serialize(hs \o <<e>>) = SetGeneric(Serialize(hs), e)
            BY <3>1, <3>2, SerializeLast
        <3> QED
            BY <2>2, <3>3, Zenon DEF ser
    <2>9. SetGeneric(ser, e).overrun = SetOverrun(ser, e)
        BY <2>4, <2>6, SetGenericFacts
    <2>10. ~ (Len(ser.bytes) + Len(e) > GrownSize(ser, e))
        <3> DEFINE n == ser.size
                   q == n * n
                   k == Len(e)
                   g == GrownSize(ser, e)
        <3>1. g = IF n - HeaderSize >= k THEN n ELSE q
            BY <2>7, Zenon DEF GrownSize
        <3>2. n \in Nat /\ k \in Nat /\ HeaderSize \in Nat /\ HeaderSize + k <= q
            BY <2>1, <2>4, <2>6, Widths
        <3>3. q \in Nat
            <4> HIDE DEF n
            <4> QED
                BY <3>2
        <3> HIDE DEF n, q, k, g
        <3>4. ~ (HeaderSize + k > g)
            BY <3>1, <3>2, <3>3
        <3> QED
            BY <2>7, <3>4 DEF k, g
    <2>11. SetOverrun(ser, e) = (ser.overrun \/ Len(ser.bytes) + Len(e) > GrownSize(ser, e))
        BY Zenon DEF SetOverrun
    <2>12. SetOverrun(ser, e) = FALSE
        BY <2>6, <2>10, <2>11, Zenon
    <2>13. Serialize(vs).overrun = FALSE
        BY <2>8, <2>9, <2>12, Zenon
    <2> QED
        BY <2>4, <2>13, Zenon DEF SerializersOverrun, vs, ks
<1> QED
    BY <1>2, <1>3


-----------------------------------------------------------------------------
\* The invariant: h messages have been handled, each as it was sent, and the
\* buffer and the stream begin the bytes of those behind them; while the sender
\* is up they are all of these bytes.
PlacedFields(out, sent, up, str, buf, done, h) ==
    /\ h \in 0 .. sent
    /\ done = [i \in 1 .. h |-> Outgoing(out[i])]
    /\ Holds(Rest(out, h, sent), buf, str)
    /\ up => Len(buf) + Len(str) = Len(Rest(out, h, sent))

Placed == \E h : PlacedFields(outbox, num_sent, sender = "up", stream, msg_buffer, handled, h)

TInv == /\ TypeOK
        /\ outbox \in Seq(Message) /\ Sendable(outbox, num_sent)
        /\ Placed

LEMMA InitTInv == Init => TInv
<1> SUFFICES ASSUME Init PROVE TInv
    OBVIOUS
<1>1. /\ outbox \in Seq(Message) /\ num_sent = 0 /\ sender = "up" /\ stream = <<>>
      /\ msg_buffer = <<>> /\ msg_buffer_size = BufferSize /\ reader = "poll"
      /\ handled = <<>> /\ overrun = FALSE
    BY OutboxesAssumption DEF Init
<1>2. TypeOK
    <2>1. BufferSize \in Nat /\ Len(<<>>) = 0 /\ 0 <= BufferSize
        BY BufferSizeAssumption
    <2>2. Len(msg_buffer) <= msg_buffer_size /\ msg_buffer_size \in Nat
        BY <1>1, <2>1
    <2>3. num_sent \in 0 .. Len(outbox)
        BY <1>1
    <2> QED
        BY <1>1, <2>2, <2>3 DEF TypeOK
<1>3. Sendable(outbox, num_sent)
    BY <1>1 DEF Sendable
<1>4. Rest(outbox, 0, 0) = <<>>
    BY RestEmpty
<1>5. PlacedFields(outbox, num_sent, sender = "up", stream, msg_buffer, handled, 0)
    <2>1. 0 \in 0 .. num_sent /\ handled = [i \in 1 .. 0 |-> Outgoing(outbox[i])]
        BY <1>1
    <2>2. Holds(<<>>, <<>>, <<>>) /\ Len(<<>>) + Len(<<>>) = Len(<<>>)
        BY DEF Holds
    <2> QED
        BY <1>1, <1>4, <2>1, <2>2 DEF PlacedFields
<1> QED
    BY <1>1, <1>2, <1>3, <1>5 DEF TInv, Placed

\* What Send adds to the stream.
LEMMA SendBytes ==
    ASSUME TInv, Send
    PROVE  /\ Sendable(outbox, num_sent + 1)
           /\ outbox[num_sent + 1] \in Message /\ ~ HasNullString(outbox[num_sent + 1])
           /\ stream' = stream \o Wire(outbox[num_sent + 1])
           /\ Wire(outbox[num_sent + 1]) \in Seq(Byte)
           /\ overrun' = (overrun \/ SerializersOverrun(Outgoing(outbox[num_sent + 1])))
           /\ num_sent \in Nat /\ num_sent + 1 \in 0 .. Len(outbox)
<1> DEFINE n == num_sent
           o == outbox[n + 1]
           m == Outgoing(o)
<1>1. n \in Nat /\ n < Len(outbox) /\ outbox \in Seq(Message) /\ Len(outbox) \in Nat
      /\ ~ HasNullString(o)
    BY DEF TInv, TypeOK, Send
<1>2. n + 1 \in 1 .. Len(outbox)
    BY <1>1
<1>3. o \in Message
    BY <1>1, <1>2
<1>4. ASSUME NEW i \in 1 .. n + 1 PROVE outbox[i] \in Message /\ ~ HasNullString(outbox[i])
    <2>1. CASE i = n + 1
        BY <1>1, <1>3, <2>1
    <2>2. CASE i # n + 1
        <3>1. i \in 1 .. n
            BY <1>1, <2>2
        <3> QED
            BY <3>1 DEF TInv, Sendable
    <2> QED
        BY <2>1, <2>2
<1>5. WireFacts(o)
    BY <1>1, <1>3, MessageFacts
<1>6. Serialize(MessageValues(m)).bytes = Wire(o)
    <2>1. MessageValues(m) \in Seq(Seq(Byte))
        BY <1>5 DEF WireFacts
    <2> DEFINE vs == MessageValues(m)
    <2> HIDE DEF vs
    <2>2. Serialize(vs).bytes = FlattenSeq(vs)
        BY <2>1, SerializeBytes DEF vs
    <2> QED
        BY <2>2, Zenon DEF Wire, vs
<1>7. /\ stream' = stream \o Serialize(MessageValues(m)).bytes
      /\ overrun' = (overrun \/ Serialize(MessageValues(m)).overrun
                        \/ (IsKeyed(m) /\ Serialize(KeyedValues(m)).overrun))
    BY Zenon DEF Send
<1>8. stream' = stream \o Wire(o)
    BY <1>6, <1>7, Zenon
<1>9. overrun' = (overrun \/ SerializersOverrun(m))
    BY <1>7, Zenon DEF SerializersOverrun
<1>10. Sendable(outbox, n + 1)
    BY <1>4 DEF Sendable
<1>11. Wire(o) \in Seq(Byte)
    BY <1>5 DEF WireFacts
<1>12. n + 1 \in 0 .. Len(outbox)
    BY <1>1
<1> QED
    BY <1>1, <1>3, <1>8, <1>9, <1>10, <1>11, <1>12

LEMMA SendTInv ==
    ASSUME TInv, Send
    PROVE  TInv'
<1> DEFINE n == num_sent
           w == Wire(outbox[n + 1])
<1>1. /\ Sendable(outbox, n + 1) /\ stream' = stream \o w /\ w \in Seq(Byte)
      /\ outbox[n + 1] \in Message /\ ~ HasNullString(outbox[n + 1])
      /\ overrun' = (overrun \/ SerializersOverrun(Outgoing(outbox[n + 1])))
      /\ n \in Nat /\ n + 1 \in 0 .. Len(outbox)
    BY SendBytes
<1>2. /\ sender = "up" /\ num_sent' = n + 1
      /\ outbox' = outbox /\ sender' = sender /\ msg_buffer' = msg_buffer
      /\ msg_buffer_size' = msg_buffer_size /\ reader' = reader /\ handled' = handled
    BY DEF Send
<1>3. PICK h : PlacedFields(outbox, n, sender = "up", stream, msg_buffer, handled, h)
    BY DEF TInv, Placed
<1> DEFINE R == Rest(outbox, h, n)
<1>4. /\ h \in 0 .. n /\ handled = [i \in 1 .. h |-> Outgoing(outbox[i])]
      /\ Holds(R, msg_buffer, stream) /\ Len(msg_buffer) + Len(stream) = Len(R)
    BY <1>2, <1>3 DEF PlacedFields
<1>5. Rest(outbox, h, n + 1) = R \o w
    BY <1>1, <1>4, RestSend
<1> HIDE DEF R, w
<1>6. Holds(R \o w, msg_buffer, stream \o w)
      /\ Len(msg_buffer) + Len(stream \o w) = Len(R \o w)
    BY <1>1, <1>4, HoldsSend
<1>7. h \in 0 .. n + 1
    BY <1>1, <1>4
<1>8. PlacedFields(outbox', num_sent', sender' = "up", stream', msg_buffer', handled', h)
    BY <1>1, <1>2, <1>4, <1>5, <1>6, <1>7, Zenon DEF PlacedFields
<1>9. Placed'
    BY <1>8 DEF Placed
<1>10. SerializersOverrun(Outgoing(outbox[n + 1])) \in BOOLEAN
    BY <1>1, OverrunType
<1>11. overrun' \in BOOLEAN
    <2> DEFINE p == SerializersOverrun(Outgoing(outbox[n + 1]))
    <2>1. overrun \in BOOLEAN /\ p \in BOOLEAN /\ overrun' = (overrun \/ p)
        BY <1>1, <1>10 DEF TInv, TypeOK
    <2> HIDE DEF p
    <2> QED
        BY <2>1
<1>12. TypeOK'
    BY <1>1, <1>2, <1>11 DEF TInv, TypeOK
<1>13. outbox' \in Seq(Message) /\ Sendable(outbox', num_sent')
    BY <1>1, <1>2 DEF TInv
<1> QED
    BY <1>9, <1>12, <1>13 DEF TInv, Sendable

LEMMA NullTInv ==
    ASSUME TInv, SendNullString
    PROVE  TInv'
<1>1. /\ sender = "up" /\ sender' = "crashed"
      /\ outbox' = outbox /\ num_sent' = num_sent /\ stream' = stream
      /\ msg_buffer' = msg_buffer /\ msg_buffer_size' = msg_buffer_size
      /\ reader' = reader /\ handled' = handled /\ overrun' = overrun
    BY DEF SendNullString
<1>2. PICK h : PlacedFields(outbox, num_sent, sender = "up", stream, msg_buffer, handled, h)
    BY DEF TInv, Placed
<1>3. PlacedFields(outbox', num_sent', sender' = "up", stream', msg_buffer', handled', h)
    BY <1>1, <1>2 DEF PlacedFields
<1>4. TypeOK'
    BY <1>1 DEF TInv, TypeOK
<1> QED
    BY <1>1, <1>3, <1>4 DEF TInv, Placed, Sendable

LEMMA StopTInv ==
    ASSUME TInv, Stop
    PROVE  TInv'
<1>1. /\ sender = "up" /\ sender' = "stopped"
      /\ outbox' = outbox /\ num_sent' = num_sent
      /\ msg_buffer' = msg_buffer /\ msg_buffer_size' = msg_buffer_size
      /\ reader' = reader /\ handled' = handled /\ overrun' = overrun
    BY DEF Stop
<1>2. PICK k \in 0 .. Len(stream) : stream' = SubSeq(stream, 1, k)
    BY DEF Stop
<1>3. PICK h : PlacedFields(outbox, num_sent, sender = "up", stream, msg_buffer, handled, h)
    BY DEF TInv, Placed
<1> DEFINE R == Rest(outbox, h, num_sent)
<1>4. /\ h \in 0 .. num_sent /\ handled = [i \in 1 .. h |-> Outgoing(outbox[i])]
      /\ Holds(R, msg_buffer, stream)
    BY <1>3 DEF PlacedFields
<1> HIDE DEF R
<1>5. Holds(R, msg_buffer, SubSeq(stream, 1, k))
    BY <1>4, HoldsCut
<1>6. Holds(R, msg_buffer, stream')
    BY <1>2, <1>5
<1>7. ~ (sender' = "up")
    BY <1>1
<1>8. PlacedFields(outbox', num_sent', sender' = "up", stream', msg_buffer', handled', h)
    BY <1>1, <1>4, <1>6, <1>7, Zenon DEF PlacedFields, R
<1>9. TypeOK'
    BY <1>1 DEF TInv, TypeOK
<1> QED
    BY <1>1, <1>8, <1>9 DEF TInv, Placed, Sendable

LEMMA ReadTInv ==
    ASSUME TInv, ReadSocket
    PROVE  TInv'
<1> DEFINE size == IF Len(msg_buffer) = msg_buffer_size
                   THEN msg_buffer_size * msg_buffer_size ELSE msg_buffer_size
<1>1. /\ outbox' = outbox /\ num_sent' = num_sent /\ sender' = sender
      /\ handled' = handled /\ overrun' = overrun /\ reader' = "loop"
      /\ msg_buffer_size' = size
    BY DEF ReadSocket
<1>2. PICK k \in 1 .. Min({Len(stream), size - Len(msg_buffer)}) :
          /\ msg_buffer' = msg_buffer \o SubSeq(stream, 1, k)
          /\ stream' = SubSeq(stream, k + 1, Len(stream))
    BY DEF ReadSocket
<1>3. PICK h : PlacedFields(outbox, num_sent, sender = "up", stream, msg_buffer, handled, h)
    BY DEF TInv, Placed
<1> DEFINE R == Rest(outbox, h, num_sent)
<1>4. /\ h \in 0 .. num_sent /\ handled = [i \in 1 .. h |-> Outgoing(outbox[i])]
      /\ Holds(R, msg_buffer, stream)
      /\ (sender = "up" => Len(msg_buffer) + Len(stream) = Len(R))
    BY <1>3 DEF PlacedFields
<1>5. msg_buffer \in Seq(Byte) /\ stream \in Seq(Byte)
    BY <1>4 DEF Holds
<1>6. Len(msg_buffer) \in Nat /\ Len(stream) \in Nat
    BY <1>5
<1>7. size \in Nat
    <2>1. msg_buffer_size \in Nat
        BY DEF TInv, TypeOK
    <2>2. msg_buffer_size * msg_buffer_size \in Nat
        BY <2>1
    <2> QED
        BY <2>1, <2>2, Zenon
<1> HIDE DEF size, R
<1>8. k \in 0 .. Len(stream) /\ Len(msg_buffer) + k <= size
    <2> DEFINE a == Len(stream)
               c == size - Len(msg_buffer)
    <2>1. a \in Int /\ c \in Int
        BY <1>6, <1>7
    <2>2. Min({a, c}) = IF a <= c THEN a ELSE c
        <3> HIDE DEF a, c
        <3> QED
            BY <2>1, MinPair
    <2>3. k \in 1 .. (IF a <= c THEN a ELSE c)
        BY <2>2
    <2> QED
        BY <1>6, <1>7, <2>3
<1>9. /\ Holds(R, msg_buffer', stream')
      /\ Len(msg_buffer') + Len(stream') = Len(msg_buffer) + Len(stream)
      /\ Len(msg_buffer') = Len(msg_buffer) + k
    <2>1. k \in 0 .. Len(stream)
        BY <1>8
    <2>2. Holds(R, msg_buffer, stream)
        BY <1>4
    <2> DEFINE c == msg_buffer'
               t == stream'
    <2>3. Moves(msg_buffer, stream, c, t, k)
        BY <1>2, <2>1 DEF Moves
    <2> HIDE DEF c, t
    <2>4. Holds(R, c, t) /\ Len(c) + Len(t) = Len(msg_buffer) + Len(stream)
          /\ Len(c) = Len(msg_buffer) + k
        BY <2>2, <2>3, HoldsRead
    <2> QED
        BY <2>4 DEF c, t
<1>10. sender = "up" => Len(msg_buffer') + Len(stream') = Len(R)
    BY <1>4, <1>9
<1>11. PlacedFields(outbox', num_sent', sender' = "up", stream', msg_buffer', handled', h)
    BY <1>1, <1>4, <1>9, <1>10, Zenon DEF PlacedFields, R
<1>12. TypeOK'
    BY <1>1, <1>7, <1>8, <1>9 DEF TInv, TypeOK
<1> QED
    BY <1>1, <1>11, <1>12 DEF TInv, Placed, Sendable

LEMMA ClosedTInv ==
    ASSUME TInv, ReadClosed
    PROVE  TInv'
<1>1. /\ sender # "up" /\ stream = <<>> /\ reader' = "closed" /\ msg_buffer' = <<>>
      /\ outbox' = outbox /\ num_sent' = num_sent /\ sender' = sender /\ stream' = stream
      /\ msg_buffer_size' = msg_buffer_size /\ handled' = handled /\ overrun' = overrun
    BY DEF ReadClosed
<1>2. PICK h : PlacedFields(outbox, num_sent, sender = "up", stream, msg_buffer, handled, h)
    BY DEF TInv, Placed
<1> DEFINE R == Rest(outbox, h, num_sent)
<1>3. /\ h \in 0 .. num_sent /\ handled = [i \in 1 .. h |-> Outgoing(outbox[i])]
      /\ Holds(R, msg_buffer, stream)
    BY <1>2 DEF PlacedFields
<1> HIDE DEF R
<1>4. Holds(R, <<>>, stream)
    BY <1>1, <1>3, HoldsNothing
<1>5. PlacedFields(outbox', num_sent', sender' = "up", stream', msg_buffer', handled', h)
    BY <1>1, <1>3, <1>4, Zenon DEF PlacedFields, R
<1>6. TypeOK'
    BY <1>1 DEF TInv, TypeOK
<1> QED
    BY <1>1, <1>5, <1>6 DEF TInv, Placed, Sendable

LEMMA LeaveTInv ==
    ASSUME TInv, LeaveLoop
    PROVE  TInv'
<1>1. /\ outbox' = outbox /\ num_sent' = num_sent /\ sender' = sender /\ stream' = stream
      /\ msg_buffer' = msg_buffer /\ msg_buffer_size' = msg_buffer_size
      /\ handled' = handled /\ overrun' = overrun /\ reader' = "poll"
    BY DEF LeaveLoop
<1>2. TypeOK'
    BY <1>1 DEF TInv, TypeOK
<1> QED
    BY <1>1, <1>2 DEF TInv, Placed, PlacedFields, Sendable


\* The message that is decoded is the one behind those handled.
LEMMA NextMessage ==
    ASSUME NEW out, NEW n \in Nat, Sendable(out, n), NEW h \in 0 .. n,
           NEW b, NEW s, Holds(Rest(out, h, n), b, s), HeaderSize <= Len(b)
    PROVE  /\ h \in 0 .. n - 1
           /\ GetHeader(NewDeserializer(b)).size = PayloadSize(Outgoing(out[h + 1]))
           /\ WireFacts(out[h + 1])
           /\ Rest(out, h, n) = Wire(out[h + 1]) \o Rest(out, h + 1, n)
           /\ Rest(out, h + 1, n) \in Seq(Byte)
<1> DEFINE R == Rest(out, h, n)
           R2 == Rest(out, h + 1, n)
           o == out[h + 1]
           x == HeaderWire(o)
<1>1. R \in Seq(Byte) /\ b \in Seq(Byte) /\ s \in Seq(Byte) /\ Len(b) + Len(s) <= Len(R)
    BY DEF Holds
<1>2. h \in 0 .. n - 1
    <2> SUFFICES ASSUME h = n PROVE FALSE
        OBVIOUS
    <2>1. R = <<>>
        BY RestEmpty
    <2>2. Len(b) \in Nat /\ Len(s) \in Nat /\ HeaderSize \in Nat \ {0} /\ Len(<<>>) = 0
        BY <1>1, Widths
    <2>3. Len(b) + Len(s) <= 0
        BY <1>1, <2>1, <2>2
    <2> QED
        BY <2>2, <2>3
<1>3. h + 1 \in 1 .. n /\ h + 1 \in 0 .. n
    BY <1>2
<1>4. WireFacts(o)
    BY <1>3, MessageFacts DEF Sendable
<1>5. R = Wire(o) \o R2
    BY <1>2, RestTake
<1>6. R2 \in Seq(Byte)
    BY <1>3, WiresFacts
<1>7. PICK t \in Seq(Byte) : Wire(o) = x \o t
    BY <1>4 DEF WireFacts
<1>8. x \in Seq(Byte) /\ Len(x) = HeaderSize
    BY <1>4 DEF WireFacts
<1> HIDE DEF R, R2, x
<1> DEFINE q == t \o R2
<1>9. q \in Seq(Byte)
    <2> DEFINE S == Byte
    <2>1. t \in Seq(S) /\ R2 \in Seq(S)
        BY <1>6
    <2> HIDE DEF S
    <2>2. q \in Seq(S)
        BY <2>1, ConcatFacts
    <2> QED
        BY <2>2 DEF S
<1>10. R = x \o q
    <2> DEFINE S == Byte
    <2>1. x \in Seq(S) /\ t \in Seq(S) /\ R2 \in Seq(S)
        BY <1>6, <1>8
    <2> HIDE DEF S
    <2>2. (x \o t) \o R2 = x \o (t \o R2)
        BY <2>1, ThreeConcat
    <2> QED
        BY <1>5, <1>7, <2>2, Zenon
<1> HIDE DEF q
<1>11. Holds(R, b, s)
    BY DEF R
<1>12. Reads(b, 0, x)
    BY <1>8, <1>9, <1>10, <1>11, HoldsFirst
<1>13. GetHeader(NewDeserializer(b)).size = PayloadSize(Outgoing(o))
    BY <1>4, <1>12, Zenon DEF WireFacts, HeaderRead, x
<1> QED
    BY <1>2, <1>4, <1>5, <1>6, <1>13 DEF R, R2

LEMMA InterpretTInv ==
    ASSUME TInv, Interpret
    PROVE  TInv'
<1> DEFINE b == msg_buffer
           n == num_sent
           c == msg_buffer'
<1>1. /\ BytesAfterHeader >= 0 /\ PayloadPromised <= BytesAfterHeader
      /\ c = SubSeq(b, HeaderSize + PayloadPromised + 1, Len(b))
      /\ handled' = Append(handled, GetMessage(b))
      /\ outbox' = outbox /\ num_sent' = n /\ sender' = sender /\ stream' = stream
      /\ msg_buffer_size' = msg_buffer_size /\ reader' = reader /\ overrun' = overrun
    BY DEF Interpret, TakeMessage
<1>2. PICK h : PlacedFields(outbox, n, sender = "up", stream, b, handled, h)
    BY DEF TInv, Placed
<1> DEFINE R == Rest(outbox, h, n)
           R2 == Rest(outbox, h + 1, n)
           o == outbox[h + 1]
           w == Wire(o)
           l == WireSize(o)
<1>3. /\ h \in 0 .. n /\ handled = [i \in 1 .. h |-> Outgoing(outbox[i])]
      /\ Holds(R, b, stream)
      /\ (sender = "up" => Len(b) + Len(stream) = Len(R))
    BY <1>2 DEF PlacedFields
<1>4. n \in Nat /\ Sendable(outbox, n) /\ Len(b) \in Nat /\ Len(stream) \in Nat
      /\ HeaderSize \in Nat
    BY <1>3, Widths DEF TInv, TypeOK, Holds
<1>5. HeaderSize <= Len(b)
    BY <1>1, <1>4 DEF BytesAfterHeader
<1>6. /\ h \in 0 .. n - 1
      /\ GetHeader(NewDeserializer(b)).size = PayloadSize(Outgoing(o))
      /\ WireFacts(o) /\ R = w \o R2 /\ R2 \in Seq(Byte)
    BY <1>3, <1>4, <1>5, NextMessage
<1>7. PayloadPromised = PayloadSize(Outgoing(o))
    BY <1>6 DEF PayloadPromised
<1>8. /\ w \in Seq(Byte) /\ l = Len(w) /\ WholeRead(o) /\ PayloadSize(Outgoing(o)) \in Nat
    BY <1>6 DEF WireFacts
<1>9. l = HeaderSize + PayloadPromised /\ l <= Len(b) /\ l \in Nat
    <2>1. l = HeaderSize + PayloadPromised
        BY <1>7 DEF WireSize
    <2>2. PayloadPromised \in Nat
        BY <1>7, <1>8
    <2>3. PayloadPromised <= Len(b) - HeaderSize
        BY <1>1 DEF BytesAfterHeader
    <2> HIDE DEF b, l
    <2> QED
        BY <1>4, <2>1, <2>2, <2>3
<1>10. c = SubSeq(b, l + 1, Len(b))
    BY <1>1, <1>9
<1> HIDE DEF R, R2, w, l, c, o
<1>11. Reads(b, 0, w)
    <2>1. Len(w) <= Len(b)
        BY <1>8, <1>9
    <2>2. w \in Seq(Byte) /\ R2 \in Seq(Byte) /\ R = w \o R2 /\ Holds(R, b, stream)
        BY <1>3, <1>6, <1>8
    <2> QED
        BY <2>1, <2>2, HoldsFirst
<1>12. GetMessage(b) = Outgoing(o)
    BY <1>8, <1>11, Zenon DEF WholeRead, w
<1>13. Holds(R2, c, stream) /\ Len(R) = l + Len(R2) /\ Len(c) = Len(b) - l
    <2>1. w \in Seq(Byte)
        BY <1>8
    <2>2. R2 \in Seq(Byte)
        BY <1>6
    <2>3. R = w \o R2
        BY <1>6
    <2>4. Holds(R, b, stream)
        BY <1>3
    <2>5. Taken(b, w, c, l)
        BY <1>8, <1>9, <1>10 DEF Taken
    <2> HIDE DEF b
    <2>6. Holds(R2, c, stream) /\ Shorter(R, R2, l) /\ Shorter(b, c, l)
        BY <2>1, <2>2, <2>3, <2>4, <2>5, HoldsTake
    <2>7. Len(c) \in Nat
        BY <2>6 DEF Holds
    <2> QED
        BY <1>4, <1>9, <2>6, <2>7 DEF Shorter
<1>14. handled' = [i \in 1 .. h + 1 |-> Outgoing(outbox[i])]
    <2> DEFINE s == [i \in 1 .. h + 1 |-> Outgoing(outbox[i])]
               G(i) == Outgoing(outbox[i])
    <2>1. handled = [i \in 1 .. h |-> G(i)] /\ handled' = Append(handled, G(h + 1)) /\ h \in Nat
        BY <1>1, <1>3, <1>12 DEF o
    <2> HIDE DEF G
    <2>2. Append([i \in 1 .. h |-> G(i)], G(h + 1)) = [i \in 1 .. h + 1 |-> G(i)]
        BY <2>1
    <2> QED
        BY <2>1, <2>2, Zenon DEF G
<1>15. sender = "up" => Len(c) + Len(stream) = Len(R2)
    <2> SUFFICES ASSUME Len(b) + Len(stream) = Len(R) PROVE Len(c) + Len(stream) = Len(R2)
        BY <1>3
    <2>1. Len(R2) \in Nat
        BY <1>6
    <2>2. (Len(b) - l) + Len(stream) = Len(R2)
        BY <1>4, <1>9, <1>13, <2>1
    <2> QED
        BY <1>13, <2>2
<1>16. h + 1 \in 0 .. n
    BY <1>4, <1>6
<1>17. PlacedFields(outbox', num_sent', sender' = "up", stream', msg_buffer', handled', h + 1)
    BY <1>1, <1>13, <1>14, <1>15, <1>16, Zenon DEF PlacedFields, R2, c
<1>18. TypeOK'
    <2>1. Len(c) <= msg_buffer_size
        <3>1. msg_buffer_size \in Nat /\ Len(b) <= msg_buffer_size
            BY DEF TInv, TypeOK
        <3> HIDE DEF b
        <3> QED
            BY <1>4, <1>9, <1>13, <3>1
    <2> QED
        BY <1>1, <2>1 DEF TInv, TypeOK, c
<1> QED
    BY <1>1, <1>17, <1>18 DEF TInv, Placed, Sendable


-----------------------------------------------------------------------------
\* The theorems.

LEMMA StutterTInv ==
    ASSUME TInv, UNCHANGED vars
    PROVE  TInv'
<1>1. /\ outbox' = outbox /\ num_sent' = num_sent /\ sender' = sender /\ stream' = stream
      /\ msg_buffer' = msg_buffer /\ msg_buffer_size' = msg_buffer_size
      /\ handled' = handled /\ overrun' = overrun /\ reader' = reader
    BY DEF vars
<1>2. TypeOK'
    BY <1>1 DEF TInv, TypeOK
<1> QED
    BY <1>1, <1>2 DEF TInv, Placed, PlacedFields, Sendable

LEMMA NextTInv == TInv /\ [Next]_vars => TInv'
<1> SUFFICES ASSUME TInv, [Next]_vars PROVE TInv'
    OBVIOUS
<1>1. CASE Send
    BY <1>1, SendTInv
<1>2. CASE SendNullString
    BY <1>2, NullTInv
<1>3. CASE Stop
    BY <1>3, StopTInv
<1>4. CASE ReadSocket
    BY <1>4, ReadTInv
<1>5. CASE ReadClosed
    BY <1>5, ClosedTInv
<1>6. CASE Interpret
    BY <1>6, InterpretTInv
<1>7. CASE LeaveLoop
    BY <1>7, LeaveTInv
<1>8. CASE UNCHANGED vars
    BY <1>8, StutterTInv
<1> QED
    BY <1>1, <1>2, <1>3, <1>4, <1>5, <1>6, <1>7, <1>8, Zenon DEF Next, NetworkThread

LEMMA TInvHolds == Spec => []TInv
<1>1. Init => TInv
    BY InitTInv
<1>2. TInv /\ [Next]_vars => TInv'
    BY NextTInv
<1> QED
    BY <1>1, <1>2, PTL DEF Spec

\* The buffer of read_socket never holds more than its size, through every
\* growth, read and shift.
THEOREM TypeCorrect == Spec => []TypeOK
<1>1. TInv => TypeOK
    BY DEF TInv
<1> QED
    BY <1>1, TInvHolds, PTL

\* What Placed says of the messages handled.
LEMMA HandledFacts ==
    ASSUME TInv
    PROVE  /\ Len(handled) \in Nat /\ Len(handled) <= num_sent /\ num_sent \in Nat
           /\ DOMAIN handled = 1 .. Len(handled)
           /\ \A i \in DOMAIN handled : handled[i] = Outgoing(outbox[i])
<1>1. PICK h : PlacedFields(outbox, num_sent, sender = "up", stream, msg_buffer, handled, h)
    BY DEF TInv, Placed
<1>2. h \in 0 .. num_sent /\ handled = [i \in 1 .. h |-> Outgoing(outbox[i])]
    BY <1>1 DEF PlacedFields
<1>3. num_sent \in Nat
    BY DEF TInv, TypeOK
<1>4. h \in Nat
    BY <1>2, <1>3
<1> DEFINE G(i) == Outgoing(outbox[i])
<1> HIDE DEF G
<1>5. handled = [i \in 1 .. h |-> G(i)]
    BY <1>2, Zenon DEF G
<1>6. Len(handled) = h /\ DOMAIN handled = 1 .. h /\ \A i \in 1 .. h : handled[i] = G(i)
    BY <1>4, <1>5
<1> QED
    BY <1>2, <1>3, <1>4, <1>6 DEF G

\* What is handled is what was sent, for every sequence of messages and every
\* way in which TCP cuts the stream: the sizes in the headers are right, each
\* deserialize reads back all that serialize wrote, and stops in time.
THEOREM HandledRight == Spec => []HandledAsSent
<1>1. TInv => HandledAsSent
    BY HandledFacts DEF HandledAsSent
<1> QED
    BY <1>1, TInvHolds, PTL

LEMMA SegmentSet ==
    ASSUME NEW o \in Message, IsSegment(o)
    PROVE  o.set \in File
<1>1. CASE o \in [kind : {"Status"}, id : Nat, msg : Text]
    BY <1>1 DEF IsSegment
<1>2. CASE o \in [kind : {"Register"}, id : Nat, address : STRING, port : Nat]
    BY <1>2 DEF IsSegment
<1>3. CASE o \in [kind : {"Directory"}, id : Nat, directory : Seq(Address)]
    BY <1>3 DEF IsSegment
<1>4. CASE o \in [kind : {"WaitAndGet"}, id : Nat, key : KeyOf(Nat)]
    BY <1>4 DEF IsSegment
<1>5. CASE o \in [kind : {"Put"}, id : Nat, key : KeyOf({NoHome}),
                  value : [types : Seq(ColumnTypes), nrows : Nat]]
    BY <1>5 DEF IsSegment
<1>6. CASE o \in [kind : {"Put", "Reply"}, id : Nat, key : KeyOf(Nat \ {NoHome}), set : File]
    BY <1>6
<1> QED
    BY <1>1, <1>2, <1>3, <1>4, <1>5, <1>6 DEF Message

\* The rows of every segment that arrives are the entries of its file, through
\* the rows of SorerWriter, the bytes and the copy of wait_and_get.
THEOREM RowsRight == Spec => []RowsArrive
<1>1. TInv => RowsArrive
    <2> SUFFICES ASSUME TInv PROVE RowsArrive
        OBVIOUS
    <2> SUFFICES ASSUME NEW i \in DOMAIN handled, IsSegment(outbox[i])
                 PROVE  LET rows == MappedRows(CopyOf(handled[i].value))
                            set  == outbox[i].set
                        IN  /\ Len(rows) = Len(set[1].entries)
                            /\ \A r \in DOMAIN rows, c \in DOMAIN set :
                                  rows[r][c] = IF set[c].entries[r] = Missing
                                               THEN Default(set[c].type)
                                               ELSE set[c].entries[r][1]
        BY Zenon DEF RowsArrive
    <2> DEFINE o == outbox[i]
               rows == MappedRows(CopyOf(handled[i].value))
    <2>1. handled[i] = Outgoing(o) /\ i \in 1 .. num_sent
        BY HandledFacts
    <2>2. o \in Message
        BY <2>1 DEF TInv, Sendable
    <2>3. o.set \in File
        BY <2>2, SegmentSet
    <2>4. handled[i].value = Convert(o.set)
        BY <2>1, OutgoingFields
    <2> DEFINE set == o.set
    <2> HIDE DEF set
    <2>5. set \in File
        BY <2>3 DEF set
    <2>6. rows = MappedRows(CopyOf(Convert(set)))
        BY <2>4, Zenon DEF set
    <2>7. /\ Len(MappedRows(CopyOf(Convert(set)))) = Len(set[1].entries)
          /\ \A r \in DOMAIN MappedRows(CopyOf(Convert(set))), c \in DOMAIN set :
                 MappedRows(CopyOf(Convert(set)))[r][c] = CellOf(set, r, c)
        BY <2>5, ConvertRows
    <2> HIDE DEF rows
    <2>8. Len(rows) = Len(set[1].entries)
          /\ \A r \in DOMAIN rows, c \in DOMAIN set : rows[r][c] = CellOf(set, r, c)
        BY <2>6, <2>7, Zenon
    <2> QED
        BY <2>8, Zenon DEF CellOf, rows, set
<1> QED
    BY <1>1, TInvHolds, PTL

\* As long as every message fits, nothing is written past a buffer, however
\* many values a message has and however often its buffer has grown.
THEOREM NeverOverrun == Spec => []NoOverrun
<1> DEFINE AllFit == \A i \in DOMAIN outbox :
                         ~ HasNullString(outbox[i]) => MessageFits(Outgoing(outbox[i]))
<1>1. Init => NoOverrun
    BY DEF Init, NoOverrun
<1>2. TInv /\ NoOverrun /\ [Next]_vars => NoOverrun'
    <2> SUFFICES ASSUME TInv, NoOverrun, [Next]_vars PROVE NoOverrun'
        OBVIOUS
    <2>1. outbox' = outbox
        BY DEF Next, Send, SendNullString, Stop, NetworkThread, ReadSocket, ReadClosed,
               Interpret, TakeMessage, LeaveLoop, vars
    <2>2. AllFit => ~ overrun
        BY Zenon DEF NoOverrun
    <2>3. CASE Send
        <3> SUFFICES ASSUME AllFit PROVE ~ overrun'
            BY <2>1, Zenon DEF NoOverrun
        <3> DEFINE o == outbox[num_sent + 1]
        <3>1. /\ o \in Message /\ ~ HasNullString(o)
              /\ overrun' = (overrun \/ SerializersOverrun(Outgoing(o)))
              /\ num_sent + 1 \in 0 .. Len(outbox) /\ num_sent \in Nat
            BY <2>3, SendBytes
        <3>2. num_sent + 1 \in DOMAIN outbox
            BY <3>1 DEF TInv
        <3>3. MessageFits(Outgoing(o))
            BY <3>1, <3>2
        <3>4. ~ SerializersOverrun(Outgoing(o))
            BY <3>1, <3>3, MessageRoom
        <3>5. ~ overrun
            BY <2>2
        <3> QED
            BY <3>1, <3>4, <3>5, Zenon
    <2>4. CASE ~ Send
        <3>1. overrun' = overrun
            BY <2>4 DEF Next, SendNullString, Stop, NetworkThread, ReadSocket, ReadClosed,
                        Interpret, TakeMessage, LeaveLoop, vars
        <3> QED
            BY <2>1, <2>2, <3>1, Zenon DEF NoOverrun
    <2> QED
        BY <2>3, <2>4
<1> QED
    BY <1>1, <1>2, TInvHolds, PTL DEF Spec

=============================================================================

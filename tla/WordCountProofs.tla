-------------------------- MODULE WordCountProofs --------------------------
(***************************************************************************)
(* FileReader and WordCount, for every size of the buffer, any files, and  *)
(* any number of nodes and rows in a segment.  A word cut by a filling is  *)
(* read whole and once, the loops of the reader stay in the buffer, and    *)
(* node 0 ends up with the number of times each word is in the file.  The  *)
(* invariant relates the buffer to the place in the file it was read from  *)
(* and the words read so far to what Scan makes of the text up to there.   *)
(***************************************************************************)
EXTENDS WordCount, NumberTheorems, SequenceTheorems

-----------------------------------------------------------------------------
\* The reference: Scan over a text and the space that ends it.

\* The characters of texts and buffers.
Symbols == STRING \cup {Space, Nul}

Acc  == [words : Seq(Seq(Symbols)), word : Seq(Symbols)]
Acc0 == [words |-> <<>>, word |-> <<>>]

\* One field of a record is replaced.
LEMMA ExceptWord ==
    ASSUME NEW A, NEW B, NEW r \in [words : A, word : B], NEW w \in B
    PROVE  [r EXCEPT !.word = w] = [words |-> r.words, word |-> w]
OBVIOUS

\* What Scan makes of a character.
LEMMA ScanSteps ==
    ASSUME NEW acc \in Acc, NEW c \in Symbols
    PROVE  /\ Scan(acc, c) \in Acc
           /\ c # Space => Scan(acc, c) = [words |-> acc.words, word |-> Append(acc.word, c)]
           /\ c = Space => Scan(acc, c) =
                 [words |-> IF acc.word = <<>> THEN acc.words ELSE Append(acc.words, acc.word),
                  word  |-> <<>>]
<1>1. acc = [words |-> acc.words, word |-> acc.word]
      /\ acc.words \in Seq(Seq(Symbols)) /\ acc.word \in Seq(Symbols)
    BY DEF Acc
<1>2. CASE c # Space
    <2>1. Append(acc.word, c) \in Seq(Symbols)
        BY <1>1
    <2> DEFINE A == Seq(Seq(Symbols))
               B == Seq(Symbols)
               w == Append(acc.word, c)
    <2>2. acc \in [words : A, word : B] /\ w \in B
        BY <2>1 DEF Acc
    <2> HIDE DEF A, B, w
    <2>3. [acc EXCEPT !.word = w] = [words |-> acc.words, word |-> w]
        BY <2>2, ExceptWord
    <2>4. [acc EXCEPT !.word = Append(@, c)] =
              [words |-> acc.words, word |-> Append(acc.word, c)]
        BY <2>3, Zenon DEF w
    <2> QED
        BY <2>1, <2>4, <1>1, <1>2 DEF Scan, Acc
<1>3. CASE c = Space
    <2>1. <<>> \in Seq(Symbols) /\ Append(acc.words, acc.word) \in Seq(Seq(Symbols))
        BY <1>1
    <2> QED
        BY <2>1, <1>1, <1>3 DEF Scan, Acc
<1> QED
    BY <1>2, <1>3

\* f[k] is what Scan has after the first k characters.
Scans(f, t) ==
    /\ f \in [0 .. Len(t) + 1 -> Acc]
    /\ f[0] = Acc0
    /\ \A k \in 1 .. Len(t) : f[k] = Scan(f[k - 1], t[k])
    /\ f[Len(t) + 1] = Scan(f[Len(t)], Space)
    /\ WordsOf(t) = f[Len(t) + 1].words

\* The strings of module FileReader differ.
LEMMA SpaceNotNul == Space # Nul
BY Zenon DEF Space, Nul

\* The fold in WordsOf is the last of a row of scans, one for each character.
LEMMA ScansExist ==
    ASSUME NEW t \in Seq(Symbols)
    PROVE  \E f : Scans(f, t)
<1> DEFINE N == Len(t) + 1
           u == Append(t, Space)
           F == [acc \in Acc |-> [c \in Symbols |-> Scan(acc, c)]]
           Eq(g) == g = [s \in SUBSET (DOMAIN u) |->
                            IF s = {} THEN Acc0 ELSE Scan(g[s \ {Max(s)}], u[Max(s)])]
           h == CHOOSE g : Eq(g)
<1>1. /\ Len(t) \in Nat /\ N \in Nat /\ DOMAIN u = 1 .. N
      /\ \A k \in 1 .. N : u[k] \in Symbols
      /\ \A k \in 1 .. Len(t) : u[k] = t[k]
      /\ u[N] = Space
    BY DEF Symbols
<1>2. F \in [Acc -> [Symbols -> Acc]]
    BY ScanSteps
<1>3. Acc0 \in Acc
    BY DEF Acc, Acc0
<1>4. \A s : Max(s) = Largest(s)
    BY DEF Max, Largest
<1>5. \E g : Eq(g)
    <2> HIDE DEF F, u, N
    <2>1. PICK g \in [SUBSET (1 .. N) -> Acc] : FoldOf(g, Acc0, F, u, N)
        BY <1>1, <1>2, <1>3, FoldExists DEF HasFold
    <2>2. ASSUME NEW s \in SUBSET (1 .. N)
          PROVE  g[s] = IF s = {} THEN Acc0 ELSE Scan(g[s \ {Max(s)}], u[Max(s)])
        <3>1. CASE s = {}
            BY <2>1, <3>1 DEF FoldOf
        <3>2. CASE s # {}
            <4>1. Max(s) \in 1 .. N
                BY <1>1, <1>4, <3>2, LargestElement
            <4>2. g[s \ {Max(s)}] \in Acc /\ u[Max(s)] \in Symbols
                BY <4>1, <1>1
            <4>3. F[g[s \ {Max(s)}]][u[Max(s)]] = Scan(g[s \ {Max(s)}], u[Max(s)])
                BY <4>2 DEF F
            <4> QED
                BY <2>1, <1>4, <3>2, <4>3 DEF FoldOf
        <3> QED
            BY <3>1, <3>2
    <2>3. Eq(g)
        BY <2>2, <1>1
    <2> QED
        BY <2>3
<1>6. Eq(h)
    BY <1>5
<1>7. WordsOf(t) = h[1 .. N].words
    BY <1>1 DEF WordsOf, FoldLeft, MapThenFoldSet, Acc0
<1> HIDE DEF h
<1>8. h[{}] = Acc0
    BY <1>6
<1>9. ASSUME NEW k \in 1 .. N PROVE h[1 .. k] = Scan(h[1 .. k - 1], u[k])
    <2>1. 1 .. k \in SUBSET (DOMAIN u) /\ 1 .. k # {}
        BY <1>1
    <2>2. Max(1 .. k) = k /\ (1 .. k) \ {k} = 1 .. k - 1
        BY <1>4, LargestOfInterval
    <2>3. h[1 .. k] = Scan(h[(1 .. k) \ {Max(1 .. k)}], u[Max(1 .. k)])
        BY <1>6, <2>1
    <2> QED
        BY <2>2, <2>3
<1> DEFINE f == [k \in 0 .. N |-> h[1 .. k]]
<1>10. f[0] = Acc0
    <2>1. 1 .. 0 = {}
        OBVIOUS
    <2>2. f[0] = h[1 .. 0]
        BY <1>1
    <2> QED
        BY <1>8, <2>1, <2>2
<1>11. ASSUME NEW k \in 1 .. N PROVE f[k] = Scan(f[k - 1], u[k])
    BY <1>9, <1>11, <1>1
<1>12. ASSUME NEW k \in Nat PROVE k <= N => f[k] \in Acc
    <2> DEFINE T == {j \in Nat : j <= N => f[j] \in Acc}
    <2> HIDE DEF f
    <2>1. 0 \in T
        BY <1>3, <1>10
    <2>2. ASSUME NEW j \in Nat, j \in T PROVE j + 1 \in T
        <3> SUFFICES ASSUME j + 1 <= N PROVE f[j + 1] \in Acc
            OBVIOUS
        <3>1. j + 1 \in 1 .. N /\ f[j] \in Acc /\ (j + 1) - 1 = j
            BY <2>2, <1>1
        <3> HIDE DEF u, N
        <3>2. f[j + 1] = Scan(f[j], u[j + 1]) /\ u[j + 1] \in Symbols
            BY <3>1, <1>11, <1>1
        <3> QED
            BY <3>1, <3>2, ScanSteps
    <2> HIDE DEF T
    <2>3. k \in T
        BY <2>1, <2>2, InductionSet
    <2> QED
        BY <2>3 DEF T
<1>13. f \in [0 .. N -> Acc]
    <2>1. \A k \in 0 .. N : f[k] \in Acc
        <3> HIDE DEF f
        <3> QED
            BY <1>12, <1>1
    <2>2. \A k \in 0 .. N : f[k] = h[1 .. k]
        OBVIOUS
    <2> QED
        BY <2>1, <2>2
<1>14. f[N] = h[1 .. N]
    BY <1>1
<1> HIDE DEF f
<1>15. \A k \in 1 .. Len(t) : f[k] = Scan(f[k - 1], t[k])
    BY <1>1, <1>11
<1>16. f[N] = Scan(f[Len(t)], Space)
    BY <1>1, <1>11
<1> QED
    BY <1>7, <1>10, <1>13, <1>14, <1>15, <1>16 DEF Scans

\* A space ends the word.
LEMMA SpaceEndsWord ==
    ASSUME NEW t \in Seq(Symbols), NEW f, Scans(f, t)
    PROVE  /\ \A k \in 1 .. Len(t) : t[k] = Space => f[k].word = <<>>
           /\ f[Len(t) + 1].word = <<>>
           /\ f[Len(t) + 1].words = IF f[Len(t)].word = <<>> THEN f[Len(t)].words
                                    ELSE Append(f[Len(t)].words, f[Len(t)].word)
<1>1. Len(t) \in Nat /\ Space \in Symbols
    BY DEF Symbols
<1>2. ASSUME NEW k \in 1 .. Len(t), t[k] = Space PROVE f[k].word = <<>>
    <2>1. k - 1 \in 0 .. Len(t) + 1
        BY <1>1
    <2>2. f[k - 1] \in Acc /\ f[k] = Scan(f[k - 1], Space)
        BY <1>2, <2>1 DEF Scans
    <2> QED
        BY <1>1, <2>2, ScanSteps
<1> DEFINE acc == f[Len(t)]
<1>3. acc \in Acc /\ f[Len(t) + 1] = Scan(acc, Space)
    BY <1>1 DEF Scans
<1> HIDE DEF acc
<1>4. Scan(acc, Space) =
          [words |-> IF acc.word = <<>> THEN acc.words ELSE Append(acc.words, acc.word),
           word  |-> <<>>]
    BY <1>1, <1>3, ScanSteps
<1>5. /\ Scan(acc, Space).word = <<>>
      /\ Scan(acc, Space).words =
            IF acc.word = <<>> THEN acc.words ELSE Append(acc.words, acc.word)
    BY <1>4
<1> QED
    BY <1>2, <1>3, <1>5 DEF acc

\* A word as long as the buffer stays, first as the word being read, then as one
\* of the words.
LongWord(acc) ==
    \/ Len(acc.word) >= BUFSIZE
    \/ \E i \in DOMAIN acc.words : Len(acc.words[i]) >= BUFSIZE

\* A character more does not shorten any word.
LEMMA LongWordStays ==
    ASSUME NEW acc \in Acc, NEW c \in Symbols, LongWord(acc)
    PROVE  LongWord(Scan(acc, c))
<1>1. acc.words \in Seq(Seq(Symbols)) /\ acc.word \in Seq(Symbols)
    BY DEF Acc
<1>2. BUFSIZE \in Nat \ {0}
    BY BufsizeAssumption
<1>3. CASE c # Space
    <2>1. Scan(acc, c) = [words |-> acc.words, word |-> Append(acc.word, c)]
        BY <1>3, ScanSteps
    <2>2. Len(Append(acc.word, c)) = Len(acc.word) + 1 /\ Len(acc.word) \in Nat
        BY <1>1
    <2> QED
        BY <2>1, <2>2, <1>2 DEF LongWord
<1>4. CASE c = Space
    <2> DEFINE ws == IF acc.word = <<>> THEN acc.words ELSE Append(acc.words, acc.word)
    <2>1. Scan(acc, c) = [words |-> ws, word |-> <<>>]
        BY <1>4, ScanSteps
    <2>2. \E i \in DOMAIN ws : Len(ws[i]) >= BUFSIZE
        <3>1. CASE Len(acc.word) >= BUFSIZE
            <4>1. acc.word # <<>>
                BY <3>1, <1>2
            <4>2. ws = Append(acc.words, acc.word)
                BY <4>1
            <4>3. Len(acc.words) + 1 \in DOMAIN ws /\ ws[Len(acc.words) + 1] = acc.word
                BY <4>2, <1>1
            <4> QED
                BY <4>3, <3>1
        <3>2. CASE \E i \in DOMAIN acc.words : Len(acc.words[i]) >= BUFSIZE
            <4>1. PICK i \in DOMAIN acc.words : Len(acc.words[i]) >= BUFSIZE
                BY <3>2
            <4>2. i \in DOMAIN ws /\ ws[i] = acc.words[i]
                BY <1>1
            <4> QED
                BY <4>1, <4>2
        <3> QED
            BY <3>1, <3>2 DEF LongWord
    <2> HIDE DEF ws
    <2> QED
        BY <2>1, <2>2 DEF LongWord
<1> QED
    BY <1>3, <1>4

\* In a well-formed text no word being read ever fills the buffer.
LEMMA ShortWords ==
    ASSUME NEW t \in Seq(Symbols), NEW f, Scans(f, t), WellFormed(t),
           NEW k \in 0 .. Len(t)
    PROVE  Len(f[k].word) < BUFSIZE
<1> DEFINE N == Len(t) + 1
<1>1. Len(t) \in Nat /\ N \in Nat /\ Space \in Symbols
    BY DEF Symbols
<1>2. BUFSIZE \in Nat \ {0}
    BY BufsizeAssumption
<1>3. ASSUME LongWord(f[k]) PROVE FALSE
    <2> DEFINE T == {j \in Nat : k + j <= N => LongWord(f[k + j])}
    <2>1. 0 \in T
        BY <1>3
    <2>2. ASSUME NEW j \in Nat, j \in T PROVE j + 1 \in T
        <3> SUFFICES ASSUME k + (j + 1) <= N PROVE LongWord(f[k + (j + 1)])
            OBVIOUS
        <3> DEFINE m == k + j
        <3>1. m \in 0 .. Len(t) /\ LongWord(f[m]) /\ k + (j + 1) = m + 1
            BY <2>2, <1>1
        <3> HIDE DEF m, T
        <3>2. f[m] \in Acc
            BY <3>1, <1>1, SMTT(20) DEF Scans
        <3>3. CASE m = Len(t)
            <4>1. f[m + 1] = Scan(f[m], Space)
                BY <3>3 DEF Scans
            <4> QED
                BY <4>1, <3>1, <3>2, <1>1, LongWordStays
        <3>4. CASE m # Len(t)
            <4>1. m + 1 \in 1 .. Len(t) /\ (m + 1) - 1 = m
                BY <3>1, <3>4, <1>1
            <4>2. f[m + 1] = Scan(f[m], t[m + 1]) /\ t[m + 1] \in Symbols
                BY <4>1 DEF Scans
            <4> QED
                BY <4>2, <3>1, <3>2, LongWordStays
        <3> QED
            BY <3>3, <3>4
    <2> HIDE DEF T
    <2>3. N - k \in Nat /\ k + (N - k) = N
        BY <1>1
    <2>4. N - k \in T
        BY <2>1, <2>2, <2>3, InductionSet
    <2>5. LongWord(f[N])
        BY <2>3, <2>4 DEF T
    <2>6. Len(f[N].word) = 0
        BY SpaceEndsWord
    <2>7. PICK i \in DOMAIN f[N].words : Len(f[N].words[i]) >= BUFSIZE
        BY <2>5, <2>6, <1>2 DEF LongWord
    <2>8. WordsOf(t) = f[N].words /\ f[N] \in Acc
        BY <1>1 DEF Scans
    <2>9. Len(WordsOf(t)[i]) < BUFSIZE /\ Len(WordsOf(t)[i]) >= BUFSIZE
        BY <2>7, <2>8 DEF WellFormed
    <2>10. WordsOf(t)[i] \in Seq(Symbols)
        BY <2>7, <2>8 DEF Acc
    <2> QED
        BY <2>9, <2>10, <1>2
<1>4. f[k] \in Acc
    BY <1>1 DEF Scans
<1>5. Len(f[k].word) \in Nat
    BY <1>4 DEF Acc
<1> QED
    BY <1>2, <1>3, <1>5 DEF LongWord
-----------------------------------------------------------------------------
\* The invariant of the reader of a text t.

\* The place in the file of what is in cell 0.
Offset(r) == r.pos - r.end

\* The cells from one on hold the file's characters.
Loaded(t, r, from) == \A c \in from .. r.end - 1 : r.buf[c] = t[Offset(r) + c + 1]

\* n characters of the file, after the first s.
Slice(t, s, n) == [k \in 1 .. n |-> t[s + k]]

\* The last cell ends a run of spaces.  A file that leaves cells of the buffer
\* unused is read by one filling, and those cells stay Nul.
Sound(t, r) ==
    /\ r.buf[BUFSIZE] # Space
    /\ r.end <= r.pos
    /\ r.feof => r.pos = Len(t)
    /\ Len(t) < BUFSIZE - 1 =>
          /\ \A c \in Cells : c >= r.end => r.buf[c] = Nul
          /\ r.feof \/ r.pos = 0

\* Between two words: what is before i is scanned and has become the words ws.
\* i is past the end after the last word, and when spaces of an earlier filling
\* follow the end.
Between(t, f, r, ws) ==
    /\ r.i <= r.end \/ r.feof
    /\ r.i <= r.end => /\ Loaded(t, r, r.i)
                       /\ f[Offset(r) + r.i] = [words |-> ws, word |-> <<>>]
    /\ r.i > r.end  => r.i <= BUFSIZE /\ f[Len(t) + 1].words = ws

\* In a word that starts in a cell: what is before i is scanned.
InWord(t, f, r, from, ws) ==
    /\ from <= r.i /\ r.i <= r.end
    /\ from = r.i => r.i < r.end /\ t[Offset(r) + r.i + 1] # Space
    /\ Loaded(t, r, from)
    /\ f[Offset(r) + r.i] = [words |-> ws, word |-> Slice(t, Offset(r) + from, r.i - from)]

Checked(r) ==
    /\ r.i < r.end  => r.buf[r.i] # Space
    /\ r.i >= r.end => r.feof

ReaderInv(f) ==
    /\ Sound(text, fr)
    /\ reading \in {"skip", "check"} => Between(text, f, fr, words)
    /\ reading = "check" => Checked(fr)
    /\ reading = "word" => InWord(text, f, fr, wStart, words)
    /\ reading = "packed" => words = f[Len(text) + 1].words
    /\ reading \notin {"overrun", "assertion"}

\* What the fields of the reader are, whatever the file.
FileState == [buf : [Cells -> Symbols], i : Nat, end : 0 .. BUFSIZE, pos : 0 .. Len(text),
              feof : BOOLEAN]

ReaderTypes ==
    /\ text \in Texts
    /\ fr \in FileState
    /\ wStart \in Nat
    /\ reading \in {"skip", "check", "word", "packed", "overrun", "assertion"}
    /\ words \in Seq(Seq(Symbols))
    /\ reading = "word" => wStart <= fr.end /\ wStart <= fr.i

\* A text is made of characters that are not Nul.
LEMMA TextFacts ==
    ASSUME text \in Texts
    PROVE  /\ text \in Seq(Symbols) /\ Len(text) \in Nat
           /\ \A k \in 1 .. Len(text) : text[k] \in Symbols /\ text[k] # Nul
<1>1. text \in Seq(STRING) /\ Nul \notin Range(text)
    BY TextsAssumption
<1>2. Len(text) \in Nat /\ DOMAIN text = 1 .. Len(text)
      /\ \A k \in 1 .. Len(text) : text[k] \in STRING
    BY <1>1
<1>3. \A k \in 1 .. Len(text) : text[k] # Nul
    BY <1>1, <1>2 DEF Range
<1>4. \A k \in 1 .. Len(text) : text[k] \in Symbols
    BY <1>2 DEF Symbols
<1>5. text \in Seq(Symbols)
    <2>1. text = [k \in 1 .. Len(text) |-> text[k]]
        BY <1>1
    <2> QED
        BY <2>1, <1>2, <1>4
<1> QED
    BY <1>2, <1>3, <1>4, <1>5

\* The lesser of two numbers.
LEMMA MinOfTwo ==
    ASSUME NEW a \in Nat, NEW b \in Nat
    PROVE  Min({a, b}) = IF a <= b THEN a ELSE b
<1>1. CASE a <= b
    <2>1. \A x \in {a, b} : (\A y \in {a, b} : x =< y) => x = a
        BY <1>1
    <2> QED
        BY <2>1, <1>1 DEF Min
<1>2. CASE b < a
    <2>1. \A x \in {a, b} : (\A y \in {a, b} : x =< y) => x = b
        BY <1>2
    <2> QED
        BY <2>1, <1>2 DEF Min
<1> QED
    BY <1>1, <1>2

\* A filling: what is left moves to the front, as many characters follow as
\* there are or fit, and the rest of the buffer stays.
Filled(r, q) ==
    LET left == r.end - r.i
    IN  /\ q \in FileState
        /\ q.i = left
        /\ left <= q.end
        /\ q.pos = r.pos + (q.end - left)
        /\ q.end = BUFSIZE \/ q.pos = Len(text)
        /\ q.feof <=> (r.feof \/ q.end < BUFSIZE)
        /\ \A c \in 0 .. left - 1 : q.buf[c] = r.buf[r.i + c]
        /\ \A c \in left .. q.end - 1 : q.buf[c] = text[r.pos + (c - left) + 1]
        /\ \A c \in Cells : c >= q.end => q.buf[c] = r.buf[c]

\* fillBuffer_ does what Filled says.
LEMMA FillBufferFills ==
    ASSUME text \in Texts, NEW r \in FileState, r.i <= r.end
    PROVE  Filled(r, FillBuffer(r))
<1> DEFINE ri == r.i
           re == r.end
           rp == r.pos
           L  == Len(text)
           left  == re - ri
           asked == BUFSIZE - left
           got   == IF asked <= L - rp THEN asked ELSE L - rp
           q     == FillBuffer(r)
<1>1. /\ r.buf \in [Cells -> Symbols] /\ ri \in Nat /\ re \in 0 .. BUFSIZE
      /\ rp \in 0 .. L /\ r.feof \in BOOLEAN /\ ri <= re
    BY DEF FileState
<1>2. BUFSIZE \in Nat \ {0} /\ L \in Nat
    BY BufsizeAssumption, TextFacts
<1>3. (IF r.i # r.end THEN r.end - r.i ELSE 0) = left
    <2>1. ri = re => left = 0
        BY <1>1
    <2> QED
        BY <2>1
<1> HIDE DEF ri, re, rp, L, q
<1>4. left \in 0 .. BUFSIZE /\ asked \in Nat /\ L - rp \in Nat
    BY <1>1, <1>2
<1>5. got \in Nat /\ left + got <= BUFSIZE /\ rp + got <= L
    BY <1>1, <1>2, <1>4
<1>6. left + got = BUFSIZE \/ rp + got = L
    BY <1>1, <1>2, <1>4
<1>7. (got < asked) = (left + got < BUFSIZE)
    BY <1>1, <1>2, <1>4
<1>8. Min({asked, L - rp}) = got
    BY <1>4, MinOfTwo
<1> HIDE DEF left, got
<1>9. Min({BUFSIZE - left, Len(text) - r.pos}) = got
    BY <1>8 DEF L, rp
<1> HIDE DEF asked
<1>10. q.i = left
    BY <1>3 DEF FillBuffer, q
<1>11. q.end = left + got
    BY <1>3, <1>9 DEF FillBuffer, q
<1>12. q.pos = rp + got
    BY <1>3, <1>9 DEF FillBuffer, q, rp
<1>13. q.feof = (r.feof \/ got < asked)
    BY <1>3, <1>9 DEF FillBuffer, q, asked
<1>14. ASSUME NEW c \in Cells
       PROVE  q.buf[c] = CASE c < left -> r.buf[r.i + c]
                           [] c \in left .. left + got - 1 -> text[r.pos + c - left + 1]
                           [] OTHER -> r.buf[c]
    BY <1>3, <1>9 DEF FillBuffer, q
<1>15. ASSUME NEW c \in Cells
       PROVE  /\ c < left => q.buf[c] = r.buf[r.i + c]
              /\ c \in left .. left + got - 1 => q.buf[c] = text[r.pos + (c - left) + 1]
              /\ c >= left + got => q.buf[c] = r.buf[c]
    <2>1. c \in Nat
        BY <1>2 DEF Cells
    <2>2. rp + c - left + 1 = rp + (c - left) + 1
        BY <2>1, <1>1, <1>4
    <2>3. r.pos + c - left + 1 = r.pos + (c - left) + 1
        BY <2>2 DEF rp
    <2>4. CASE c < left
        <3>1. ~ (c \in left .. left + got - 1) /\ ~ (c >= left + got)
            BY <2>1, <2>4, <1>4, <1>5
        <3> QED
            BY <3>1, <2>4, <1>14
    <2>5. CASE c \in left .. left + got - 1
        <3>1. ~ (c < left) /\ ~ (c >= left + got)
            BY <2>1, <2>5, <1>4, <1>5
        <3> QED
            BY <3>1, <2>3, <2>5, <1>14
    <2>6. CASE c >= left + got
        <3>1. ~ (c \in left .. left + got - 1) /\ ~ (c < left)
            BY <2>1, <2>6, <1>4, <1>5
        <3> QED
            BY <3>1, <2>6, <1>14
    <2> QED
        BY <2>1, <2>4, <2>5, <2>6, <1>4, <1>5
<1>16. ASSUME NEW c \in Cells PROVE q.buf[c] \in Symbols
    <2>1. c \in Nat /\ c <= BUFSIZE
        BY <1>2 DEF Cells
    <2>2. CASE c < left
        <3>1. ri + c \in 0 .. BUFSIZE
            BY <2>1, <2>2, <1>1, <1>2, <1>4 DEF left
        <3>2. r.i + c \in Cells
            BY <3>1 DEF Cells, ri
        <3> QED
            BY <3>2, <2>2, <1>1, <1>15
    <2>3. CASE c \in left .. left + got - 1
        <3>1. rp + (c - left) + 1 \in 1 .. L
            BY <2>3, <1>1, <1>2, <1>4, <1>5
        <3>2. r.pos + (c - left) + 1 \in 1 .. Len(text)
            BY <3>1 DEF rp, L
        <3> QED
            BY <3>2, <2>3, <1>15, TextFacts
    <2>4. CASE c >= left + got
        BY <2>4, <1>1, <1>15
    <2> QED
        BY <2>1, <2>2, <2>3, <2>4, <1>4, <1>5
<1>17. q = [buf |-> q.buf, i |-> q.i, end |-> q.end, pos |-> q.pos, feof |-> q.feof]
       /\ q.buf = [c \in Cells |-> q.buf[c]]
    BY DEF FillBuffer, q
<1>18. q \in FileState
    <2>1. q.buf \in [Cells -> Symbols]
        BY <1>16, <1>17
    <2>2. q.end \in 0 .. BUFSIZE /\ q.pos \in 0 .. L /\ q.i \in Nat /\ q.feof \in BOOLEAN
        BY <1>1, <1>2, <1>4, <1>5, <1>10, <1>11, <1>12, <1>13
    <2> QED
        BY <2>1, <2>2, <1>17 DEF FileState, L
<1>19. q.feof <=> (r.feof \/ q.end < BUFSIZE)
    BY <1>7, <1>11, <1>13, Zenon
<1>20. q.pos = rp + (q.end - left) /\ left <= q.end
       /\ (q.end = BUFSIZE \/ q.pos = L) /\ (q.feof <=> (r.feof \/ q.end < BUFSIZE))
    BY <1>1, <1>2, <1>4, <1>5, <1>6, <1>11, <1>12, <1>19
<1>21. \A c \in 0 .. left - 1 : q.buf[c] = r.buf[r.i + c]
    <2> SUFFICES ASSUME NEW c \in 0 .. left - 1 PROVE q.buf[c] = r.buf[r.i + c]
        OBVIOUS
    <2>1. c \in Cells /\ c < left
        BY <1>2, <1>4 DEF Cells
    <2> QED
        BY <2>1, <1>15
<1>22. \A c \in left .. q.end - 1 : q.buf[c] = text[r.pos + (c - left) + 1]
    <2>1. ASSUME NEW c \in left .. left + got - 1
          PROVE  q.buf[c] = text[r.pos + (c - left) + 1]
        <3>1. c \in Cells
            BY <1>2, <1>4, <1>5 DEF Cells
        <3> QED
            BY <3>1, <1>15
    <2>2. ASSUME NEW c \in left .. q.end - 1 PROVE c \in left .. left + got - 1
        BY <1>4, <1>5, <1>11
    <2> QED
        BY <2>1, <2>2
<1>23. \A c \in Cells : c >= q.end => q.buf[c] = r.buf[c]
    BY <1>11, <1>15
<1> QED
    BY <1>10, <1>18, <1>20, <1>21, <1>22, <1>23 DEF Filled, left, ri, re, rp, L, q
-----------------------------------------------------------------------------
\* What a step of the reader leaves in its fields.

\* A String ends at the first Nul among its characters.
Characters(buf, s, m) == [k \in 1 .. m |-> buf[s + k - 1]]

Ends(buf, s, n, m) ==
    /\ \A k \in 0 .. m - 1 : buf[s + k] # Nul
    /\ m = n \/ buf[s + m] = Nul

\* A String has the characters before its first Nul.
LEMMA CStringIs ==
    ASSUME NEW buf, NEW s \in Nat, NEW n \in Nat, NEW m \in 0 .. n, Ends(buf, s, n, m)
    PROVE  CString(buf, s, n) = Characters(buf, s, m)
<1> DEFINE Z == {k \in 0 .. n - 1 : buf[s + k] = Nul}
           S == {n} \cup Z
<1>1. m \in S
    BY DEF Ends
<1>2. ASSUME NEW k \in S PROVE m <= k /\ k \in Nat
    <2>1. CASE k = n
        BY <2>1
    <2>2. CASE k \in Z
        <3>1. k \in Nat /\ ~ (k \in 0 .. m - 1)
            BY <2>2 DEF Ends
        <3> QED
            BY <3>1
    <2> QED
        BY <2>1, <2>2
<1> HIDE DEF S, Z
<1>3. Min(S) = m
    <2>1. \A x \in S : (\A y \in S : x =< y) => x = m
        BY <1>1, <1>2
    <2>2. \A y \in S : m =< y
        BY <1>2
    <2> QED
        BY <1>1, <2>1, <2>2 DEF Min
<1>4. Min({n} \cup {k \in 0 .. n - 1 : buf[s + k] = Nul}) = m
    BY <1>3 DEF S, Z
<1> QED
    BY <1>4 DEF CString, Characters

\* Every String ends somewhere.
LEMMA CStringExists ==
    ASSUME NEW buf, NEW s \in Nat, NEW n \in Nat
    PROVE  \E m \in 0 .. n : CString(buf, s, n) = Characters(buf, s, m)
<1> DEFINE S == {n} \cup {k \in 0 .. n - 1 : buf[s + k] = Nul}
<1>1. S \in SUBSET Nat /\ S # {}
    OBVIOUS
<1>2. PICK m \in S : \A k \in S : m <= k
    BY <1>1, LeastNatural
<1>3. m \in 0 .. n
    BY <1>2
<1>4. \A k \in 0 .. m - 1 : buf[s + k] # Nul
    <2> SUFFICES ASSUME NEW k \in 0 .. m - 1, buf[s + k] = Nul PROVE FALSE
        OBVIOUS
    <2>1. k \in S
        BY <1>3
    <2> QED
        BY <2>1, <1>2, <1>3
<1>5. m = n \/ buf[s + m] = Nul
    BY <1>2
<1>6. Ends(buf, s, n, m)
    BY <1>4, <1>5 DEF Ends
<1> HIDE DEF S
<1> QED
    BY <1>3, <1>6, CStringIs

\* A String made of cells of the buffer is made of characters.
LEMMA CStringType ==
    ASSUME NEW buf \in [Cells -> Symbols], NEW s \in Nat, NEW n \in Nat, s + n <= BUFSIZE
    PROVE  CString(buf, s, n) \in Seq(Symbols)
<1>1. PICK m \in 0 .. n : CString(buf, s, n) = Characters(buf, s, m)
    BY CStringExists
<1>2. \A k \in 1 .. m : buf[s + k - 1] \in Symbols
    <2> SUFFICES ASSUME NEW k \in 1 .. m PROVE s + k - 1 \in Cells
        OBVIOUS
    <2> QED
        BY BufsizeAssumption DEF Cells
<1> QED
    BY <1>1, <1>2 DEF Characters

\* A field of a record is replaced, or two of them.
LEMMA ExceptI ==
    ASSUME NEW A, NEW I, NEW B, NEW C, NEW D,
           NEW r \in [buf : A, i : I, end : B, pos : C, feof : D], NEW x \in I
    PROVE  [r EXCEPT !.i = x] =
               [buf |-> r.buf, i |-> x, end |-> r.end, pos |-> r.pos, feof |-> r.feof]
OBVIOUS

\* The array and i are replaced.
LEMMA ExceptBuf ==
    ASSUME NEW A, NEW I, NEW B, NEW C, NEW D,
           NEW r \in [buf : A, i : I, end : B, pos : C, feof : D], NEW b \in A, NEW x \in I
    PROVE  [[r EXCEPT !.buf = b] EXCEPT !.i = x] =
               [buf |-> b, i |-> x, end |-> r.end, pos |-> r.pos, feof |-> r.feof]
<1> DEFINE R == [buf : A, i : I, end : B, pos : C, feof : D]
<1>1. [r EXCEPT !.buf = b] =
          [buf |-> b, i |-> r.i, end |-> r.end, pos |-> r.pos, feof |-> r.feof]
    OBVIOUS
<1>2. [r EXCEPT !.buf = b] \in R
    OBVIOUS
<1> HIDE DEF R
<1>3. \A q \in R : [q EXCEPT !.i = x] =
          [buf |-> q.buf, i |-> x, end |-> q.end, pos |-> q.pos, feof |-> q.feof]
    BY ExceptI DEF R
<1>4. LET q == [r EXCEPT !.buf = b]
      IN  [q EXCEPT !.i = x] =
              [buf |-> q.buf, i |-> x, end |-> q.end, pos |-> q.pos, feof |-> q.feof]
    BY <1>2, <1>3
<1> QED
    BY <1>1, <1>4, Zenon

\* i moves.
LEMMA MoveI ==
    ASSUME NEW r \in FileState, NEW x \in Nat
    PROVE  /\ [r EXCEPT !.i = x] =
                  [buf |-> r.buf, i |-> x, end |-> r.end, pos |-> r.pos, feof |-> r.feof]
           /\ [r EXCEPT !.i = x] \in FileState
<1> DEFINE A == [Cells -> Symbols]
           B == 0 .. BUFSIZE
           C == 0 .. Len(text)
           D == BOOLEAN
           q == [r EXCEPT !.i = x]
<1>1. r \in [buf : A, i : Nat, end : B, pos : C, feof : D]
    BY DEF FileState
<1> HIDE DEF A, B, C, D, q
<1>2. q = [buf |-> r.buf, i |-> x, end |-> r.end, pos |-> r.pos, feof |-> r.feof]
    BY <1>1, ExceptI DEF q
<1>3. r.buf \in A /\ r.end \in B /\ r.pos \in C /\ r.feof \in D
    BY <1>1
<1>4. q \in [buf : A, i : Nat, end : B, pos : C, feof : D]
    BY <1>2, <1>3
<1>5. q \in FileState
    BY <1>4 DEF FileState, A, B, C, D
<1> QED
    BY <1>2, <1>5 DEF q

\* A Nul ends a word, and i moves past it.
LEMMA EndsWord ==
    ASSUME NEW r \in FileState, NEW c \in Cells
    PROVE  LET q == [r EXCEPT !.buf[c] = Nul, !.i = c + 1]
           IN  /\ q = [buf |-> [r.buf EXCEPT ![c] = Nul], i |-> c + 1, end |-> r.end,
                       pos |-> r.pos, feof |-> r.feof]
               /\ q \in FileState
<1> DEFINE A == [Cells -> Symbols]
           B == 0 .. BUFSIZE
           C == 0 .. Len(text)
           D == BOOLEAN
           b == [r.buf EXCEPT ![c] = Nul]
           x == c + 1
           q == [r EXCEPT !.buf[c] = Nul, !.i = c + 1]
<1>1. r \in [buf : A, i : Nat, end : B, pos : C, feof : D]
    BY DEF FileState
<1>2. b \in A
    BY DEF FileState, Symbols
<1>3. x \in Nat
    BY BufsizeAssumption DEF Cells
<1>4. [r EXCEPT !.buf[c] = Nul] = [r EXCEPT !.buf = b]
    BY DEF FileState
<1>5. q = [[r EXCEPT !.buf[c] = Nul] EXCEPT !.i = x]
    BY Zenon
<1> HIDE DEF A, B, C, D, b, x, q
<1>6. q = [[r EXCEPT !.buf = b] EXCEPT !.i = x]
    BY <1>4, <1>5
<1>7. q = [buf |-> b, i |-> x, end |-> r.end, pos |-> r.pos, feof |-> r.feof]
    BY <1>1, <1>2, <1>3, <1>6, ExceptBuf
<1>8. r.end \in B /\ r.pos \in C /\ r.feof \in D
    BY <1>1
<1>9. q \in [buf : A, i : Nat, end : B, pos : C, feof : D]
    BY <1>2, <1>3, <1>7, <1>8
<1>10. q \in FileState
    BY <1>9 DEF FileState, A, B, C, D
<1> QED
    BY <1>7, <1>10 DEF q, b, x
-----------------------------------------------------------------------------
\* The steps of the reader, case by case.

Moved(r, x)    == [buf |-> r.buf, i |-> x, end |-> r.end, pos |-> r.pos, feof |-> r.feof]
WordEnded(r, c) == [buf |-> [r.buf EXCEPT ![c] = Nul], i |-> c + 1, end |-> r.end,
                    pos |-> r.pos, feof |-> r.feof]

\* skipWhitespace_ looks at r, which is fr or a new filling.
Looks(r) ==
    /\ r \in FileState
    /\ \/ r = fr /\ (fr.i # fr.end \/ fr.feof)
       \/ fr.i = fr.end /\ ~ fr.feof /\ Filled(fr, r)

Skips(r) ==
    \/ fr.i = fr.end /\ fr.feof /\ reading' = "check" /\ fr' = fr
    \/ /\ ~ (fr.i = fr.end /\ fr.feof) /\ r.i \in Cells
       /\ \/ r.buf[r.i] = Space /\ fr' = Moved(r, r.i + 1) /\ reading' = "skip"
          \/ r.buf[r.i] # Space /\ fr' = r /\ reading' = "check"
    \/ r.i \notin Cells /\ reading' = "overrun" /\ fr' = r

\* An iteration of skipWhitespace_ is one of those cases.
LEMMA SkipCases ==
    ASSUME ReaderTypes, SkipWhitespace
    PROVE  \E r : Looks(r) /\ Skips(r)
<1> DEFINE r == IF fr.i = fr.end /\ ~ fr.feof THEN FillBuffer(fr) ELSE fr
<1>1. fr \in FileState /\ text \in Texts
    BY DEF ReaderTypes
<1>2. fr.i \in Nat /\ fr.end \in 0 .. BUFSIZE /\ fr.feof \in BOOLEAN
    BY <1>1 DEF FileState
<1>3. Looks(r)
    <2>1. CASE fr.i = fr.end /\ ~ fr.feof
        <3>1. fr.i <= fr.end
            BY <2>1, <1>2, BufsizeAssumption
        <3>2. Filled(fr, FillBuffer(fr))
            BY <1>1, <3>1, FillBufferFills
        <3>3. FillBuffer(fr) \in FileState
            BY <3>2 DEF Filled
        <3> QED
            BY <2>1, <3>2, <3>3 DEF Looks
    <2>2. CASE ~ (fr.i = fr.end /\ ~ fr.feof)
        BY <2>2, <1>1, <1>2 DEF Looks
    <2> QED
        BY <2>1, <2>2
<1>4. reading = "skip"
      /\ \/ fr.i = fr.end /\ fr.feof /\ reading' = "check" /\ fr' = fr
         \/ /\ ~ (fr.i = fr.end /\ fr.feof) /\ r.i \in Cells
            /\ IF r.buf[r.i] = Space
               THEN fr' = [r EXCEPT !.i = @ + 1] /\ reading' = reading
               ELSE fr' = r /\ reading' = "check"
         \/ r.i \notin Cells /\ reading' = "overrun" /\ fr' = r
    BY Zenon DEF SkipWhitespace
<1> HIDE DEF r
<1>5. r \in FileState /\ r.i \in Nat
    BY <1>3 DEF Looks, FileState
<1>6. [r EXCEPT !.i = r.i + 1] = Moved(r, r.i + 1)
    BY <1>5, MoveI DEF Moved
<1>7. [r EXCEPT !.i = @ + 1] = Moved(r, r.i + 1)
    BY <1>6, Zenon
<1>8. Skips(r)
    BY <1>4, <1>7, Zenon DEF Skips
<1> QED
    BY <1>3, <1>8

\* visit looks at cell stop of r: of fr, past its end, or of a new filling with
\* the word at its front.
LooksAtEnd(r, start, stop) ==
    fr.i = fr.end /\ fr.feof /\ r = fr /\ start = wStart /\ stop = fr.i + 1

LooksInside(r, start, stop) ==
    fr.i # fr.end /\ r = fr /\ start = wStart /\ stop = fr.i

LooksRefilled(r, start, stop) ==
    /\ fr.i = fr.end /\ ~ fr.feof
    /\ Filled(Moved(fr, wStart), r)
    /\ start = 0 /\ stop = r.i

LooksFor(r, start, stop) ==
    /\ r \in FileState
    /\ \/ LooksAtEnd(r, start, stop)
       \/ LooksInside(r, start, stop)
       \/ LooksRefilled(r, start, stop)

Visits(r, start, stop) ==
    \/ stop \notin Cells /\ reading' = "overrun" /\ fr' = r /\ wStart' = wStart /\ words' = words
    \/ /\ stop \in Cells /\ ((fr.i = fr.end /\ fr.feof) \/ r.buf[stop] = Space)
       /\ words' = Append(words, CString(r.buf, start, stop - start))
       /\ fr' = WordEnded(r, stop) /\ reading' = "skip" /\ wStart' = wStart
    \/ /\ stop \in Cells /\ ~ (fr.i = fr.end /\ fr.feof) /\ r.buf[stop] # Space
       /\ fr' = Moved(r, r.i + 1) /\ wStart' = start /\ reading' = "word" /\ words' = words

\* An iteration of visit is one of those cases.
LEMMA VisitCases ==
    ASSUME ReaderTypes, Visit
    PROVE  \E r, start, stop : LooksFor(r, start, stop) /\ Visits(r, start, stop)
<1> DEFINE refill == fr.i = fr.end /\ ~ fr.feof
           last   == fr.i = fr.end /\ fr.feof
           r      == IF refill THEN FillBuffer([fr EXCEPT !.i = wStart]) ELSE fr
           start  == IF refill THEN 0 ELSE wStart
           stop   == IF last THEN fr.i + 1 ELSE r.i
<1>1. fr \in FileState /\ text \in Texts /\ reading = "word"
      /\ wStart \in Nat /\ wStart <= fr.end
    BY DEF ReaderTypes, Visit
<1>2. fr.i \in Nat /\ fr.end \in 0 .. BUFSIZE /\ fr.feof \in BOOLEAN
    BY <1>1 DEF FileState
<1>3. LooksFor(r, start, stop)
    <2>1. CASE refill
        <3> DEFINE q == [fr EXCEPT !.i = wStart]
        <3>1. q = Moved(fr, wStart) /\ q \in FileState
            BY <1>1, MoveI DEF Moved
        <3>2. Moved(fr, wStart).i <= Moved(fr, wStart).end
            BY <1>1 DEF Moved
        <3> HIDE DEF q
        <3>3. Filled(Moved(fr, wStart), FillBuffer(Moved(fr, wStart)))
            BY <1>1, <3>1, <3>2, FillBufferFills
        <3>4. r = FillBuffer(q) /\ start = 0 /\ stop = r.i
            BY <2>1 DEF q
        <3> HIDE DEF r, start, stop
        <3>5. Filled(Moved(fr, wStart), r)
            BY <3>1, <3>3, <3>4
        <3>6. r \in FileState
            BY <3>5 DEF Filled
        <3> QED
            BY <2>1, <3>4, <3>5, <3>6 DEF LooksFor, LooksRefilled
    <2>2. CASE last
        BY <2>2, <1>1 DEF LooksFor, LooksAtEnd
    <2>3. CASE fr.i # fr.end
        BY <2>3, <1>1 DEF LooksFor, LooksInside
    <2> QED
        BY <2>1, <2>2, <2>3
<1>4. IF stop \notin Cells
      THEN reading' = "overrun" /\ fr' = r /\ wStart' = wStart /\ words' = words
      ELSE IF last \/ r.buf[stop] = Space
      THEN /\ words' = Append(words, CString(r.buf, start, stop - start))
           /\ fr' = [r EXCEPT !.buf[stop] = Nul, !.i = stop + 1]
           /\ reading' = "skip"
           /\ wStart' = wStart
      ELSE /\ fr' = [r EXCEPT !.i = @ + 1]
           /\ wStart' = start
           /\ reading' = reading /\ words' = words
    BY Zenon DEF Visit
<1> HIDE DEF r, start, stop
<1>5. r \in FileState /\ r.i \in Nat
    BY <1>3 DEF LooksFor, FileState
<1>6. [r EXCEPT !.i = r.i + 1] = Moved(r, r.i + 1)
    BY <1>5, MoveI DEF Moved
<1>7. [r EXCEPT !.i = @ + 1] = Moved(r, r.i + 1)
    BY <1>6, Zenon
<1>8. stop \in Cells => [r EXCEPT !.buf[stop] = Nul, !.i = stop + 1] = WordEnded(r, stop)
    BY <1>5, EndsWord, Zenon DEF WordEnded
<1>9. Visits(r, start, stop)
    BY <1>1, <1>4, <1>7, <1>8, Zenon DEF Visits
<1> QED
    BY <1>3, <1>9
-----------------------------------------------------------------------------
\* The fields of the reader keep their types.

\* Moving i keeps the fields' types.
LEMMA MovedType ==
    ASSUME NEW r \in FileState, NEW x \in Nat
    PROVE  Moved(r, x) \in FileState
BY DEF Moved, FileState

\* Ending a word keeps the fields' types.
LEMMA WordEndedType ==
    ASSUME NEW r \in FileState, NEW c \in Cells
    PROVE  WordEnded(r, c) \in FileState
<1>1. [r.buf EXCEPT ![c] = Nul] \in [Cells -> Symbols]
    BY DEF FileState, Symbols
<1>2. c + 1 \in Nat
    BY BufsizeAssumption DEF Cells
<1> QED
    BY <1>1, <1>2 DEF WordEnded, FileState

\* Where visit looks, and what that says of its numbers.
LEMMA LooksForTypes ==
    ASSUME ReaderTypes, reading = "word", NEW r, NEW start, NEW stop, LooksFor(r, start, stop)
    PROVE  /\ r \in FileState /\ start \in Nat /\ stop \in Nat
           /\ start <= stop /\ start <= r.end
           /\ ~ (fr.i = fr.end /\ fr.feof) => stop = r.i
<1>1. fr \in FileState /\ wStart \in Nat /\ wStart <= fr.end /\ wStart <= fr.i
    BY DEF ReaderTypes
<1>2. fr.i \in Nat /\ r \in FileState
    BY <1>1 DEF FileState, LooksFor
<1>3. r.i \in Nat /\ r.end \in Nat
    BY <1>2, BufsizeAssumption DEF FileState
<1>4. CASE LooksAtEnd(r, start, stop)
    BY <1>1, <1>2, <1>4 DEF LooksAtEnd
<1>5. CASE LooksInside(r, start, stop)
    BY <1>1, <1>2, <1>5 DEF LooksInside
<1>6. CASE LooksRefilled(r, start, stop)
    BY <1>2, <1>3, <1>6 DEF LooksRefilled
<1> QED
    BY <1>4, <1>5, <1>6 DEF LooksFor

\* Every step of the reader keeps them.
LEMMA ReadTypes ==
    ASSUME ReaderTypes, Read
    PROVE  ReaderTypes'
<1>1. /\ text \in Texts /\ fr \in FileState /\ wStart \in Nat /\ words \in Seq(Seq(Symbols))
      /\ text' = text
    BY DEF ReaderTypes, Read, SkipWhitespace, Check, Visit
<1>2. FileState' = FileState
    BY <1>1 DEF FileState
<1>3. CASE SkipWhitespace
    <2>1. PICK r : Looks(r) /\ Skips(r)
        BY <1>3, SkipCases
    <2>2. r \in FileState /\ r.i \in Nat
        BY <2>1 DEF Looks, FileState
    <2>3. r.i + 1 \in Nat
        BY <2>2
    <2>4. fr' \in FileState
        BY <1>1, <2>1, <2>2, <2>3, MovedType DEF Skips
    <2>5. reading' \in {"check", "skip", "overrun"}
        BY <2>1 DEF Skips
    <2>6. wStart' = wStart /\ words' = words
        BY <1>3 DEF SkipWhitespace
    <2> QED
        BY <1>1, <1>2, <2>4, <2>5, <2>6 DEF ReaderTypes
<1>4. CASE Check
    <2>1. /\ reading' = CASE fr.i >= fr.end /\ fr.feof -> "packed"
                          [] fr.i < fr.end /\ fr.buf[fr.i] # Space -> "word"
                          [] OTHER -> "assertion"
          /\ wStart' = fr.i /\ fr' = fr /\ words' = words
        BY <1>4 DEF Check
    <2>2. fr.i \in Nat /\ fr.end \in Nat
        BY <1>1, BufsizeAssumption DEF FileState
    <2>3. reading' \in {"packed", "word", "assertion"} /\ (reading' = "word" => fr.i < fr.end)
        BY <2>1, <2>2
    <2> QED
        BY <1>1, <1>2, <2>1, <2>2, <2>3 DEF ReaderTypes
<1>5. CASE Visit
    <2>1. PICK r, start, stop : LooksFor(r, start, stop) /\ Visits(r, start, stop)
        BY <1>5, VisitCases
    <2>2. /\ r \in FileState /\ start \in Nat /\ stop \in Nat
          /\ start <= stop /\ start <= r.end
          /\ ~ (fr.i = fr.end /\ fr.feof) => stop = r.i
        BY <2>1, <1>5, LooksForTypes DEF Visit
    <2>3. CASE /\ stop \notin Cells /\ reading' = "overrun" /\ fr' = r
               /\ wStart' = wStart /\ words' = words
        BY <1>1, <1>2, <2>2, <2>3 DEF ReaderTypes
    <2>4. CASE /\ stop \in Cells
               /\ words' = Append(words, CString(r.buf, start, stop - start))
               /\ fr' = WordEnded(r, stop) /\ reading' = "skip" /\ wStart' = wStart
        <3>1. r.buf \in [Cells -> Symbols]
            BY <2>2 DEF FileState
        <3>2. stop - start \in Nat /\ start + (stop - start) <= BUFSIZE
            BY <2>2, <2>4, BufsizeAssumption DEF Cells
        <3>3. CString(r.buf, start, stop - start) \in Seq(Symbols)
            BY <2>2, <3>1, <3>2, CStringType
        <3>4. words' \in Seq(Seq(Symbols))
            BY <2>4, <3>3, <1>1
        <3>5. fr' \in FileState
            BY <2>2, <2>4, WordEndedType
        <3> QED
            BY <1>1, <1>2, <2>4, <3>4, <3>5 DEF ReaderTypes
    <2>5. CASE /\ stop \in Cells /\ ~ (fr.i = fr.end /\ fr.feof)
               /\ fr' = Moved(r, r.i + 1) /\ wStart' = start /\ reading' = "word"
               /\ words' = words
        <3>1. r.i \in Nat /\ r.end \in Nat /\ r.i + 1 \in Nat
            BY <2>2, BufsizeAssumption DEF FileState
        <3>2. fr' \in FileState /\ fr'.i = r.i + 1 /\ fr'.end = r.end
            BY <2>2, <2>5, <3>1, MovedType DEF Moved
        <3>3. wStart' <= fr'.end /\ wStart' <= fr'.i
            BY <2>2, <2>5, <3>1, <3>2
        <3> QED
            BY <1>1, <1>2, <2>2, <2>5, <3>2, <3>3 DEF ReaderTypes
    <2> QED
        BY <2>1, <2>3, <2>4, <2>5 DEF Visits
<1> QED
    BY <1>3, <1>4, <1>5 DEF Read

\* The reader starts with them.
LEMMA InitReaderTypes ==
    ASSUME FRInit
    PROVE  ReaderTypes
<1>1. text \in Texts /\ Len(text) \in Nat /\ BUFSIZE \in Nat \ {0}
    BY TextFacts, BufsizeAssumption DEF FRInit
<1>2. [c \in Cells |-> Nul] \in [Cells -> Symbols]
    BY DEF Symbols
<1>3. fr \in FileState
    BY <1>1, <1>2 DEF FRInit, FileState
<1>4. <<>> \in Seq(Seq(Symbols))
    OBVIOUS
<1> QED
    BY <1>1, <1>3, <1>4 DEF FRInit, ReaderTypes
-----------------------------------------------------------------------------
\* The reader does what Scan does.

\* One more character is scanned.
LEMMA ScanNext ==
    ASSUME NEW t \in Seq(Symbols), NEW f, Scans(f, t), NEW k \in Nat, k < Len(t)
    PROVE  /\ f[k] \in Acc
           /\ t[k + 1] # Space => f[k + 1] = [words |-> f[k].words,
                                              word  |-> Append(f[k].word, t[k + 1])]
           /\ t[k + 1] = Space => f[k + 1] =
                 [words |-> IF f[k].word = <<>> THEN f[k].words
                            ELSE Append(f[k].words, f[k].word),
                  word  |-> <<>>]
<1>1. k \in 0 .. Len(t) + 1 /\ k + 1 \in 1 .. Len(t) /\ (k + 1) - 1 = k
    OBVIOUS
<1> DEFINE acc == f[k]
           c   == t[k + 1]
<1>2. acc \in Acc /\ c \in Symbols /\ f[k + 1] = Scan(acc, c)
    BY <1>1 DEF Scans
<1> HIDE DEF acc, c
<1>3. /\ c # Space => Scan(acc, c) = [words |-> acc.words, word |-> Append(acc.word, c)]
      /\ c = Space => Scan(acc, c) =
             [words |-> IF acc.word = <<>> THEN acc.words ELSE Append(acc.words, acc.word),
              word  |-> <<>>]
    BY <1>2, ScanSteps
<1> QED
    BY <1>2, <1>3 DEF acc, c

\* The numbers of a reader.
LEMMA Numbers ==
    ASSUME text \in Texts, NEW r \in FileState
    PROVE  /\ BUFSIZE \in Nat \ {0} /\ Len(text) \in Nat
           /\ r.i \in Nat /\ r.end \in Nat /\ r.end <= BUFSIZE
           /\ r.pos \in Nat /\ r.pos <= Len(text) /\ r.feof \in BOOLEAN
           /\ Offset(r) \in Int /\ Offset(r) = r.pos - r.end
           /\ r.buf \in [Cells -> Symbols]
           /\ \A c : c \in Cells <=> c \in Nat /\ c <= BUFSIZE
<1>1. BUFSIZE \in Nat \ {0} /\ Len(text) \in Nat
    BY BufsizeAssumption, TextFacts
<1>2. /\ r.i \in Nat /\ r.end \in 0 .. BUFSIZE /\ r.pos \in 0 .. Len(text)
      /\ r.feof \in BOOLEAN /\ r.buf \in [Cells -> Symbols]
    BY DEF FileState
<1> QED
    BY <1>1, <1>2 DEF Offset, Cells

\* A filling keeps what is known of the buffer.
LEMMA FilledSound ==
    ASSUME text \in Texts, NEW r \in FileState, NEW q, Filled(r, q),
           r.i <= r.end, ~ r.feof, Sound(text, r), Loaded(text, r, r.i)
    PROVE  /\ Sound(text, q) /\ Loaded(text, q, 0)
           /\ Offset(q) = Offset(r) + r.i
<1> DEFINE L == Len(text)
           i == r.i
           e == r.end
           p == r.pos
           d == q.end
           P == q.pos
           left == e - i
<1>1. q \in FileState
    BY DEF Filled
<1>2. /\ BUFSIZE \in Nat \ {0} /\ L \in Nat /\ i \in Nat /\ e \in Nat /\ e <= BUFSIZE
      /\ p \in Nat /\ p <= L /\ Offset(r) = p - e
      /\ \A c : c \in Cells <=> c \in Nat /\ c <= BUFSIZE
    BY Numbers
<1>3. d \in Nat /\ d <= BUFSIZE /\ P \in Nat /\ P <= L /\ Offset(q) = P - d /\ q.feof \in BOOLEAN
    BY <1>1, Numbers
<1>4. /\ left <= d /\ P = p + (d - left) /\ (d = BUFSIZE \/ P = L)
      /\ (q.feof <=> d < BUFSIZE)
    BY DEF Filled
<1>5. /\ \A c \in 0 .. left - 1 : q.buf[c] = r.buf[i + c]
      /\ \A c \in left .. d - 1 : q.buf[c] = text[p + (c - left) + 1]
      /\ \A c \in Cells : c >= d => q.buf[c] = r.buf[c]
    BY DEF Filled
<1>6. /\ r.buf[BUFSIZE] # Space /\ e <= p
      /\ L < BUFSIZE - 1 => (\A c \in Cells : c >= e => r.buf[c] = Nul) /\ p = 0
    BY DEF Sound
<1>7. i <= e
    OBVIOUS
<1>8. \A c \in i .. e - 1 : r.buf[c] = text[Offset(r) + c + 1]
    BY DEF Loaded
<1>9. Offset(q) = Offset(r) + i
    <2> HIDE DEF L, i, e, p, d, P
    <2> QED
        BY <1>2, <1>3, <1>4
<1> HIDE DEF L, i, e, p, d, P
<1>10. q.buf[BUFSIZE] # Space
    BY <1>2, <1>3, <1>5, <1>6
<1>11. d <= P /\ (q.feof => P = L)
    <2>1. left <= p /\ e <= p
        BY <1>2, <1>6, <1>7
    <2>2. d <= P
        BY <2>1, <1>2, <1>3, <1>4, <1>7
    <2>3. q.feof => d # BUFSIZE
        BY <1>2, <1>3, <1>4
    <2> QED
        BY <2>2, <2>3, <1>4
<1>12. ASSUME L < BUFSIZE - 1
       PROVE  (\A c \in Cells : c >= d => q.buf[c] = Nul) /\ q.feof
    <2>1. e = 0 /\ p = 0 /\ i = 0
        BY <1>2, <1>6, <1>7, <1>12
    <2>2. d < BUFSIZE
        BY <2>1, <1>2, <1>3, <1>4, <1>12
    <2>3. \A c \in Cells : c >= e
        BY <2>1, <1>2
    <2> QED
        BY <2>2, <2>3, <1>4, <1>5, <1>6, <1>12
<1>13. Sound(text, q)
    BY <1>10, <1>11, <1>12 DEF Sound, L, d, P
<1>14. ASSUME NEW c \in 0 .. d - 1 PROVE q.buf[c] = text[Offset(q) + c + 1]
    <2>1. CASE c < left
        <3>1. c \in 0 .. left - 1 /\ i + c \in i .. e - 1
            BY <2>1, <1>2, <1>3, <1>7
        <3>2. Offset(r) + (i + c) + 1 = Offset(q) + c + 1
            BY <1>2, <1>3, <1>9
        <3>3. q.buf[c] = r.buf[i + c] /\ r.buf[i + c] = text[Offset(r) + (i + c) + 1]
            BY <3>1, <1>5, <1>8
        <3> QED
            BY <3>2, <3>3
    <2>2. CASE c >= left
        <3>1. c \in left .. d - 1
            BY <2>2, <1>2, <1>3, <1>7
        <3>2. p + (c - left) + 1 = Offset(q) + c + 1
            BY <1>2, <1>3, <1>4
        <3> QED
            BY <3>1, <3>2, <1>5
    <2> QED
        BY <2>1, <2>2, <1>2, <1>3
<1>15. Loaded(text, q, 0)
    BY <1>14 DEF Loaded, d
<1> QED
    BY <1>9, <1>13, <1>15 DEF i

\* A well-formed text f scans.
Right(f) == text \in Texts /\ Scans(f, text) /\ WellFormed(text)

\* The space that ends the text changes nothing between two words.
LEMMA ScanToTheEnd ==
    ASSUME NEW f, Right(f), f[Len(text)] = [words |-> words, word |-> <<>>]
    PROVE  f[Len(text) + 1].words = words
BY SpaceEndsWord, TextFacts DEF Right

\* skipWhitespace_ looks at r as it would at fr.
LEMMA LooksSound ==
    ASSUME NEW f, Right(f), fr \in FileState, Sound(text, fr), Between(text, f, fr, words),
           NEW r, Looks(r), ~ (fr.i = fr.end /\ fr.feof)
    PROVE  /\ Sound(text, r) /\ Between(text, f, r, words)
           /\ r.i = r.end => r.feof /\ r.pos = Len(text)
<1>1. /\ text \in Texts /\ BUFSIZE \in Nat \ {0} /\ Len(text) \in Nat
      /\ fr.i \in Nat /\ fr.end \in Nat /\ fr.end <= BUFSIZE
      /\ fr.pos \in Nat /\ fr.feof \in BOOLEAN /\ Offset(fr) = fr.pos - fr.end
    BY Numbers DEF Right
<1>2. CASE r = fr /\ (fr.i # fr.end \/ fr.feof)
    <2>1. fr.i # fr.end
        BY <1>2
    <2> QED
        BY <2>1, <1>2
<1>3. CASE fr.i = fr.end /\ ~ fr.feof /\ Filled(fr, r)
    <2>1. fr.i <= fr.end
        BY <1>1, <1>3
    <2>2. Loaded(text, fr, fr.i) /\ f[Offset(fr) + fr.i] = [words |-> words, word |-> <<>>]
        BY <2>1 DEF Between
    <2>3. Sound(text, r) /\ Loaded(text, r, 0) /\ Offset(r) = Offset(fr) + fr.i
        BY <1>1, <1>3, <2>1, <2>2, FilledSound
    <2>4. r \in FileState /\ r.i = fr.end - fr.i
          /\ (r.end = BUFSIZE \/ r.pos = Len(text)) /\ (r.feof <=> (fr.feof \/ r.end < BUFSIZE))
        BY <1>3 DEF Filled
    <2>5. r.i = 0
        BY <2>4, <1>1, <1>3
    <2>6. r.end \in Nat /\ Offset(r) \in Int
        BY <1>1, <2>4, Numbers
    <2>7. r.i <= r.end /\ Offset(r) + r.i = Offset(r)
        BY <2>5, <2>6
    <2>8. f[Offset(r) + r.i] = [words |-> words, word |-> <<>>]
        BY <2>2, <2>3, <2>7
    <2>9. Loaded(text, r, r.i)
        BY <2>3, <2>5
    <2>10. ~ (r.i > r.end)
        BY <2>5, <2>6
    <2>11. Between(text, f, r, words)
        BY <2>7, <2>8, <2>9, <2>10 DEF Between
    <2>12. r.i = r.end => r.feof /\ r.pos = Len(text)
        BY <2>4, <2>5, <1>1
    <2> QED
        BY <2>3, <2>11, <2>12
<1> QED
    BY <1>2, <1>3 DEF Looks

\* One character of whitespace is skipped, or a stale one past the end.
LEMMA MovedBetween ==
    ASSUME NEW f, Right(f), NEW r \in FileState, Sound(text, r), Between(text, f, r, words),
           r.i = r.end => r.feof /\ r.pos = Len(text),
           r.i \in Cells, r.buf[r.i] = Space
    PROVE  Sound(text, Moved(r, r.i + 1)) /\ Between(text, f, Moved(r, r.i + 1), words)
<1> DEFINE q == Moved(r, r.i + 1)
           L == Len(text)
           i == r.i
           e == r.end
           o == Offset(r)
<1>1. /\ text \in Texts /\ BUFSIZE \in Nat \ {0} /\ L \in Nat
      /\ i \in Nat /\ e \in Nat /\ e <= BUFSIZE /\ i <= BUFSIZE
      /\ r.pos \in Nat /\ r.pos <= L /\ r.feof \in BOOLEAN /\ o \in Int /\ o = r.pos - e
    BY Numbers DEF Right
<1>2. q.buf = r.buf /\ q.i = i + 1 /\ q.end = e /\ q.pos = r.pos /\ q.feof = r.feof
    BY DEF Moved
<1>3. Offset(q) = o
    BY <1>2 DEF Offset
<1>4. Sound(text, q)
    BY <1>2 DEF Sound
<1>5. i # BUFSIZE /\ e <= r.pos
    BY DEF Sound
<1>6. /\ i <= e \/ r.feof
      /\ i <= e => Loaded(text, r, i) /\ f[o + i] = [words |-> words, word |-> <<>>]
      /\ i > e => f[L + 1].words = words
    BY DEF Between
<1> HIDE DEF q, L, i, e, o
<1>7. CASE i < e
    <2>1. Loaded(text, r, i) /\ f[o + i] = [words |-> words, word |-> <<>>]
        BY <1>1, <1>6, <1>7
    <2>2. o + i \in Nat /\ o + i < L /\ (o + i) + 1 = o + (i + 1) /\ o + i + 1 = (o + i) + 1
        BY <1>1, <1>5, <1>7, SMTT(20)
    <2>3. i \in i .. e - 1
        BY <1>1, <1>7
    <2>4. text[(o + i) + 1] = Space
        BY <2>1, <2>2, <2>3 DEF Loaded, i, e, o
    <2>5. Scans(f, text) /\ text \in Seq(Symbols)
        BY <1>1, TextFacts DEF Right
    <2>6. f[(o + i) + 1] = [words |-> IF f[o + i].word = <<>> THEN f[o + i].words
                                      ELSE Append(f[o + i].words, f[o + i].word),
                            word  |-> <<>>]
        BY <2>2, <2>4, <2>5, ScanNext DEF L
    <2>7. f[o + (i + 1)] = [words |-> words, word |-> <<>>]
        BY <2>1, <2>2, <2>6
    <2>8. \A c \in i + 1 .. e - 1 : c \in i .. e - 1
        BY <1>1
    <2>9. \A c \in i + 1 .. e - 1 : r.buf[c] = text[o + c + 1]
        BY <2>1, <2>8 DEF Loaded, e, o
    <2>10. Loaded(text, q, i + 1)
        BY <2>9, <1>2, <1>3 DEF Loaded
    <2>11. i + 1 <= e /\ ~ (i + 1 > e)
        BY <1>1, <1>7
    <2>12. Between(text, f, q, words)
        BY <2>7, <2>10, <2>11, <1>2, <1>3 DEF Between
    <2> QED
        BY <2>12, <1>4 DEF q, i
<1>8. CASE i >= e
    <2>1. f[L + 1].words = words /\ r.feof
        <3>1. CASE i = e
            <4>1. r.pos = L /\ r.feof
                BY <3>1 DEF i, e, L
            <4>2. o + i = L /\ f[o + i] = [words |-> words, word |-> <<>>]
                BY <4>1, <3>1, <1>1, <1>6
            <4>3. f[Len(text)] = [words |-> words, word |-> <<>>]
                BY <4>2 DEF L
            <4>4. f[L + 1].words = words
                BY <4>3, ScanToTheEnd DEF L
            <4> QED
                BY <4>1, <4>4
        <3>2. CASE i > e
            BY <3>2, <1>1, <1>6
        <3> QED
            BY <3>1, <3>2, <1>1, <1>8
    <2>2. i + 1 > e /\ ~ (i + 1 <= e) /\ i + 1 <= BUFSIZE
        BY <1>1, <1>5, <1>8
    <2>3. Between(text, f, q, words)
        BY <2>1, <2>2, <1>2 DEF Between, L
    <2> QED
        BY <2>3, <1>4 DEF q, i
<1> QED
    BY <1>1, <1>7, <1>8

\* skipWhitespace_ keeps the invariant.
LEMMA SkipInv ==
    ASSUME ReaderTypes, NEW f, Right(f), ReaderInv(f), SkipWhitespace
    PROVE  ReaderInv(f)'
<1>1. /\ fr \in FileState /\ text \in Texts /\ text' = text /\ words' = words
      /\ reading = "skip" /\ Sound(text, fr) /\ Between(text, f, fr, words)
    BY DEF ReaderTypes, SkipWhitespace, ReaderInv
<1>2. PICK r : Looks(r) /\ Skips(r)
    BY SkipCases
<1>3. CASE fr.i = fr.end /\ fr.feof
    <2>1. r = fr /\ fr.i \in Nat /\ fr.end \in Nat /\ fr.end <= BUFSIZE
        BY <1>1, <1>2, <1>3, Numbers DEF Looks
    <2>2. r.i \in Cells
        BY <2>1, <1>3, <1>1, Numbers
    <2>3. reading' = "check" /\ fr' = fr
        BY <2>2, <1>2, <1>3 DEF Skips
    <2>4. Checked(fr)
        BY <2>1, <1>3 DEF Checked
    <2> QED
        BY <2>3, <2>4, <1>1 DEF ReaderInv
<1>4. CASE ~ (fr.i = fr.end /\ fr.feof)
    <2>1. /\ Sound(text, r) /\ Between(text, f, r, words)
          /\ r.i = r.end => r.feof /\ r.pos = Len(text)
        BY <1>1, <1>2, <1>4, LooksSound
    <2>2. r \in FileState
        BY <1>2 DEF Looks
    <2>3. r.i \in Nat /\ r.end \in Nat /\ r.end <= BUFSIZE /\ BUFSIZE \in Nat
        BY <1>1, <2>2, Numbers
    <2>4. r.i \in Cells
        <3>1. r.i <= BUFSIZE
            BY <2>1, <2>3 DEF Between
        <3> QED
            BY <3>1, <2>3 DEF Cells
    <2>5. CASE r.buf[r.i] = Space /\ fr' = Moved(r, r.i + 1) /\ reading' = "skip"
        <3>1. Sound(text, Moved(r, r.i + 1)) /\ Between(text, f, Moved(r, r.i + 1), words)
            BY <2>1, <2>2, <2>4, <2>5, MovedBetween
        <3> QED
            BY <3>1, <2>5, <1>1 DEF ReaderInv
    <2>6. CASE r.buf[r.i] # Space /\ fr' = r /\ reading' = "check"
        <3>1. Checked(r)
            BY <2>1, <2>3, <2>6 DEF Checked, Between
        <3> QED
            BY <3>1, <2>1, <2>6, <1>1 DEF ReaderInv
    <2> QED
        BY <1>2, <1>4, <2>4, <2>5, <2>6 DEF Skips
<1> QED
    BY <1>3, <1>4

\* done and the assertions of visit keep it: there is a word where done promises one.
LEMMA CheckInv ==
    ASSUME ReaderTypes, NEW f, Right(f), ReaderInv(f), Check
    PROVE  ReaderInv(f)'
<1>1. /\ fr \in FileState /\ text \in Texts /\ text' = text /\ words' = words /\ fr' = fr
      /\ Sound(text, fr) /\ Between(text, f, fr, words) /\ Checked(fr) /\ wStart' = fr.i
      /\ reading' = CASE fr.i >= fr.end /\ fr.feof -> "packed"
                      [] fr.i < fr.end /\ fr.buf[fr.i] # Space -> "word"
                      [] OTHER -> "assertion"
    BY DEF ReaderTypes, Check, ReaderInv
<1> DEFINE L == Len(text)
           i == fr.i
           e == fr.end
           o == Offset(fr)
<1>2. /\ L \in Nat /\ i \in Nat /\ e \in Nat /\ fr.pos \in Nat
      /\ o \in Int /\ o = fr.pos - e
    BY <1>1, Numbers
<1>3. i <= e => Loaded(text, fr, i) /\ f[o + i] = [words |-> words, word |-> <<>>]
    BY <1>1 DEF Between
<1>4. CASE i >= e
    <2>1. fr.feof /\ fr.pos = L
        BY <1>1, <1>4 DEF Checked, Sound
    <2>2. reading' = "packed"
        <3>1. ~ (i < e)
            BY <1>2, <1>4
        <3> QED
            BY <3>1, <2>1, <1>1, <1>4
    <2>3. f[L + 1].words = words
        <3>1. CASE i = e
            <4>1. o + i = L /\ i <= e
                BY <1>2, <2>1, <3>1
            <4>2. f[Len(text)] = [words |-> words, word |-> <<>>]
                BY <4>1, <1>3
            <4> QED
                BY <4>2, ScanToTheEnd
        <3>2. CASE i > e
            BY <3>2, <1>1 DEF Between
        <3> QED
            BY <3>1, <3>2, <1>2, <1>4
    <2> QED
        BY <2>2, <2>3, <1>1 DEF ReaderInv
<1>5. CASE i < e
    <2>1. fr.buf[i] # Space
        BY <1>1, <1>5 DEF Checked
    <2>2. reading' = "word"
        BY <2>1, <1>1, <1>2, <1>5
    <2>3. Loaded(text, fr, i) /\ f[o + i] = [words |-> words, word |-> <<>>]
        BY <1>2, <1>3, <1>5
    <2>4. i \in i .. e - 1
        BY <1>2, <1>5
    <2>5. text[o + i + 1] # Space
        BY <2>1, <2>3, <2>4 DEF Loaded
    <2>6. Slice(text, o + i, i - i) = <<>>
        <3>1. i - i = 0
            BY <1>2
        <3> QED
            BY <3>1 DEF Slice
    <2>7. InWord(text, f, fr, i, words)
        BY <1>2, <1>5, <2>3, <2>5, <2>6 DEF InWord
    <2> QED
        BY <2>2, <2>7, <1>1 DEF ReaderInv
<1> QED
    BY <1>2, <1>4, <1>5

\* A slice of the file, and the slice that is one longer.
LEMMA SliceFacts ==
    ASSUME NEW t \in Seq(Symbols), NEW s \in Nat, NEW n \in Nat, s + n <= Len(t)
    PROVE  /\ Slice(t, s, n) \in Seq(Symbols)
           /\ Len(Slice(t, s, n)) = n
           /\ n > 0 => Slice(t, s, n) # <<>>
           /\ s + n < Len(t) => Append(Slice(t, s, n), t[s + n + 1]) = Slice(t, s, n + 1)
<1>1. \A k \in 1 .. n : s + k \in 1 .. Len(t)
    OBVIOUS
<1>2. Slice(t, s, n) \in Seq(Symbols) /\ Len(Slice(t, s, n)) = n
    BY <1>1 DEF Slice
<1>3. n > 0 => Slice(t, s, n) # <<>>
    BY <1>2
<1>4. ASSUME s + n < Len(t)
      PROVE  Append(Slice(t, s, n), t[s + n + 1]) = Slice(t, s, n + 1)
    <2>1. s + (n + 1) = s + n + 1
        OBVIOUS
    <2>2. Append(Slice(t, s, n), t[s + n + 1]) =
              [k \in 1 .. n + 1 |-> IF k = n + 1 THEN t[s + n + 1] ELSE t[s + k]]
        BY <1>2 DEF Slice
    <2>3. [k \in 1 .. n + 1 |-> IF k = n + 1 THEN t[s + n + 1] ELSE t[s + k]] =
              [k \in 1 .. n + 1 |-> t[s + k]]
        BY <2>1
    <2> QED
        BY <2>2, <2>3 DEF Slice
<1> QED
    BY <1>2, <1>3, <1>4

\* The String made of a word in the buffer has the word's characters, also with
\* one cell more, where a Nul is.
LEMMA WordString ==
    ASSUME text \in Texts, NEW r \in FileState, r.end <= r.pos, NEW s \in Nat, Loaded(text, r, s),
           NEW m \in Nat, s + m <= r.end, NEW n \in Nat, m <= n, n = m \/ r.buf[s + m] = Nul
    PROVE  CString(r.buf, s, n) = Slice(text, Offset(r) + s, m)
<1> DEFINE o == Offset(r)
           e == r.end
           L == Len(text)
<1>1. /\ L \in Nat /\ e \in Nat /\ r.pos \in Nat /\ r.pos <= L /\ o \in Int /\ o = r.pos - e
    BY Numbers
<1>2. s + m <= e /\ e <= r.pos
    OBVIOUS
<1>3. \A c \in s .. e - 1 : r.buf[c] = text[o + c + 1]
    BY DEF Loaded
<1> HIDE DEF o, e, L
<1>4. ASSUME NEW k \in 0 .. m - 1 PROVE r.buf[s + k] = text[o + s + (k + 1)]
    <2>1. s + k \in s .. e - 1 /\ o + (s + k) + 1 = o + s + (k + 1)
        BY <1>1, <1>2
    <2> QED
        BY <2>1, <1>3
<1>5. ASSUME NEW k \in 0 .. m - 1 PROVE r.buf[s + k] # Nul
    <2>1. o + s + (k + 1) \in 1 .. L
        BY <1>1, <1>2
    <2> QED
        BY <2>1, <1>4, TextFacts DEF L
<1>6. Ends(r.buf, s, n, m)
    BY <1>5 DEF Ends
<1>7. CString(r.buf, s, n) = Characters(r.buf, s, m)
    BY <1>6, CStringIs
<1>8. ASSUME NEW k \in 1 .. m PROVE r.buf[s + k - 1] = text[o + s + k]
    <2>1. k - 1 \in 0 .. m - 1 /\ (k - 1) + 1 = k /\ s + (k - 1) = s + k - 1
        OBVIOUS
    <2>2. r.buf[s + (k - 1)] = text[o + s + ((k - 1) + 1)]
        BY <2>1, <1>4
    <2> QED
        BY <2>1, <2>2
<1> QED
    BY <1>7, <1>8 DEF Characters, Slice, o

\* A file that ends in a word is read by one filling.
LEMMA EndsInWord ==
    ASSUME NEW f, Right(f), fr \in FileState, wStart \in Nat, Sound(text, fr),
           InWord(text, f, fr, wStart, words), fr.i = fr.end, fr.pos = Len(text)
    PROVE  /\ Len(text) < BUFSIZE - 1 /\ fr.feof
           /\ wStart < fr.i
<1> DEFINE L == Len(text)
           i == fr.i
           o == Offset(fr)
<1>1. /\ text \in Texts /\ BUFSIZE \in Nat \ {0} /\ L \in Nat /\ i \in Nat /\ fr.end = i
      /\ fr.pos = L /\ o = L - i /\ fr.feof \in BOOLEAN /\ i <= L
    BY Numbers DEF Right, Sound
<1>2. wStart < i
    BY <1>1 DEF InWord
<1>3. text \in Seq(Symbols) /\ Scans(f, text)
    BY <1>1, TextFacts DEF Right
<1>4. f[L].word # <<>>
    <2>1. o + i = L /\ o + wStart \in Nat /\ i - wStart \in Nat /\ i - wStart > 0
          /\ (o + wStart) + (i - wStart) = L
        <3> HIDE DEF L, i, o
        <3> QED
            BY <1>1, <1>2
    <2>2. f[L].word = Slice(text, o + wStart, i - wStart)
        BY <2>1 DEF InWord
    <2> QED
        BY <2>1, <2>2, <1>3, SliceFacts
<1>5. text[L] # Space
    <2>1. L \in 1 .. Len(text)
        BY <1>1, <1>2
    <2> QED
        BY <2>1, <1>3, <1>4, SpaceEndsWord
<1>6. L < BUFSIZE - 1
    BY <1>1, <1>5 DEF Right, WellFormed
<1>7. fr.feof
    <2>1. fr.feof \/ fr.pos = 0
        BY <1>6 DEF Sound
    <2> QED
        BY <2>1, <1>1, <1>2
<1> QED
    BY <1>2, <1>6, <1>7

\* After a refilling the word is at the front, and more of it, or what follows
\* it, behind.
LEMMA RefilledInWord ==
    ASSUME NEW f, Right(f), fr \in FileState, wStart \in Nat, Sound(text, fr),
           InWord(text, f, fr, wStart, words),
           NEW r, fr.i = fr.end, ~ fr.feof, Filled(Moved(fr, wStart), r)
    PROVE  Sound(text, r) /\ InWord(text, f, r, 0, words) /\ r.i < r.end
<1> DEFINE L == Len(text)
           i == fr.i
           o == Offset(fr)
           w == wStart
           m == Moved(fr, wStart)
<1>1. /\ text \in Texts /\ BUFSIZE \in Nat \ {0} /\ L \in Nat /\ i \in Nat /\ fr.end = i
      /\ fr.pos \in Nat /\ fr.pos <= L /\ o = fr.pos - i /\ w \in Nat
    BY Numbers DEF Right
<1>2. w < i /\ i <= fr.pos
    BY <1>1 DEF InWord, Sound
<1>3. m.buf = fr.buf /\ m.i = w /\ m.end = i /\ m.pos = fr.pos /\ m.feof = fr.feof
    BY <1>1 DEF Moved
<1>4. Offset(m) = o
    BY <1>1, <1>3 DEF Offset
<1>5. m \in FileState /\ Sound(text, m) /\ Loaded(text, m, m.i) /\ m.i <= m.end /\ ~ m.feof
    <2>1. Sound(text, m)
        BY <1>1, <1>3 DEF Sound
    <2>2. Loaded(text, m, w)
        BY <1>1, <1>3, <1>4 DEF InWord, Loaded
    <2> QED
        BY <2>1, <2>2, <1>1, <1>2, <1>3, MovedType
<1> HIDE DEF m
<1>6. Sound(text, r) /\ Loaded(text, r, 0) /\ Offset(r) = o + w
    BY <1>1, <1>3, <1>4, <1>5, FilledSound DEF m
<1>7. /\ r \in FileState /\ r.i = i - w /\ r.pos = fr.pos + (r.end - (i - w))
      /\ (r.end = BUFSIZE \/ r.pos = L) /\ i - w <= r.end
    BY <1>3 DEF Filled, m
<1>8. r.end \in Nat /\ r.pos \in Nat
    BY <1>1, <1>7, Numbers
<1>9. text \in Seq(Symbols) /\ Scans(f, text) /\ WellFormed(text)
    BY <1>1, TextFacts DEF Right
<1>10. f[o + i] = [words |-> words, word |-> Slice(text, o + w, i - w)]
    BY DEF InWord
<1>11. i - w < BUFSIZE
    <2>1. o + i \in 0 .. Len(text) /\ o + w \in Nat /\ i - w \in Nat
          /\ (o + w) + (i - w) <= Len(text)
        BY <1>1, <1>2
    <2>2. Len(f[o + i].word) < BUFSIZE
        BY <2>1, <1>9, ShortWords
    <2>3. Len(Slice(text, o + w, i - w)) = i - w
        BY <2>1, <1>9, SliceFacts
    <2> QED
        BY <2>2, <2>3, <1>10
<1>12. fr.pos # L
    <2> SUFFICES ASSUME fr.pos = L PROVE FALSE
        OBVIOUS
    <2>1. fr.feof
        BY EndsInWord
    <2> QED
        BY <2>1
<1>13. r.i < r.end
    BY <1>1, <1>2, <1>7, <1>8, <1>11, <1>12
<1>14. /\ o + w + (i - w) = o + i /\ o + w + 0 = o + w
       /\ (i - w) - 0 = i - w /\ 0 <= i - w /\ 0 # i - w
    BY <1>1, <1>2
<1>15. f[Offset(r) + r.i] = [words |-> words, word |-> Slice(text, Offset(r) + 0, r.i - 0)]
    <2>1. Offset(r) + r.i = o + i /\ Offset(r) + 0 = o + w /\ r.i - 0 = i - w
        BY <1>6, <1>7, <1>14
    <2> QED
        BY <2>1, <1>10
<1>16. 0 <= r.i /\ r.i <= r.end /\ 0 # r.i
    BY <1>1, <1>2, <1>7, <1>8
<1>17. InWord(text, f, r, 0, words)
    BY <1>6, <1>15, <1>16 DEF InWord
<1> QED
    BY <1>6, <1>13, <1>17

\* One more character of the word.
LEMMA WordGrows ==
    ASSUME NEW f, Right(f), NEW r \in FileState, NEW s \in Nat, Sound(text, r),
           InWord(text, f, r, s, words), r.i < r.end, r.buf[r.i] # Space
    PROVE  Sound(text, Moved(r, r.i + 1)) /\ InWord(text, f, Moved(r, r.i + 1), s, words)
<1> DEFINE q == Moved(r, r.i + 1)
           L == Len(text)
           i == r.i
           e == r.end
           o == Offset(r)
<1>1. /\ text \in Texts /\ L \in Nat /\ i \in Nat /\ e \in Nat
      /\ r.pos \in Nat /\ r.pos <= L /\ o \in Int /\ o = r.pos - e
    BY Numbers DEF Right
<1>2. q.buf = r.buf /\ q.i = i + 1 /\ q.end = e /\ q.pos = r.pos /\ q.feof = r.feof
    BY DEF Moved
<1>3. Offset(q) = o
    BY <1>2 DEF Offset
<1>4. Sound(text, q)
    BY <1>2 DEF Sound
<1>5. e <= r.pos /\ i < e
    BY DEF Sound
<1>6. s <= i /\ Loaded(text, r, s)
      /\ f[o + i] = [words |-> words, word |-> Slice(text, o + s, i - s)]
    BY DEF InWord
<1>7. text \in Seq(Symbols) /\ Scans(f, text)
    BY <1>1, TextFacts DEF Right
<1>8. r.buf[i] # Space
    OBVIOUS
<1> HIDE DEF q, i, e, o
<1>9. /\ o + i \in Nat /\ o + i < L /\ (o + i) + 1 = o + (i + 1) /\ o + i + 1 = (o + i) + 1
      /\ o + s \in Nat /\ i - s \in Nat /\ (o + s) + (i - s) = o + i /\ (i + 1) - s = (i - s) + 1
    <2> HIDE DEF L
    <2> QED
        BY <1>1, <1>5, <1>6
<1>10. text[(o + i) + 1] # Space
    <2>1. i \in s .. e - 1
        BY <1>1, <1>5, <1>6
    <2>2. r.buf[i] = text[o + i + 1]
        BY <1>6, <2>1 DEF Loaded, o, e
    <2> QED
        BY <2>2, <1>8, <1>9
<1>11. f[(o + i) + 1] = [words |-> f[o + i].words,
                         word  |-> Append(f[o + i].word, text[(o + i) + 1])]
    BY <1>7, <1>9, <1>10, ScanNext
<1>12. Append(Slice(text, o + s, i - s), text[(o + i) + 1]) = Slice(text, o + s, (i + 1) - s)
    BY <1>7, <1>9, SliceFacts
<1>13. f[o + (i + 1)] = [words |-> words, word |-> Slice(text, o + s, (i + 1) - s)]
    <2> DEFINE w == Slice(text, o + s, i - s)
               v == Slice(text, o + s, (i + 1) - s)
               x == text[(o + i) + 1]
    <2>1. f[o + i] = [words |-> words, word |-> w] /\ Append(w, x) = v
        BY <1>6, <1>12
    <2>2. f[(o + i) + 1] = [words |-> f[o + i].words, word |-> Append(f[o + i].word, x)]
        BY <1>11
    <2> HIDE DEF w, v, x
    <2>3. f[o + i].words = words /\ f[o + i].word = w
        BY <2>1
    <2>4. f[(o + i) + 1] = [words |-> words, word |-> v]
        BY <2>1, <2>2, <2>3
    <2>5. f[o + (i + 1)] = [words |-> words, word |-> v]
        BY <2>4, <1>9
    <2> QED
        BY <2>5 DEF v
<1>14. s <= i + 1 /\ i + 1 <= e /\ s # i + 1
    BY <1>1, <1>5, <1>6
<1>15. Loaded(text, q, s)
    BY <1>2, <1>3, <1>6 DEF Loaded, o, e
<1>16. InWord(text, f, q, s, words)
    <2>1. f[Offset(q) + q.i] = [words |-> words, word |-> Slice(text, Offset(q) + s, q.i - s)]
        <3>1. q.i = i + 1
            BY <1>2
        <3> QED
            BY <3>1, <1>3, <1>13
    <2>2. s <= q.i /\ q.i <= q.end /\ s # q.i
        BY <1>2, <1>14
    <2> QED
        BY <2>1, <2>2, <1>15 DEF InWord
<1> QED
    BY <1>4, <1>16 DEF q, i

\* The cell of a Nul instead of a character past the word keeps the buffer sound.
LEMMA SoundEnded ==
    ASSUME text \in Texts, NEW r \in FileState, NEW c \in Cells, Sound(text, r)
    PROVE  Sound(text, WordEnded(r, c))
<1> DEFINE q == WordEnded(r, c)
<1>1. q.end = r.end /\ q.pos = r.pos /\ q.feof = r.feof
      /\ \A d \in Cells : q.buf[d] = IF d = c THEN Nul ELSE r.buf[d]
    BY Numbers DEF WordEnded
<1>2. BUFSIZE \in Cells
    BY BufsizeAssumption DEF Cells
<1> HIDE DEF q
<1>3. q.buf[BUFSIZE] # Space
    BY <1>1, <1>2, SpaceNotNul DEF Sound
<1>4. Len(text) < BUFSIZE - 1 => \A d \in Cells : d >= q.end => q.buf[d] = Nul
    BY <1>1 DEF Sound
<1> QED
    BY <1>1, <1>3, <1>4 DEF Sound, q

\* A space ends the word.
LEMMA WordIsRead ==
    ASSUME NEW f, Right(f), NEW r \in FileState, NEW s \in Nat, Sound(text, r),
           InWord(text, f, r, s, words), r.i < r.end, r.buf[r.i] = Space
    PROVE  Between(text, f, WordEnded(r, r.i), Append(words, CString(r.buf, s, r.i - s)))
<1> DEFINE q == WordEnded(r, r.i)
           L == Len(text)
           i == r.i
           e == r.end
           o == Offset(r)
           w == Slice(text, o + s, i - s)
<1>1. /\ text \in Texts /\ L \in Nat /\ i \in Nat /\ e \in Nat /\ e <= BUFSIZE
      /\ r.pos \in Nat /\ r.pos <= L /\ o \in Int /\ o = r.pos - e /\ BUFSIZE \in Nat
      /\ r.buf \in [Cells -> Symbols] /\ \A c : c \in Cells <=> c \in Nat /\ c <= BUFSIZE
    BY Numbers DEF Right
<1>2. q.i = i + 1 /\ q.end = e /\ q.pos = r.pos /\ q.feof = r.feof
      /\ \A d \in Cells : d # i => q.buf[d] = r.buf[d]
    BY <1>1 DEF WordEnded
<1>3. Offset(q) = o
    BY <1>2 DEF Offset
<1>4. e <= r.pos /\ i < e
    BY DEF Sound
<1>5. s <= i /\ Loaded(text, r, s) /\ (s = i => text[o + i + 1] # Space)
      /\ f[o + i] = [words |-> words, word |-> w]
    BY DEF InWord
<1>6. text \in Seq(Symbols) /\ Scans(f, text)
    BY <1>1, TextFacts DEF Right
<1>7. r.buf[i] = Space
    OBVIOUS
<1>8. CString(r.buf, s, i - s) = w
    <2>1. i - s \in Nat /\ s + (i - s) <= r.end
        <3> HIDE DEF i
        <3> QED
            BY <1>1, <1>4, <1>5
    <2>2. r.end <= r.pos
        BY <1>4
    <2> QED
        BY <2>1, <2>2, <1>1, <1>5, WordString
<1> HIDE DEF q, i, e, o
<1>9. /\ o + i \in Nat /\ o + i < L /\ (o + i) + 1 = o + (i + 1) /\ o + i + 1 = (o + i) + 1
      /\ o + s \in Nat /\ i - s \in Nat /\ (o + s) + (i - s) = o + i
    <2> HIDE DEF L
    <2> QED
        BY <1>1, <1>4, <1>5
<1>10. text[(o + i) + 1] = Space
    <2>1. i \in s .. e - 1
        BY <1>1, <1>4, <1>5
    <2>2. r.buf[i] = text[o + i + 1]
        BY <1>5, <2>1 DEF Loaded, o, e
    <2> QED
        BY <2>2, <1>7, <1>9
<1>11. w # <<>>
    <2>1. s # i
        BY <1>5, <1>9, <1>10
    <2>2. i - s > 0 /\ (o + s) + (i - s) <= L
        BY <2>1, <1>1, <1>5, <1>9, SMTT(20)
    <2> QED
        BY <2>2, <1>6, <1>9, SliceFacts
<1>12. f[(o + i) + 1] = [words |-> IF f[o + i].word = <<>> THEN f[o + i].words
                                   ELSE Append(f[o + i].words, f[o + i].word),
                         word  |-> <<>>]
    BY <1>6, <1>9, <1>10, ScanNext
<1> HIDE DEF w
<1>13. f[o + (i + 1)] = [words |-> Append(words, w), word |-> <<>>]
    BY <1>5, <1>9, <1>11, <1>12
<1>14. Loaded(text, q, i + 1)
    <2> SUFFICES ASSUME NEW c \in i + 1 .. e - 1 PROVE q.buf[c] = text[o + c + 1]
        BY <1>2, <1>3 DEF Loaded
    <2>1. c \in s .. e - 1 /\ c # i /\ c \in Cells
        BY <1>1, <1>5, SMTT(20)
    <2>2. r.buf[c] = text[o + c + 1]
        BY <1>5, <2>1 DEF Loaded, o, e
    <2> QED
        BY <2>1, <2>2, <1>2
<1>15. i + 1 <= e /\ ~ (i + 1 > e)
    BY <1>1, <1>4
<1>16. Between(text, f, q, Append(words, w))
    BY <1>2, <1>3, <1>13, <1>14, <1>15 DEF Between
<1> QED
    BY <1>8, <1>16 DEF q, i

\* The end of the file ends the word.
LEMMA LastWordIsRead ==
    ASSUME NEW f, Right(f), fr \in FileState, wStart \in Nat, Sound(text, fr),
           InWord(text, f, fr, wStart, words), fr.i = fr.end, fr.feof
    PROVE  /\ fr.i + 1 \in Cells
           /\ Between(text, f, WordEnded(fr, fr.i + 1),
                      Append(words, CString(fr.buf, wStart, (fr.i + 1) - wStart)))
<1> DEFINE q == WordEnded(fr, fr.i + 1)
           L == Len(text)
           i == fr.i
           o == Offset(fr)
           m == i - wStart
           n == (i + 1) - wStart
           w == Slice(text, o + wStart, m)
<1>1. /\ text \in Texts /\ BUFSIZE \in Nat \ {0} /\ L \in Nat /\ i \in Nat /\ fr.end = i
      /\ o = fr.pos - i /\ i <= fr.pos /\ fr.pos = L
      /\ \A c : c \in Cells <=> c \in Nat /\ c <= BUFSIZE
    BY Numbers DEF Right, Sound
<1>2. L < BUFSIZE - 1 /\ wStart < i
    BY <1>1, EndsInWord
<1>3. i \in Cells /\ i + 1 \in Cells /\ i + 2 <= BUFSIZE /\ i >= i
    <2> HIDE DEF L, i, o
    <2> QED
        BY <1>1, <1>2
<1>4. fr.buf[i] = Nul
    BY <1>1, <1>2, <1>3 DEF Sound
<1>5. m \in Nat /\ n \in Nat /\ m <= n /\ wStart + m = i /\ o + i = L /\ m > 0
      /\ o + wStart \in Nat /\ (o + wStart) + m = L
    <2> HIDE DEF L, i, o
    <2> QED
        BY <1>1, <1>2
<1>6. Loaded(text, fr, wStart) /\ f[o + i] = [words |-> words, word |-> w]
    BY DEF InWord
<1>7. CString(fr.buf, wStart, n) = w
    <2>1. fr.end <= fr.pos /\ wStart + m <= fr.end
        BY <1>1, <1>5
    <2>2. fr.buf[wStart + m] = Nul
        BY <1>4, <1>5
    <2>3. \A x, y \in Nat : x <= y /\ wStart + x <= fr.end /\ fr.buf[wStart + x] = Nul
              => CString(fr.buf, wStart, y) = Slice(text, Offset(fr) + wStart, x)
        BY <2>1, <1>1, <1>6, WordString
    <2> HIDE DEF m, n, o
    <2>4. CString(fr.buf, wStart, n) = Slice(text, Offset(fr) + wStart, m)
        BY <2>1, <2>2, <2>3, <1>5
    <2> QED
        BY <2>4 DEF o
<1>8. text \in Seq(Symbols) /\ Scans(f, text)
    BY <1>1, TextFacts DEF Right
<1>9. w # <<>>
    <2>1. (o + wStart) + m <= Len(text)
        BY <1>1, <1>5
    <2> HIDE DEF o, m
    <2> QED
        BY <2>1, <1>5, <1>8, SliceFacts
<1>10. f[L] = [words |-> words, word |-> w]
    BY <1>5, <1>6
<1> HIDE DEF w
<1>11. f[L + 1].words = Append(words, w)
    <2>1. f[L].words = words /\ f[L].word = w
        BY <1>10
    <2>2. f[L + 1].words = IF f[L].word = <<>> THEN f[L].words ELSE Append(f[L].words, f[L].word)
        BY <1>8, SpaceEndsWord
    <2> HIDE DEF L
    <2> QED
        BY <2>1, <2>2, <1>9
<1>12. q.i = i + 2 /\ q.end = i /\ q.feof
    BY <1>1 DEF WordEnded
<1> HIDE DEF q
<1>13. Between(text, f, q, Append(words, w))
    <2>1. q.i > q.end /\ ~ (q.i <= q.end) /\ q.i <= BUFSIZE
        BY <1>1, <1>3, <1>12
    <2> QED
        BY <2>1, <1>11, <1>12 DEF Between
<1> QED
    BY <1>3, <1>7, <1>13 DEF q, n

\* visit adds the words of the file, whole.
LEMMA VisitInv ==
    ASSUME ReaderTypes, NEW f, Right(f), ReaderInv(f), Visit
    PROVE  ReaderInv(f)'
<1>1. /\ fr \in FileState /\ text \in Texts /\ text' = text /\ wStart \in Nat
      /\ reading = "word" /\ Sound(text, fr) /\ InWord(text, f, fr, wStart, words)
    BY DEF ReaderTypes, Visit, ReaderInv
<1>2. PICK r, start, stop : LooksFor(r, start, stop) /\ Visits(r, start, stop)
    BY VisitCases
<1>3. /\ BUFSIZE \in Nat /\ fr.i \in Nat /\ fr.end \in Nat /\ fr.end <= BUFSIZE
      /\ \A c : c \in Cells <=> c \in Nat /\ c <= BUFSIZE
    BY <1>1, Numbers
<1>4. CASE fr.i = fr.end /\ fr.feof
    <2>1. r = fr /\ start = wStart /\ stop = fr.i + 1
        BY <1>2, <1>4 DEF LooksFor, LooksAtEnd, LooksInside, LooksRefilled
    <2>2. /\ stop \in Cells
          /\ Between(text, f, WordEnded(r, stop),
                     Append(words, CString(r.buf, start, stop - start)))
        BY <1>1, <1>4, <2>1, LastWordIsRead
    <2>3. Sound(text, WordEnded(r, stop))
        BY <1>1, <2>1, <2>2, SoundEnded
    <2>4. /\ words' = Append(words, CString(r.buf, start, stop - start))
          /\ fr' = WordEnded(r, stop) /\ reading' = "skip"
        BY <1>2, <1>4, <2>2 DEF Visits
    <2> QED
        BY <2>2, <2>3, <2>4, <1>1 DEF ReaderInv
<1>5. CASE ~ (fr.i = fr.end /\ fr.feof)
    <2>1. /\ Sound(text, r) /\ InWord(text, f, r, start, words) /\ r.i < r.end
          /\ r \in FileState /\ start \in Nat /\ stop = r.i
        <3>1. CASE LooksInside(r, start, stop)
            <4>1. fr.i < fr.end
                BY <3>1, <1>1, <1>3 DEF LooksInside, InWord
            <4> QED
                BY <4>1, <3>1, <1>1 DEF LooksInside
        <3>2. CASE LooksRefilled(r, start, stop)
            <4>1. r \in FileState /\ fr.i = fr.end /\ ~ fr.feof
                  /\ Filled(Moved(fr, wStart), r) /\ start = 0 /\ stop = r.i
                BY <3>2, <1>2 DEF LooksRefilled, LooksFor
            <4> QED
                BY <4>1, <1>1, RefilledInWord
        <3> QED
            BY <3>1, <3>2, <1>2, <1>5 DEF LooksFor, LooksAtEnd
    <2>2. r.i \in Nat /\ r.end \in Nat /\ r.end <= BUFSIZE
        BY <1>1, <2>1, Numbers
    <2>3. stop \in Cells
        BY <2>1, <2>2, <1>3
    <2>4. CASE r.buf[stop] = Space
        <3>1. /\ words' = Append(words, CString(r.buf, start, stop - start))
              /\ fr' = WordEnded(r, stop) /\ reading' = "skip"
            BY <1>2, <1>5, <2>3, <2>4 DEF Visits
        <3>2. Sound(text, WordEnded(r, stop))
            BY <1>1, <2>1, <2>3, SoundEnded
        <3>3. Between(text, f, WordEnded(r, stop),
                      Append(words, CString(r.buf, start, stop - start)))
            BY <2>1, <2>4, WordIsRead
        <3> QED
            BY <3>1, <3>2, <3>3, <1>1 DEF ReaderInv
    <2>5. CASE r.buf[stop] # Space
        <3>1. fr' = Moved(r, r.i + 1) /\ wStart' = start /\ reading' = "word" /\ words' = words
            BY <1>2, <1>5, <2>3, <2>5 DEF Visits
        <3>2. Sound(text, Moved(r, r.i + 1)) /\ InWord(text, f, Moved(r, r.i + 1), start, words)
            BY <2>1, <2>5, WordGrows
        <3> QED
            BY <3>1, <3>2, <1>1 DEF ReaderInv
    <2> QED
        BY <2>4, <2>5
<1> QED
    BY <1>4, <1>5

\* The empty buffer of the constructor.
LEMMA InitReaderInv ==
    ASSUME FRInit, NEW f, Right(f)
    PROVE  ReaderInv(f)
<1>1. BUFSIZE \in Nat \ {0} /\ BUFSIZE \in Cells /\ text \in Texts /\ Len(text) \in Nat
    BY BufsizeAssumption, TextFacts DEF FRInit, Cells
<1>2. /\ \A c \in Cells : fr.buf[c] = Nul
      /\ fr.i = 0 /\ fr.end = 0 /\ fr.pos = 0 /\ fr.feof = FALSE
      /\ words = <<>> /\ reading = "skip"
    BY DEF FRInit
<1>3. Sound(text, fr)
    BY <1>1, <1>2, SpaceNotNul DEF Sound
<1>4. Offset(fr) + fr.i = 0
    BY <1>2 DEF Offset
<1>5. f[0] = [words |-> words, word |-> <<>>]
    BY <1>2 DEF Right, Scans, Acc0
<1>6. Loaded(text, fr, fr.i)
    BY <1>2 DEF Loaded
<1>7. Between(text, f, fr, words)
    BY <1>2, <1>4, <1>5, <1>6 DEF Between
<1> QED
    BY <1>2, <1>3, <1>7 DEF ReaderInv
-----------------------------------------------------------------------------
\* Counting.

\* How often each word is in the rows S of t.
Tally(t, S) == [w \in {t[i] : i \in S} |-> Cardinality({i \in S : t[i] = w})]

\* The rows of t on node n, and those on the nodes below m.
NodeOf(i)       == ((i - 1) \div SegmentRows) % NumNodes
RowsOn(t, n)    == {i \in DOMAIN t : NodeOf(i) = n}
RowsBelow(t, m) == {i \in DOMAIN t : NodeOf(i) < m}

\* A word is counted only if it is there.
LEMMA TallyIsABag ==
    ASSUME NEW t, NEW S, IsFiniteSet(S)
    PROVE  IsABag(Tally(t, S))
<1>1. ASSUME NEW w \in {t[i] : i \in S}
      PROVE  Cardinality({i \in S : t[i] = w}) \in {n \in Nat : n > 0}
    <2> DEFINE W == {i \in S : t[i] = w}
    <2>1. W # {} /\ IsFiniteSet(W)
        BY <1>1, FS_Subset, W \in SUBSET S
    <2> HIDE DEF W
    <2>2. Cardinality(W) \in Nat /\ Cardinality(W) # 0
        BY <2>1, FS_CardinalityType, FS_EmptySet
    <2> QED
        BY <2>2 DEF W
<1> QED
    BY <1>1 DEF Tally, IsABag

\* The counts of two sets of rows are added.
LEMMA TallyUnion ==
    ASSUME NEW t, NEW S, NEW T, IsFiniteSet(S), IsFiniteSet(T), S \cap T = {}
    PROVE  Tally(t, S) (+) Tally(t, T) = Tally(t, S \cup T)
<1> DEFINE In(R)    == {t[i] : i \in R}
           Of(R, w) == {i \in R : t[i] = w}
           C(R, w)  == Cardinality(Of(R, w))
           A == Tally(t, S)
           B == Tally(t, T)
<1>1. A = [w \in In(S) |-> C(S, w)] /\ B = [w \in In(T) |-> C(T, w)]
      /\ Tally(t, S \cup T) = [w \in In(S \cup T) |-> C(S \cup T, w)]
    BY DEF Tally
<1>2. In(S \cup T) = In(S) \cup In(T)
    OBVIOUS
<1>3. ASSUME NEW w
      PROVE  /\ w \notin In(S) => C(S, w) = 0
             /\ w \notin In(T) => C(T, w) = 0
             /\ C(S \cup T, w) = C(S, w) + C(T, w)
             /\ C(S, w) \in Nat /\ C(T, w) \in Nat
    <2>1. IsFiniteSet(Of(S, w)) /\ IsFiniteSet(Of(T, w))
        BY FS_Subset, Of(S, w) \in SUBSET S, Of(T, w) \in SUBSET T
    <2>2. Of(S \cup T, w) = Of(S, w) \cup Of(T, w) /\ Of(S, w) \cap Of(T, w) = {}
        OBVIOUS
    <2>3. (w \notin In(S) => Of(S, w) = {}) /\ (w \notin In(T) => Of(T, w) = {})
        OBVIOUS
    <2> HIDE DEF Of, In
    <2>4. C(S, w) \in Nat /\ C(T, w) \in Nat /\ Cardinality({}) = 0
        BY <2>1, FS_CardinalityType, FS_EmptySet
    <2>5. Cardinality(Of(S, w) \cup Of(T, w)) =
              C(S, w) + C(T, w) - Cardinality(Of(S, w) \cap Of(T, w))
        BY <2>1, FS_Union
    <2>6. C(S \cup T, w) = C(S, w) + C(T, w)
        <3> DEFINE x == C(S, w)
                   y == C(T, w)
                   z == C(S \cup T, w)
        <3>1. z = x + y - Cardinality({}) /\ x \in Nat /\ y \in Nat
            BY <2>2, <2>4, <2>5, Zenon
        <3> HIDE DEF x, y, z
        <3> QED
            BY <3>1, <2>4 DEF x, y, z
    <2> QED
        BY <2>3, <2>4, <2>6
<1> HIDE DEF In, C, A, B
<1>4. DOMAIN A = In(S) /\ DOMAIN B = In(T)
      /\ (\A w \in In(S) : A[w] = C(S, w)) /\ (\A w \in In(T) : B[w] = C(T, w))
    BY <1>1
<1>5. A (+) B = [w \in In(S) \cup In(T) |-> (IF w \in In(S) THEN A[w] ELSE 0)
                                           + (IF w \in In(T) THEN B[w] ELSE 0)]
    BY <1>4 DEF (+)
<1>6. ASSUME NEW w \in In(S) \cup In(T)
      PROVE  (IF w \in In(S) THEN A[w] ELSE 0) + (IF w \in In(T) THEN B[w] ELSE 0)
             = C(S \cup T, w)
    BY <1>3, <1>4
<1>7. A (+) B = [w \in In(S) \cup In(T) |-> C(S \cup T, w)]
    BY <1>5, <1>6, Zenon
<1> QED
    BY <1>1, <1>2, <1>7 DEF A, B

\* Every row is on one node.
LEMMA RowFacts ==
    ASSUME NEW t \in Seq(Seq(Symbols))
    PROVE  /\ \A i \in DOMAIN t : NodeOf(i) \in Nodes
           /\ \A m : IsFiniteSet(RowsOn(t, m)) /\ IsFiniteSet(RowsBelow(t, m))
           /\ RowsBelow(t, 0) = {} /\ RowsBelow(t, NumNodes) = DOMAIN t
           /\ \A m \in Nat : /\ RowsBelow(t, m + 1) = RowsBelow(t, m) \cup RowsOn(t, m)
                             /\ RowsBelow(t, m) \cap RowsOn(t, m) = {}
<1>1. NumNodes \in Nat \ {0} /\ SegmentRows \in Nat \ {0}
    BY NumNodesAssumption, SegmentAssumption
<1>2. ASSUME NEW i \in DOMAIN t PROVE NodeOf(i) \in 0 .. NumNodes - 1
    <2>1. i - 1 \in Nat
        OBVIOUS
    <2>2. (i - 1) \div SegmentRows \in Nat
        BY <2>1, <1>1, DivMod
    <2> QED
        BY <2>2, <1>1, DivMod DEF NodeOf
<1>3. ASSUME NEW m PROVE IsFiniteSet(RowsOn(t, m)) /\ IsFiniteSet(RowsBelow(t, m))
    <2>1. DOMAIN t = 1 .. Len(t) /\ Len(t) \in Int /\ 1 \in Int
        OBVIOUS
    <2>2. IsFiniteSet(DOMAIN t)
        BY <2>1, FS_Interval
    <2>3. RowsOn(t, m) \in SUBSET (DOMAIN t) /\ RowsBelow(t, m) \in SUBSET (DOMAIN t)
        BY DEF RowsOn, RowsBelow
    <2> QED
        BY <2>2, <2>3, FS_Subset
<1>4. RowsBelow(t, 0) = {} /\ RowsBelow(t, NumNodes) = DOMAIN t
    <2>1. \A i \in DOMAIN t : ~ (NodeOf(i) < 0) /\ NodeOf(i) < NumNodes
        BY <1>1, <1>2
    <2> QED
        BY <2>1 DEF RowsBelow
<1>5. ASSUME NEW m \in Nat
      PROVE  /\ RowsBelow(t, m + 1) = RowsBelow(t, m) \cup RowsOn(t, m)
             /\ RowsBelow(t, m) \cap RowsOn(t, m) = {}
    BY <1>1, <1>2 DEF RowsBelow, RowsOn
<1> QED
    BY <1>2, <1>3, <1>4, <1>5 DEF Nodes

\* What the variables are.
Stages == {"reading", "count", "merge", "done"}

TypeInv ==
    /\ ReaderTypes
    /\ txt \in Seq(Seq(Symbols))
    /\ at \in [Nodes -> Stages]
    /\ DOMAIN wc = Nodes /\ \A n \in Nodes : IsABag(wc[n])
    /\ IsABag(total)
    /\ merged \in 0 .. NumNodes
    /\ at[0] = "merge" => merged < NumNodes
    /\ at[0] \in {"reading", "count"} => merged = 0

\* txt is the words once they are published, a published count is that of the
\* node's rows, and total is that of the rows of the nodes merged so far.
CountInv ==
    /\ at[0] = "reading" => txt = <<None>>
    /\ at[0] # "reading" => reading = "packed" /\ txt = words
    /\ \A n \in Nodes : \/ wc[n] = SetToBag({None})
                        \/ at[0] # "reading" /\ wc[n] = Tally(txt, RowsOn(txt, n))
    /\ total = Tally(txt, RowsBelow(txt, merged))
    /\ at[0] = "done" => merged = NumNodes

\* What stands for a value that is not published is typed like one.
LEMMA NoneIsAWord == <<None>> \in Seq(Seq(Symbols)) /\ IsABag(SetToBag({None}))
<1>1. None \in Seq(Symbols)
    BY DEF None, Symbols
<1> QED
    BY <1>1 DEF IsABag, SetToBag

\* The sum of two bags is one.
LEMMA SumIsABag ==
    ASSUME NEW A, NEW B, IsABag(A), IsABag(B)
    PROVE  IsABag(A (+) B)
<1> DEFINE D == DOMAIN A \cup DOMAIN B
           v(w) == (IF w \in DOMAIN A THEN A[w] ELSE 0) + (IF w \in DOMAIN B THEN B[w] ELSE 0)
<1>1. \A w \in DOMAIN A : A[w] \in Nat /\ A[w] > 0
    BY DEF IsABag
<1>2. \A w \in DOMAIN B : B[w] \in Nat /\ B[w] > 0
    BY DEF IsABag
<1>3. \A w \in D : v(w) \in {n \in Nat : n > 0}
    BY <1>1, <1>2
<1>4. A (+) B = [w \in D |-> v(w)]
    BY DEF (+)
<1> HIDE DEF D, v
<1> QED
    BY <1>3, <1>4 DEF IsABag

\* DFWordCounter tallies the rows of its node.
LEMMA CountIsTally ==
    ASSUME NEW n
    PROVE  Count(LocalRows(n)) = Tally(txt, RowsOn(txt, n))
BY DEF Count, LocalRows, Tally, RowsOn, NodeOf

\* Init gives the types.
LEMMA TypeInit == Init => TypeInv
<1> SUFFICES ASSUME Init PROVE TypeInv
    OBVIOUS
<1>1. NumNodes \in Nat \ {0}
    BY NumNodesAssumption
<1>2. ReaderTypes /\ txt = <<None>> /\ merged = 0 /\ total = EmptyBag
      /\ wc = [n \in Nodes |-> SetToBag({None})]
      /\ at = [n \in Nodes |-> IF n = 0 THEN "reading" ELSE "count"]
    BY InitReaderTypes DEF Init
<1>3. IsABag(total)
    BY <1>2 DEF IsABag, EmptyBag, SetToBag
<1>4. at \in [Nodes -> Stages] /\ at[0] = "reading"
    BY <1>1, <1>2 DEF Nodes, Stages
<1>5. DOMAIN wc = Nodes /\ \A n \in Nodes : IsABag(wc[n])
    BY <1>2, NoneIsAWord
<1> QED
    BY <1>1, <1>2, <1>3, <1>4, <1>5, NoneIsAWord DEF TypeInv

\* Every step keeps the types.
LEMMA TypeNext == TypeInv /\ [Next]_vars => TypeInv'
<1> SUFFICES ASSUME TypeInv, [Next]_vars PROVE TypeInv'
    OBVIOUS
<1>1. /\ ReaderTypes /\ txt \in Seq(Seq(Symbols)) /\ at \in [Nodes -> Stages]
      /\ DOMAIN wc = Nodes /\ (\A n \in Nodes : IsABag(wc[n])) /\ IsABag(total)
      /\ merged \in 0 .. NumNodes /\ (at[0] = "merge" => merged < NumNodes)
      /\ (at[0] \in {"reading", "count"} => merged = 0)
    BY DEF TypeInv
<1>2. NumNodes \in Nat \ {0} /\ 0 \in Nodes
    BY NumNodesAssumption DEF Nodes
<1>3. CASE ReadText
    <2>1. ReaderTypes'
        BY <1>1, <1>3, ReadTypes DEF ReadText
    <2> QED
        BY <2>1, <1>1, <1>3 DEF TypeInv, ReadText, countVars
<1>4. ASSUME UNCHANGED readerVars PROVE ReaderTypes'
    BY <1>1, <1>4 DEF ReaderTypes, readerVars, FileState
<1>5. CASE StoreText
    <2>1. ReaderTypes'
        BY <1>4, <1>5 DEF StoreText
    <2>2. txt' \in Seq(Seq(Symbols))
        BY <1>1, <1>5 DEF StoreText, ReaderTypes
    <2>3. at' \in [Nodes -> Stages] /\ at'[0] = "count" /\ merged' = 0 /\ merged' = merged
        BY <1>1, <1>2, <1>5 DEF StoreText, Stages
    <2>4. wc' = wc /\ total' = total
        BY <1>5 DEF StoreText
    <2> QED
        BY <2>1, <2>2, <2>3, <2>4, <1>1 DEF TypeInv
<1>6. ASSUME NEW n \in Nodes, LocalCount(n) PROVE TypeInv'
    <2>1. ReaderTypes' /\ txt' = txt /\ total' = total /\ merged' = merged /\ at[n] = "count"
        BY <1>4, <1>6 DEF LocalCount
    <2>2. IsABag(Count(LocalRows(n)))
        BY <1>1, CountIsTally, TallyIsABag, RowFacts
    <2>3. DOMAIN wc' = Nodes /\ \A m \in Nodes : IsABag(wc'[m])
        BY <1>1, <1>6, <2>2 DEF LocalCount
    <2>4. /\ at' \in [Nodes -> Stages]
          /\ n = 0 => at'[0] = "merge" /\ merged = 0
          /\ n # 0 => at'[0] = at[0]
        BY <1>1, <1>2, <1>6 DEF LocalCount, Stages
    <2> QED
        BY <1>1, <1>2, <2>1, <2>3, <2>4 DEF TypeInv
<1>7. CASE MergeCounts
    <2>1. ReaderTypes' /\ txt' = txt /\ wc' = wc /\ merged' = merged + 1 /\ at[0] = "merge"
          /\ total' = total (+) wc[merged]
          /\ at' = IF merged + 1 = NumNodes THEN [at EXCEPT ![0] = "done"] ELSE at
        BY <1>4, <1>7 DEF MergeCounts, Merged
    <2>2. merged \in Nodes /\ merged + 1 \in 0 .. NumNodes
        BY <1>1, <1>2, <2>1 DEF Nodes
    <2>3. IsABag(total')
        BY <1>1, <2>1, <2>2, SumIsABag
    <2>4. at' \in [Nodes -> Stages] /\ at'[0] \in {"merge", "done"}
          /\ (at'[0] = "merge" => merged + 1 # NumNodes)
        BY <1>1, <1>2, <2>1 DEF Stages
    <2>5. at'[0] = "merge" => merged + 1 < NumNodes
        BY <1>2, <2>2, <2>4
    <2> QED
        BY <1>1, <2>1, <2>2, <2>3, <2>4, <2>5 DEF TypeInv
<1>8. CASE UNCHANGED vars
    BY <1>1, <1>4, <1>8 DEF TypeInv, vars, countVars
<1> QED
    BY <1>2, <1>3, <1>5, <1>6, <1>7, <1>8 DEF Next, Main0

\* Nothing is counted at first.
LEMMA CountInit == Init => CountInv
<1> SUFFICES ASSUME Init PROVE CountInv
    OBVIOUS
<1>1. 0 \in Nodes
    BY NumNodesAssumption DEF Nodes
<1>2. at[0] = "reading" /\ txt = <<None>> /\ merged = 0 /\ total = EmptyBag
      /\ \A n \in Nodes : wc[n] = SetToBag({None})
    BY <1>1 DEF Init
<1>3. RowsBelow(txt, 0) = {}
    BY <1>2, NoneIsAWord, RowFacts
<1>4. Tally(txt, {}) = EmptyBag
    BY DEF Tally, EmptyBag, SetToBag
<1> QED
    BY <1>2, <1>3, <1>4 DEF CountInv

\* Every step keeps the counts right: the counts of a node are added once, at its turn.
LEMMA CountNext == TypeInv /\ CountInv /\ [Next]_vars => CountInv'
<1> SUFFICES ASSUME TypeInv, CountInv, [Next]_vars PROVE CountInv'
    OBVIOUS
<1>1. /\ at[0] = "reading" => txt = <<None>>
      /\ at[0] # "reading" => reading = "packed" /\ txt = words
      /\ \A n \in Nodes : \/ wc[n] = SetToBag({None})
                          \/ at[0] # "reading" /\ wc[n] = Tally(txt, RowsOn(txt, n))
      /\ total = Tally(txt, RowsBelow(txt, merged))
      /\ at[0] = "done" => merged = NumNodes
    BY DEF CountInv
<1>2. /\ txt \in Seq(Seq(Symbols)) /\ words \in Seq(Seq(Symbols))
      /\ at \in [Nodes -> Stages] /\ DOMAIN wc = Nodes
      /\ merged \in 0 .. NumNodes /\ (at[0] = "merge" => merged < NumNodes)
      /\ (at[0] \in {"reading", "count"} => merged = 0)
      /\ NumNodes \in Nat \ {0} /\ 0 \in Nodes
    BY NumNodesAssumption DEF TypeInv, ReaderTypes, Nodes
<1>3. CASE ReadText
    <2>1. txt' = txt /\ wc' = wc /\ at' = at /\ total' = total /\ merged' = merged
          /\ at[0] = "reading"
        BY <1>3 DEF ReadText, countVars
    <2> QED
        BY <1>1, <2>1 DEF CountInv
<1>4. CASE StoreText
    <2>1. /\ at[0] = "reading" /\ reading' = "packed" /\ txt' = words /\ words' = words
          /\ at'[0] = "count" /\ wc' = wc /\ total' = total /\ merged' = merged
        BY <1>2, <1>4 DEF StoreText, readerVars
    <2>2. merged = 0 /\ \A n \in Nodes : wc[n] = SetToBag({None})
        BY <1>1, <1>2, <2>1
    <2>3. RowsBelow(txt, 0) = {} /\ RowsBelow(words, 0) = {}
        BY <1>2, RowFacts
    <2>4. Tally(txt, {}) = Tally(words, {})
        BY DEF Tally
    <2> QED
        BY <1>1, <2>1, <2>2, <2>3, <2>4 DEF CountInv
<1>5. ASSUME NEW n \in Nodes, LocalCount(n) PROVE CountInv'
    <2>1. /\ at[n] = "count" /\ txt # <<None>> /\ txt' = txt /\ words' = words
          /\ reading' = reading /\ total' = total /\ merged' = merged
          /\ wc' = [wc EXCEPT ![n] = Count(LocalRows(n))]
          /\ at' = [at EXCEPT ![n] = IF n = 0 THEN "merge" ELSE "done"]
        BY <1>5 DEF LocalCount, readerVars
    <2>2. at[0] # "reading" /\ at'[0] # "reading"
        BY <1>1, <1>2, <2>1
    <2>3. at'[0] = "done" => at[0] = "done"
        BY <1>2, <2>1
    <2>4. \A m \in Nodes : wc'[m] = IF m = n THEN Tally(txt, RowsOn(txt, n)) ELSE wc[m]
        BY <1>2, <2>1, CountIsTally
    <2> QED
        BY <1>1, <2>1, <2>2, <2>3, <2>4 DEF CountInv
<1>6. CASE MergeCounts
    <2>1. /\ at[0] = "merge" /\ wc[merged] # SetToBag({None}) /\ txt' = txt /\ words' = words
          /\ reading' = reading /\ wc' = wc /\ merged' = merged + 1
          /\ total' = total (+) wc[merged]
          /\ at' = IF merged + 1 = NumNodes THEN [at EXCEPT ![0] = "done"] ELSE at
        BY <1>6 DEF MergeCounts, Merged, readerVars
    <2>2. merged \in Nodes /\ merged \in Nat
        BY <1>2, <2>1 DEF Nodes
    <2>3. wc[merged] = Tally(txt, RowsOn(txt, merged))
        BY <1>1, <2>1, <2>2
    <2>4. /\ RowsBelow(txt, merged + 1) = RowsBelow(txt, merged) \cup RowsOn(txt, merged)
          /\ RowsBelow(txt, merged) \cap RowsOn(txt, merged) = {}
          /\ IsFiniteSet(RowsOn(txt, merged)) /\ IsFiniteSet(RowsBelow(txt, merged))
        BY <1>2, <2>2, RowFacts
    <2>5. total' = Tally(txt, RowsBelow(txt, merged + 1))
        BY <1>1, <2>1, <2>3, <2>4, TallyUnion
    <2>6. at'[0] # "reading" /\ (at'[0] = "done" => merged + 1 = NumNodes)
        BY <1>2, <2>1
    <2> QED
        BY <1>1, <2>1, <2>5, <2>6 DEF CountInv
<1>7. CASE UNCHANGED vars
    BY <1>1, <1>7 DEF CountInv, vars, countVars, readerVars
<1> QED
    BY <1>2, <1>3, <1>4, <1>5, <1>6, <1>7 DEF Next, Main0
-----------------------------------------------------------------------------
\* The invariants of the runs.

\* Every variable keeps its type: in particular all counts are bags, whose
\* words have positive counts, and no reading leaves the file or the buffer.
THEOREM TypeCorrect == Spec => []TypeOK
<1>1. TypeInv => TypeOK
    <2> SUFFICES ASSUME TypeInv PROVE TypeOK
        OBVIOUS
    <2>1. fr \in FileState
        BY DEF TypeInv, ReaderTypes
    <2>2. /\ fr.i \in Nat /\ fr.end \in 0 .. BUFSIZE /\ fr.pos \in 0 .. Len(text)
          /\ DOMAIN fr.buf = Cells /\ fr.feof \in BOOLEAN
        BY <2>1 DEF FileState
    <2>3. /\ wStart \in Nat
          /\ reading \in {"skip", "check", "word", "packed", "overrun", "assertion"}
        BY DEF TypeInv, ReaderTypes
    <2> QED
        BY <2>2, <2>3 DEF TypeInv, TypeOK, Stages
<1>2. QED
    BY <1>1, TypeInit, TypeNext, PTL DEF Spec

\* Whatever the right scan of the text is, the reader has done a part of it.
FollowsScan == \A f : Right(f) => ReaderInv(f)

\* The reader has scanned nothing at first.
LEMMA FollowsScanInit == Init => FollowsScan
BY InitReaderInv DEF Init, FollowsScan

\* Every step scans on.
LEMMA FollowsScanNext == TypeInv /\ FollowsScan /\ [Next]_vars => FollowsScan'
<1> SUFFICES ASSUME TypeInv, FollowsScan, [Next]_vars PROVE FollowsScan'
    OBVIOUS
<1>1. ReaderTypes
    BY DEF TypeInv
<1>2. text' = text
    BY DEF Next, Main0, ReadText, Read, SkipWhitespace, Check, Visit, StoreText, LocalCount,
           MergeCounts, readerVars, vars
<1>3. SUFFICES ASSUME NEW f, Right(f), ReaderInv(f) PROVE ReaderInv(f)'
    BY <1>2 DEF FollowsScan, Right
<1>4. CASE Read
    BY <1>1, <1>3, <1>4, SkipInv, CheckInv, VisitInv DEF Read
<1>5. CASE UNCHANGED readerVars
    BY <1>3, <1>5 DEF ReaderInv, readerVars
<1> QED
    BY <1>4, <1>5 DEF Next, Main0, ReadText, StoreText, LocalCount, MergeCounts, vars

\* Both are invariants.
LEMMA ReaderSpec == Spec => [](TypeInv /\ FollowsScan)
BY TypeInit, TypeNext, FollowsScanInit, FollowsScanNext, PTL DEF Spec

\* A text has a scan.
LEMMA WellFormedFollows ==
    ASSUME TypeInv, FollowsScan, WellFormed(text)
    PROVE  \E f : Right(f) /\ ReaderInv(f)
<1>1. text \in Texts /\ text \in Seq(Symbols)
    BY TextFacts DEF TypeInv, ReaderTypes
<1>2. PICK f : Scans(f, text)
    BY <1>1, ScansExist
<1> QED
    BY <1>1, <1>2 DEF FollowsScan, Right

\* The reader makes the words of the file, each once and whole, and on the way
\* never looks past its array and never fails an assertion.
THEOREM WordsFound == Spec => []WordsRead
<1>1. TypeInv /\ FollowsScan => WordsRead
    <2> SUFFICES ASSUME TypeInv, FollowsScan, WellFormed(text)
                 PROVE  /\ reading \notin {"overrun", "assertion"}
                        /\ reading = "packed" => words = WordsOf(text)
        BY DEF WordsRead
    <2>1. PICK f : Right(f) /\ ReaderInv(f)
        BY WellFormedFollows
    <2> QED
        BY <2>1 DEF Right, Scans, ReaderInv
<1>2. QED
    BY <1>1, ReaderSpec, PTL

\* What node 0 prints is how often each word is in the file.
THEOREM CountsRight == Spec => []TotalCounts
<1>1. TypeInv /\ FollowsScan /\ CountInv => TotalCounts
    <2> SUFFICES ASSUME TypeInv, FollowsScan, CountInv, at[0] = "done", WellFormed(text)
                 PROVE  total = [w \in Range(WordsOf(text)) |->
                            Cardinality({i \in DOMAIN WordsOf(text) : WordsOf(text)[i] = w})]
        BY DEF TotalCounts
    <2>1. PICK f : Right(f) /\ ReaderInv(f)
        BY WellFormedFollows
    <2>2. reading = "packed" /\ txt = words /\ merged = NumNodes
        BY DEF CountInv
    <2>3. txt = WordsOf(text)
        BY <2>1, <2>2 DEF Right, Scans, ReaderInv
    <2>4. RowsBelow(txt, merged) = DOMAIN txt
        BY <2>2, RowFacts DEF TypeInv
    <2>5. total = Tally(txt, DOMAIN txt)
        BY <2>4 DEF CountInv
    <2> QED
        BY <2>3, <2>5 DEF Tally, Range
<1>2. QED
    BY <1>1, ReaderSpec, CountInit, CountNext, PTL DEF Spec
=============================================================================

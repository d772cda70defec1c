----------------------------- MODULE FileReader -----------------------------
(***************************************************************************)
(* FileReader of the WordCount application (word_count_app.cpp:56-118): it *)
(* cuts a file into words through a buffer of BUFSIZE characters that it   *)
(* refills while it skips whitespace or is in the middle of a word.  The   *)
(* loops of visit and skipWhitespace_ are steps of the model, one for each *)
(* character, so that a loop that leaves the buffer can be seen to do so.  *)
(***************************************************************************)
EXTENDS Integers, Sequences, SequencesExt

CONSTANTS
    BUFSIZE,    \* 1024 in the code
    Texts       \* the files considered: sequences of characters

Space == " "
Nul   == "0"    \* the character that ends a C string

ASSUME BufsizeAssumption == BUFSIZE \in Nat \ {0}
ASSUME TextsAssumption   == \A t \in Texts : t \in Seq(STRING) /\ Nul \notin Range(t)

VARIABLES
    text,       \* the contents of file_
    fr,         \* buf_, i_, end_; the position and the end-of-file mark of file_
    wStart,     \* where the word being read starts
    reading,    \* where the application is in the loop of from_visitor
    words       \* the rows visit has made

readerVars == <<text, fr, wStart, reading, words>>

Cells == 0 .. BUFSIZE        \* buf_ has one cell more than is read at a time

-----------------------------------------------------------------------------
FRInit ==
    /\ text \in Texts
    /\ fr = [buf |-> [c \in Cells |-> Nul], i |-> 0, end |-> 0, pos |-> 0, feof |-> FALSE]
    /\ wStart = 0
    /\ reading = "skip"      \* the constructor: fillBuffer_ and skipWhitespace_
    /\ words = <<>>

\* Faulty: what is not processed yet is not moved to the front of the buffer.
FillBufferForgets(r) ==
    LET start == IF r.i # r.end THEN r.end - r.i ELSE 0
        asked == BUFSIZE - start
        got   == Min({asked, Len(text) - r.pos})
    IN  [buf  |-> [c \in Cells |-> IF c \in start .. start + got - 1
                                   THEN text[r.pos + c - start + 1] ELSE r.buf[c]],
         i    |-> start,
         end  |-> start + got,
         pos  |-> r.pos + got,
         feof |-> r.feof \/ got < asked]

\* fillBuffer_: move what is not processed to the front and read more.  fread
\* finds the end of the file only when it is asked for more than there is.
FillBuffer(r) ==
    LET start == IF r.i # r.end THEN r.end - r.i ELSE 0
        asked == BUFSIZE - start
        got   == Min({asked, Len(text) - r.pos})
    IN  [buf  |-> [c \in Cells |-> CASE c < start -> r.buf[r.i + c]
                                     [] c \in start .. start + got - 1 ->
                                            text[r.pos + c - start + 1]
                                     [] OTHER -> r.buf[c]],
         i    |-> start,
         end  |-> start + got,
         pos  |-> r.pos + got,
         feof |-> r.feof \/ got < asked]

\* One iteration of skipWhitespace_.  An index past the buffer ends the model:
\* what is read there is not the program's to say.
SkipWhitespace ==
    /\ reading = "skip"
    /\ LET r == IF fr.i = fr.end /\ ~ fr.feof THEN FillBuffer(fr) ELSE fr
       IN  \/ /\ fr.i = fr.end /\ fr.feof
              /\ reading' = "check" /\ UNCHANGED fr
           \/ /\ ~ (fr.i = fr.end /\ fr.feof) /\ r.i \in Cells
              /\ IF r.buf[r.i] = Space
                 THEN fr' = [r EXCEPT !.i = @ + 1] /\ UNCHANGED reading
                 ELSE fr' = r /\ reading' = "check"
           \/ /\ r.i \notin Cells
              /\ reading' = "overrun" /\ fr' = r
    /\ UNCHANGED <<text, wStart, words>>

\* Faulty: there is nothing more only when i_ is exactly at the end.
CheckExactEnd ==
    /\ reading = "check"
    /\ reading' = CASE fr.i = fr.end /\ fr.feof -> "packed"
                    [] fr.i < fr.end /\ fr.buf[fr.i] # Space -> "word"
                    [] OTHER -> "assertion"
    /\ wStart' = fr.i
    /\ UNCHANGED <<text, fr, words>>

\* done, and the start of visit with its assertions.
Check ==
    /\ reading = "check"
    /\ reading' = CASE fr.i >= fr.end /\ fr.feof -> "packed"
                    [] fr.i < fr.end /\ fr.buf[fr.i] # Space -> "word"
                    [] OTHER -> "assertion"
    /\ wStart' = fr.i
    /\ UNCHANGED <<text, fr, words>>

\* What a String made of n characters from cell s on is when it is compared:
\* strcmp stops at the first Nul.
CString(buf, s, n) ==
    LET len == Min({n} \cup {k \in 0 .. n - 1 : buf[s + k] = Nul})
    IN  [k \in 1 .. len |-> buf[s + k - 1]]

\* One iteration of the loop of visit and, at the end of the word, the rest of
\* visit up to its skipWhitespace_.
Visit ==
    /\ reading = "word"
    /\ LET refill == fr.i = fr.end /\ ~ fr.feof
           last   == fr.i = fr.end /\ fr.feof
           r      == IF refill THEN FillBuffer([fr EXCEPT !.i = wStart]) ELSE fr
           start  == IF refill THEN 0 ELSE wStart
           stop   == IF last THEN fr.i + 1 ELSE r.i
       IN  IF stop \notin Cells
           THEN reading' = "overrun" /\ fr' = r /\ UNCHANGED <<wStart, words>>
           ELSE IF last \/ r.buf[stop] = Space
           THEN /\ words' = Append(words, CString(r.buf, start, stop - start))
                /\ fr' = [r EXCEPT !.buf[stop] = Nul, !.i = stop + 1]
                /\ reading' = "skip"
                /\ UNCHANGED wStart
           ELSE /\ fr' = [r EXCEPT !.i = @ + 1]
                /\ wStart' = start
                /\ UNCHANGED <<reading, words>>
    /\ UNCHANGED text

Read == SkipWhitespace \/ Check \/ Visit

-----------------------------------------------------------------------------
\* The reference: the words of a text, one character after the other.
Scan(acc, c) ==
    IF c # Space THEN [acc EXCEPT !.word = Append(@, c)]
    ELSE [words |-> IF acc.word = <<>> THEN acc.words ELSE Append(acc.words, acc.word),
          word  |-> <<>>]

WordsOf(t) == FoldLeft(Scan, [words |-> <<>>, word |-> <<>>], Append(t, Space)).words

\* The files FileReader is right about: their words fit the buffer with the
\* character that ends them, and a file of BUFSIZE - 1 characters or more ends
\* in whitespace.
WellFormed(t) ==
    /\ \A i \in DOMAIN WordsOf(t) : Len(WordsOf(t)[i]) < BUFSIZE
    /\ Len(t) >= BUFSIZE - 1 => t[Len(t)] = Space

\* Every word of the file becomes a row, whole and once, wherever the fillings
\* of the buffer cut it (word_count_app.h:60-61, "While reading the word, we may
\* have to re-fill the buffer").  On the way the loops of skipWhitespace_ and
\* visit, which test i_ == end_ and not i_ >= end_, do not leave the array, and
\* visit finds a word where done promised one (word_count_app.cpp:67-68).
WordsRead ==
    WellFormed(text) =>
        /\ reading \notin {"overrun", "assertion"}
        /\ reading = "packed" => words = WordsOf(text)
=============================================================================

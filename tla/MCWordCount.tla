----------------------------- MODULE MCWordCount -----------------------------
(* All files of at most 7 characters, letters a and b and whitespace, read   *)
(* through a buffer of 4: up to two refillings, in a word, between words and *)
(* at the very end.                                                          *)
EXTENDS WordCount

MCTexts == BoundedSeq({"a", "b", " "}, 7)
=============================================================================

-------------------------------- MODULE Text --------------------------------
(***************************************************************************)
(* Texts as sequences of characters, and boost::split as the program calls *)
(* it, with token_compress_on.                                             *)
(***************************************************************************)
EXTENDS Naturals, Sequences

\* A run of separators is one, but one at either end still has an empty word
\* before or behind it.
Split(s, sep) ==
  LET from[i \in 1..Len(s) + 1] ==
        IF i > Len(s) THEN <<<<>>>>
        ELSE IF s[i] # sep THEN [from[i + 1] EXCEPT ![1] = <<s[i]>> \o @]
        ELSE IF i < Len(s) /\ s[i + 1] = sep THEN from[i + 1]
        ELSE <<<<>>>> \o from[i + 1]
  IN from[1]

Digits == <<"0", "1", "2", "3", "4", "5", "6", "7", "8", "9">>
IsDigit(c) == \E d \in DOMAIN Digits : Digits[d] = c
=============================================================================

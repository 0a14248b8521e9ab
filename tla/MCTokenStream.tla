--------------------------- MODULE MCTokenStream ---------------------------
(***************************************************************************)
(* Small texts for TokenStream: at most MaxWords numbers out of Values,    *)
(* one or two blanks before each, a few after the last.                    *)
(***************************************************************************)
EXTENDS TokenStream

CONSTANTS MaxWords, Values, Gaps, Trailing

Digits(v) == IF v < 10 THEN 1 ELSE IF v < 100 THEN 2 ELSE 3

Empty == [words |-> << >>, n_chars |-> 0]

(* One more number, gap blanks after what is there.                        *)
AddWord(text0, value, gap) ==
  LET end == text0.n_chars + gap + Digits(value)
  IN  [words   |-> Append(text0.words,
                          [value |-> value, start |-> end - Digits(value), end |-> end]),
       n_chars |-> end]

(* The texts of n numbers and nothing after the last.  The gap before the  *)
(* first number is one less: a text may begin with its number.             *)
TextsOf[n \in 1..MaxWords] ==
  IF n = 1
  THEN { AddWord(Empty, value, gap - 1) : value \in Values, gap \in Gaps }
  ELSE { AddWord(text0, value, gap) : text0 \in TextsOf[n - 1], value \in Values, gap \in Gaps }

SmallTexts ==
  { [text0 EXCEPT !.n_chars = @ + trailing] :
      text0 \in UNION { TextsOf[n] : n \in 1..MaxWords }, trailing \in Trailing }
=============================================================================

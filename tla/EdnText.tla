------------------------------ MODULE EdnText ------------------------------
(***************************************************************************)
(* How edn_do_xstring of decode_edn.h prints the content of a text string:  *)
(* "..." with escapes, and the parts that are not text as h'...' between.   *)
(***************************************************************************)
EXTENDS Utf8

\* A symbol of the output: a byte in hexadecimal, a character as it is
\* (its bytes), an escape for a byte, \uXXXX for a code point, or a switch
\* between the two notations.
Hex(b) == [k |-> "hex", v |-> b]
Esc(b) == [k |-> "esc", v |-> b]
Unicode(cp) == [k |-> "u", v |-> cp]
Raw(bytes) == [k |-> "raw", v |-> bytes]
ToBstr == [k |-> "to_bstr", v |-> 0]
ToTstr == [k |-> "to_tstr", v |-> 0]

IsAsciiCntl(b) == b < 32 \/ b = 127
\* \ " \t \r \f \n \b
Escaped == {92, 34, 9, 13, 12, 10, 8}
\* C1 controls, bidirectional marks, line and paragraph separators
IsHidden(cp) ==
  \/ cp \in 128..159 \/ cp \in {8206, 8207} \/ cp \in 8234..8238 \/ cp \in 8294..8297
  \/ cp \in {8232, 8233} \/ cp = 1564

\* One turn of the loop at place i: the place after it, whether it ends in
\* "..." notation, and what it prints.
Turn(i, in_text, out) == [next |-> i, in_text |-> in_text, out |-> out]

\* Mutant: the notation is not switched back.
Bug_AsText(in_text, i, symbol) == Turn(i, in_text, <<symbol>>)

AsText(in_text, i, symbol) ==
  Turn(i, TRUE, (IF in_text THEN << >> ELSE <<ToTstr>>) \o <<symbol>>)

\* The place after the invalid bytes at i: lead bytes that follow count.
InvalidEnd(str, i) ==
  CHOOSE j \in (i + 1)..(Len(str) + 1) :
    /\ \A k \in (i + 1)..(j - 1) : str[k] >= 192
    /\ j <= Len(str) => str[j] < 192

TextTurn(str, i, in_text) ==
  LET b == str[i]
      char == cbor_next_utf8(str, i)
      end == InvalidEnd(str, i)
  IN  CASE ~in_text /\ IsAsciiCntl(b) -> Turn(i + 1, FALSE, <<Hex(b)>>)
        [] b \in Escaped /\ (in_text \/ ~IsAsciiCntl(b)) -> AsText(in_text, i + 1, Esc(b))
        [] in_text /\ IsAsciiCntl(b) /\ b \notin Escaped ->
             IF i < Len(str) /\ IsAsciiCntl(str[i + 1]) THEN Turn(i, FALSE, <<ToBstr>>)
             ELSE AsText(TRUE, i + 1, Unicode(b))
        [] OTHER ->
             IF char = NoChar
             THEN Turn(end, FALSE, (IF in_text THEN <<ToBstr>> ELSE << >>)
                                   \o [k \in 1..(end - i) |-> Hex(str[i + k - 1])])
             ELSE AsText(in_text, char.next,
                         IF IsHidden(char.cp) THEN Unicode(char.cp)
                         ELSE Raw(SubSeq(str, i, char.next - 1)))

\* The whole text, between the opening and the closing mark.  A place is
\* visited at most twice.
edn_text(str) ==
  LET from[n \in 0..(2 * Len(str) + 1)] ==
        IF n = 0 THEN Turn(1, TRUE, << >>)
        ELSE LET prev == from[n - 1]
                 turn == TextTurn(str, prev.next, prev.in_text)
             IN  IF prev.next > Len(str) THEN prev
                 ELSE [turn EXCEPT !.out = prev.out \o @]
  IN  from[2 * Len(str) + 1]

=============================================================================

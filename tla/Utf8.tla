-------------------------------- MODULE Utf8 --------------------------------
(***************************************************************************)
(* utf8.c: the automaton that checks text strings and splits them into      *)
(* characters.  A string is a sequence of bytes, numbers below 256.         *)
(***************************************************************************)
EXTENDS Integers, Sequences

ACCEPT == 0
REJECT == 12

\* Mutant: the lead byte of the surrogates is taken for an ordinary one.
Bug_Type(b) ==
  CASE b \in 0..127 -> 0
    [] b \in 128..143 -> 1 [] b \in 144..159 -> 9 [] b \in 160..191 -> 7
    [] b \in 194..223 -> 2
    [] b = 224 -> 10 [] b \in 225..239 -> 3
    [] b = 240 -> 11 [] b \in 241..243 -> 6 [] b = 244 -> 5
    [] OTHER -> 8

\* The first part of the table utf8d: the class of a byte.
Type(b) ==
  CASE b \in 0..127 -> 0
    [] b \in 128..143 -> 1 [] b \in 144..159 -> 9 [] b \in 160..191 -> 7
    [] b \in 194..223 -> 2
    [] b = 224 -> 10 [] b = 237 -> 4 [] b \in (225..239) \ {237} -> 3
    [] b = 240 -> 11 [] b \in 241..243 -> 6 [] b = 244 -> 5
    [] OTHER -> 8

\* The second part: the state that a class leads to.
Transition(state, type) ==
  CASE state = 0 /\ type = 0 -> 0
    [] state = 0 /\ type = 2 -> 24
    [] state = 0 /\ type = 3 -> 36
    [] state = 0 /\ type = 4 -> 60
    [] state = 0 /\ type = 5 -> 96
    [] state = 0 /\ type = 6 -> 84
    [] state = 0 /\ type = 10 -> 48
    [] state = 0 /\ type = 11 -> 72
    [] state = 24 /\ type \in {1, 7, 9} -> 0
    [] state = 36 /\ type \in {1, 7, 9} -> 24
    [] state = 48 /\ type = 7 -> 24
    [] state = 60 /\ type \in {1, 9} -> 24
    [] state = 72 /\ type \in {7, 9} -> 36
    [] state = 84 /\ type \in {1, 7, 9} -> 36
    [] state = 96 /\ type = 1 -> 36
    [] OTHER -> REJECT

\* The loop over the bytes does not stop at an error: rejecting is final.
cbor_is_utf8(str) ==
  LET state[i \in 0..Len(str)] ==
        IF i = 0 THEN ACCEPT ELSE Transition(state[i - 1], Type(str[i]))
  IN  state[Len(str)] = ACCEPT

\* The character at place i: its code point and the place after it, or
\* NoChar (the code returns 0xffffffff and leaves the place as it is).
NoChar == [cp |-> -1, next |-> 0]

cbor_next_utf8(str, i) ==
  LET run[j \in (i - 1)..Len(str)] ==
        IF j = i - 1 THEN [state |-> ACCEPT, cp |-> 0]
        ELSE LET prev == run[j - 1]
                 type == Type(str[j])
             IN  [ state |-> Transition(prev.state, type),
                   cp |-> IF j > i THEN prev.cp * 64 + (str[j] % 64) ELSE str[j] % (255 \div 2^type + 1) ]
      ends == {j \in i..Len(str) : run[j].state = ACCEPT /\ \A k \in i..(j - 1) : run[k].state # ACCEPT}
  IN  IF ends = {} THEN NoChar
      ELSE LET j == CHOOSE j \in ends : TRUE IN [cp |-> run[j].cp, next |-> j + 1]

=============================================================================

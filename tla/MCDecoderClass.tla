--------------------------- MODULE MCDecoderClass ---------------------------
(***************************************************************************)
(* DecoderClass on short strings.                                           *)
(***************************************************************************)
EXTENDS DecoderClass, TLC

MCInputs == { <<"tag", "head">>, <<"rejected", "reserved">> }

Length(n) == [null |-> FALSE, n |-> n]
NullLength == [null |-> TRUE, n |-> 0]
MCOffsets == {-1, 0}
MCLengths == {NullLength, Length(-1), Length(0), Length(1)}

\* With CBOR_EDN there is no exception for data errors; the error is printed in
\* the decoded string instead.
EdnDoesNotThrow == data.failed => ~exception.thrown

\* Strings are told apart by their use only.
Symmetry == Permutations(StrIds \ {EmptyStr})

=============================================================================

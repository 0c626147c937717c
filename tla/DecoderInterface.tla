-------------------------- MODULE DecoderInterface --------------------------
(***************************************************************************)
(* What the users of Cbor\Decoder see: the byte strings they pass, the data  *)
(* items they get, and what decoding a run of bytes comes to.  No state.    *)
(***************************************************************************)
EXTENDS Integers, Sequences, FiniteSets

CONSTANTS
  Inputs,       \* the byte strings a user has
  Offsets,      \* arguments $offset of add()
  AddLengths,   \* arguments $length of add()
  EdnModes      \* whether CBOR_EDN is among the flags

(* Bytes, as far as the ends of data items are concerned:                   *)
(*   tag       the head of a tag: one more item follows and belongs to it   *)
(*   scalar    a whole item                                                 *)
(*   head      the first of the two bytes of an item                        *)
(*   rejected  an item that a callback rejects                              *)
(*   reserved  not the head of an item                                      *)
(*   junk      memory that was allocated and not written                    *)
DataByte == {"tag", "scalar", "head", "rejected", "reserved"}
Byte == DataByte \cup {"junk"}

LengthArg == [null : BOOLEAN, n : Int]

ASSUME InputsAssumption == Inputs \subseteq Seq(DataByte)
ASSUME AddAssumption == Offsets \subseteq Int /\ AddLengths \subseteq LengthArg
ASSUME EdnModesAssumption == EdnModes \subseteq BOOLEAN

\* cbor_decode_process on unread bytes, as DecodeZv has it in detail: n of
\* them are used up, after the leading tags those of the item they belong to.
\* The head of an item is not, unless all of it is there.
Outcome(bytes) ==
  LET tags == Cardinality({i \in DOMAIN bytes : \A j \in 1..i : bytes[j] = "tag"})
      first == bytes[tags + 1]
  IN  IF tags = Len(bytes) THEN [n |-> tags, error |-> "truncated"]
      ELSE IF first = "scalar" THEN [n |-> tags + 1, error |-> "none"]
      ELSE IF first = "head" /\ tags + 1 < Len(bytes) THEN [n |-> tags + 2, error |-> "none"]
      ELSE IF first = "head" THEN [n |-> tags, error |-> "truncated"]
      ELSE IF first = "rejected" THEN [n |-> tags + 1, error |-> "rejected"]
      ELSE [n |-> tags, error |-> "malformed"]

(* base->args as far as it matters here, an incomplete data item (edn: it was  *)
(* begun with CBOR_EDN), a decoded one (failed: CBOR_EDN, with an error in     *)
(* it), and the exception of a call with the offset it tells.                *)
DecodeArgs == [edn : BOOLEAN, error_offset : Nat]
PartialItem == [open : BOOLEAN, edn : BOOLEAN, bytes : Seq(Byte)]
DecodedItem == [ready : BOOLEAN, bytes : Seq(Byte), failed : BOOLEAN]
Exception == [thrown : BOOLEAN, at : Nat]

NoItem == [open |-> FALSE, edn |-> FALSE, bytes |-> << >>]
NoData == [ready |-> FALSE, bytes |-> << >>, failed |-> FALSE]
NoException == [thrown |-> FALSE, at |-> 0]

=============================================================================

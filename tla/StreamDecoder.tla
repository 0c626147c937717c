--------------------------- MODULE StreamDecoder ---------------------------
(***************************************************************************)
(* What Cbor\Decoder promises, without buffers: the bytes that were added    *)
(* form one stream, process() takes the next data item off it, or as much    *)
(* of one as there is, and in which pieces the bytes came, who else holds    *)
(* the strings and what becomes of them makes no difference.  hasValue()    *)
(* and process() return data.ready, isPartial() returns item.open and       *)
(* getBuffer() returns stream.                                              *)
(***************************************************************************)
EXTENDS DecoderInterface

VARIABLES
  args,     \* whether CBOR_EDN is among the flags, and the last error's offset
  stream,   \* the bytes that were added and not processed
  taken,    \* the number of bytes processed since the last reset()
  item,     \* the incomplete data item
  data,     \* the decoded data item
  exception \* what the last call threw

vars == <<args, stream, taken, item, data, exception>>

Clamp(n, top) == IF n < 0 THEN 0 ELSE IF n > top THEN top ELSE n

\* substr() of PHP
Substr(s, off, len) ==
  LET from == Clamp(IF off < 0 THEN off + Len(s) ELSE off, Len(s))
      to == IF len.null THEN Len(s)
            ELSE IF len.n < 0 THEN (IF Len(s) + len.n < from THEN from ELSE Len(s) + len.n)
            ELSE Clamp(from + len.n, Len(s))
  IN  SubSeq(s, from + 1, to)

Init ==
  /\ \E edn \in EdnModes : args = [edn |-> edn, error_offset |-> 0]
  /\ stream = << >>
  /\ taken = 0
  /\ item = NoItem
  /\ data = NoData
  /\ exception = NoException

Add(s, off, len) ==
  /\ stream' = stream \o Substr(s, off, len)
  /\ exception' = NoException
  /\ UNCHANGED <<args, taken, item, data>>

\* An exception tells how many bytes there were before the item it is about.
\* With CBOR_EDN it tells what the exception before it did.
Process ==
  LET o == Outcome(stream)
      bytes == item.bytes \o SubSeq(stream, 1, o.n)
      edn == IF item.open THEN item.edn ELSE args.edn
      isError == o.error \notin {"none", "truncated"}
  IN  \/ /\ stream = << >>
         /\ data' = NoData
         /\ exception' = NoException
         /\ UNCHANGED <<args, stream, taken, item>>
      \/ /\ stream # << >>
         /\ stream' = SubSeq(stream, o.n + 1, Len(stream))
         /\ taken' = taken + o.n
         /\ item' = IF o.error = "truncated" THEN [open |-> TRUE, edn |-> edn, bytes |-> bytes] ELSE NoItem
         /\ data' = IF o.error = "none" \/ (isError /\ edn)
                    THEN [ready |-> TRUE, bytes |-> bytes, failed |-> isError]
                    ELSE NoData
         /\ args' = [ edn |-> args.edn,
                      error_offset |-> IF isError /\ ~edn THEN taken + o.n ELSE args.error_offset ]
         /\ exception' = IF isError THEN [thrown |-> TRUE, at |-> args'.error_offset] ELSE NoException

Reset ==
  /\ stream' = << >>
  /\ taken' = 0
  /\ item' = NoItem
  /\ data' = NoData
  /\ exception' = NoException
  /\ UNCHANGED args

\* The constructor on a decoder in use: what is decoded already stays.
Construct(edn, fails) ==
  /\ args' = [edn |-> edn, error_offset |-> args.error_offset]
  /\ exception' = IF fails THEN [thrown |-> TRUE, at |-> 0] ELSE NoException
  /\ UNCHANGED <<stream, taken, item, data>>

\* Another decoder takes the place of this one.
New(edn) ==
  /\ args' = [edn |-> edn, error_offset |-> 0]
  /\ stream' = << >>
  /\ taken' = 0
  /\ item' = NoItem
  /\ data' = NoData
  /\ exception' = NoException

\* getValue() returns data, if there is any.
GetValue(clear) ==
  /\ data.ready
  /\ data' = IF clear THEN NoData ELSE data
  /\ exception' = NoException
  /\ UNCHANGED <<args, stream, taken, item>>

Next ==
  \/ \E s \in Inputs, off \in Offsets, len \in AddLengths : Add(s, off, len)
  \/ Process
  \/ Reset
  \/ \E clear \in BOOLEAN : GetValue(clear)
  \/ \E edn \in EdnModes, fails \in BOOLEAN : Construct(edn, fails)
  \/ \E edn \in EdnModes : New(edn)

Spec == Init /\ [][Next]_vars

=============================================================================

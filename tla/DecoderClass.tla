---------------------------- MODULE DecoderClass ----------------------------
(***************************************************************************)
(* Cbor\Decoder of decoder.c: the buffer between add() and process().  The   *)
(* buffer is a reference-counted PHP string that may be the very string the  *)
(* user passed, and is written in place once nobody else holds it.           *)
(***************************************************************************)
EXTENDS DecoderInterface

CONSTANTS
  StrIds,      \* bound: the strings there can be at a time
  EmptyStr,    \* zend_empty_string, one of them
  ShrinkAt,    \* 512 * 1024
  MaxTotal     \* bound: bytes that are fed between two resets

ASSUME StrAssumption == EmptyStr \in StrIds
ASSUME SizeAssumption == ShrinkAt \in Nat /\ MaxTotal \in Nat

VARIABLES
  args,                    \* base->args: flags & CBOR_EDN and error_args.offset
  str,                     \* the strings: ZSTR_VAL, GC_REFCOUNT, ZSTR_IS_INTERNED
  held,                    \* the strings that variables of the user hold
  buffer,                  \* base->buffer
  base, offset, length,    \* base->mem
  ctx,                     \* base->ctx with what it has consumed
  data,                    \* base->data
  exception                \* what the last method threw

memVars == <<str, buffer, base, offset, length>>
vars == <<args, memVars, held, ctx, data, exception>>

ZendString == [val : Seq(Byte), rc : Nat, interned : BOOLEAN]
NoString == [val |-> << >>, rc |-> 0, interned |-> FALSE]

-----------------------------------------------------------------------------
(* Strings of PHP.                                                          *)

\* Memory to allocate a string in
FreeIds == {i \in StrIds : ~str[i].interned /\ str[i].rc = 0}

\* zend_string_addref
AddRef(strs, i) ==
  IF strs[i].interned THEN strs ELSE [strs EXCEPT ![i].rc = @ + 1]

\* zend_string_release: the last holder frees the string.
Release(strs, i) ==
  IF strs[i].interned THEN strs
  ELSE IF strs[i].rc = 1 THEN [strs EXCEPT ![i] = NoString]
  ELSE [strs EXCEPT ![i].rc = @ - 1]

Junk(n) == [i \in 1..n |-> "junk"]

-----------------------------------------------------------------------------
(* The buffer.  The operations on it work on the record m of str and mem.   *)

Mem == [str |-> str, buffer |-> buffer, base |-> base, offset |-> offset, length |-> length]

SetMem(m) ==
  /\ str' = m.str
  /\ buffer' = m.buffer
  /\ base' = m.base
  /\ offset' = m.offset
  /\ length' = m.length

Val(m) == m.str[m.buffer].val

\* The bytes that are added and not processed
Unread(m) == SubSeq(Val(m), m.offset + 1, m.length)

\* Mutant: a string the user holds is taken for one of the decoder's own.
Bug_IsOwned(m) == ~m.str[m.buffer].interned

\* IS_STR_OWNED(base->buffer)
IsOwned(m) == ~m.str[m.buffer].interned /\ m.str[m.buffer].rc <= 1

\* The contents of the buffer are changed in place.
Rewrite(m, val, newBase, newOffset, newLength) ==
  [ str |-> [m.str EXCEPT ![m.buffer] = [@ EXCEPT !.val = val]], buffer |-> m.buffer,
    base |-> newBase, offset |-> newOffset, length |-> newLength ]

\* Mutant: mem.base is not advanced.
Bug_reset_buffer_offset(m) ==
  LET n == m.length - m.offset
      val == [i \in DOMAIN Val(m) |-> IF i <= n THEN Val(m)[i + m.offset] ELSE Val(m)[i]]
  IN  IF m.offset = 0 THEN m
      ELSE Rewrite(m, val, m.base, 0, n)

\* The unread bytes are moved to the front; what is behind them stays.
reset_buffer_offset(m) ==
  LET n == m.length - m.offset
      val == [i \in DOMAIN Val(m) |-> IF i <= n THEN Val(m)[i + m.offset] ELSE Val(m)[i]]
  IN  IF m.offset = 0 THEN m
      ELSE Rewrite(m, val, m.base + m.offset, 0, n)

\* The buffer is shared: the unread bytes are copied to string i, with room
\* for n more, and the shared string is released.
Separate(m, i, n) ==
  LET new == [val |-> Unread(m) \o Junk(n), rc |-> 1, interned |-> FALSE]
  IN  [ str |-> [Release(m.str, m.buffer) EXCEPT ![i] = new], buffer |-> i,
        base |-> m.base + m.offset, offset |-> 0, length |-> m.length - m.offset ]

\* zend_string_realloc of a string that has one holder.
Realloc(m, size) ==
  LET val == IF size <= Len(Val(m)) THEN SubSeq(Val(m), 1, size)
             ELSE Val(m) \o Junk(size - Len(Val(m)))
  IN  Rewrite(m, val, m.base, m.offset, m.length)

\* Mutant: the room is compared with the unread bytes only.
Bug_MakeRoom(m, n) ==
  IF m.length - m.offset + n > Len(Val(m)) THEN Realloc(reset_buffer_offset(m), m.length - m.offset + n)
  ELSE m

\* Room for n more bytes behind the unread ones: by moving these first.
MakeRoom(m, n) ==
  LET moved == reset_buffer_offset(m)
      new_size == moved.length + n
  IN  IF m.length + n <= Len(Val(m)) THEN m
      ELSE IF new_size > Len(Val(moved)) THEN Realloc(moved, new_size)
      ELSE moved

\* The memcpy at the end of add()
Write(m, src) ==
  LET val == [i \in DOMAIN Val(m) |->
                IF i \in (m.length + 1)..(m.length + Len(src)) THEN src[i - m.length] ELSE Val(m)[i]]
  IN  Rewrite(m, val, m.base, m.offset, m.length + Len(src))

-----------------------------------------------------------------------------
(* Cbor\Decoder::add                                                        *)

\* The arguments, after the checks: which bytes of a string of n bytes are
\* appended; whole: those up to the end.
AddArgs(n, off, len) ==
  LET fromEnd == IF off + n < 0 THEN 0 ELSE off + n
      start == IF off < 0 THEN fromEnd ELSE off
      data_off == IF start > n THEN n ELSE start
      end == IF len.n + n < 0 THEN 0 ELSE len.n + n
      data_len == IF len.n >= 0 THEN len.n
                  ELSE IF end < data_off THEN 0 ELSE end - data_off
      whole == len.null \/ (len.n > 0 /\ len.n >= n - data_off)
      append_len == IF whole \/ data_len > n - data_off THEN n - data_off ELSE data_len
  IN  [ nothing |-> (~len.null /\ len.n = 0) \/ data_off >= n,
        whole |-> whole, data_off |-> data_off, append_len |-> append_len ]

\* Mutant: the buffer is not counted as a holder of the user's string.
Bug_AddShared(i, off, len) ==
  LET a == AddArgs(Len(str[i].val), off, len)
  IN  /\ ~a.nothing /\ offset = length /\ a.data_off = 0 /\ a.whole
      /\ SetMem([ str |-> Release(str, buffer), buffer |-> i,
                  base |-> base + offset, offset |-> 0, length |-> Len(str[i].val) ])

\* The buffer is used up: it is replaced by the user's string.
AddShared(i, off, len) ==
  LET a == AddArgs(Len(str[i].val), off, len)
  IN  /\ ~a.nothing /\ offset = length /\ a.data_off = 0 /\ a.whole
      /\ SetMem([ str |-> AddRef(Release(str, buffer), i), buffer |-> i,
                  base |-> base + offset, offset |-> 0, length |-> Len(str[i].val) ])

\* The bytes are copied behind the unread ones, in a string of the decoder's.
AddCopied(i, off, len) ==
  LET a == AddArgs(Len(str[i].val), off, len)
      src == SubSeq(str[i].val, a.data_off + 1, a.data_off + a.append_len)
      append(m) == SetMem(Write(MakeRoom(m, Len(src)), src))
  IN  /\ ~a.nothing /\ ~(offset = length /\ a.data_off = 0 /\ a.whole)
      /\ \/ IsOwned(Mem) /\ append(Mem)
         \/ /\ ~IsOwned(Mem)
            /\ \E new \in FreeIds : append(Separate(Mem, new, Len(src)))

Add(i, off, len) ==
  /\ i \in held
  /\ base + length + Len(str[i].val) <= MaxTotal
  /\ \/ AddArgs(Len(str[i].val), off, len).nothing /\ UNCHANGED memVars
     \/ AddShared(i, off, len)
     \/ AddCopied(i, off, len)
  /\ exception' = NoException
  /\ UNCHANGED <<args, held, ctx, data>>

-----------------------------------------------------------------------------
(* Cbor\Decoder::process                                                    *)

\* The end of process(): a buffer with much of it used up is shrunk.
Shrink(m) ==
  LET moved == reset_buffer_offset(m)
  IN  IF m.offset > ShrinkAt /\ IsOwned(m) THEN Realloc(moved, moved.length) ELSE m

\* decode_buffer with cbor_decode_finish.  An incomplete item goes on the way it
\* was begun.  zv_dec_finish gives a value if there is no error, else the
\* offset; edn_dec_finish gives a value with the error in it and no offset.
\* The code does not look at what they return.
Process ==
  LET o == Outcome(Unread(Mem))
      bytes == ctx.bytes \o SubSeq(Unread(Mem), 1, o.n)
      edn == IF ctx.open THEN ctx.edn ELSE args.edn
      isError == o.error \notin {"none", "truncated"}
  IN  \/ /\ offset = length
         /\ SetMem(Shrink(Mem))
         /\ data' = NoData
         /\ exception' = NoException
         /\ UNCHANGED <<args, held, ctx>>
      \/ /\ offset # length
         /\ SetMem(Shrink([Mem EXCEPT !.offset = @ + o.n]))
         /\ ctx' = IF o.error = "truncated" THEN [open |-> TRUE, edn |-> edn, bytes |-> bytes] ELSE NoItem
         /\ data' = IF o.error = "none" \/ (isError /\ edn)
                    THEN [ready |-> TRUE, bytes |-> bytes, failed |-> isError]
                    ELSE NoData
         /\ args' = [ edn |-> args.edn,
                      error_offset |-> IF isError /\ ~edn THEN base + offset + o.n ELSE args.error_offset ]
         /\ exception' = IF isError THEN [thrown |-> TRUE, at |-> args'.error_offset] ELSE NoException
         /\ UNCHANGED held

-----------------------------------------------------------------------------
(* The other methods that change something.  hasValue() and process()        *)
(* return data.ready, isPartial() returns ctx.open, getBuffer() a copy of    *)
(* Unread(Mem), and getValue() throws unless data.ready.  decode() is        *)
(* cbor_decode() with a copy of args.                                       *)

\* The buffer is given up, and everything that was read from it.
Clear ==
  /\ SetMem([str |-> Release(str, buffer), buffer |-> EmptyStr, base |-> 0, offset |-> 0, length |-> 0])
  /\ ctx' = NoItem
  /\ data' = NoData
  /\ exception' = NoException
  /\ UNCHANGED held

Reset == Clear /\ UNCHANGED args

\* __construct on a decoder in use.  The flags are set before the options are
\* looked at, which may be wrong.
Construct(edn, fails) ==
  /\ args' = [edn |-> edn, error_offset |-> args.error_offset]
  /\ exception' = IF fails THEN [thrown |-> TRUE, at |-> 0] ELSE NoException
  /\ UNCHANGED <<memVars, held, ctx, data>>

\* decoder_free, and decoder_create for another decoder.
New(edn) == Clear /\ args' = [edn |-> edn, error_offset |-> 0]

GetValue(clear) ==
  /\ data.ready
  /\ data' = IF clear THEN NoData ELSE data
  /\ exception' = NoException
  /\ UNCHANGED <<args, memVars, held, ctx>>

-----------------------------------------------------------------------------
(* The user's script.                                                       *)

userUnchanged == UNCHANGED <<args, buffer, base, offset, length, ctx, data, exception>>

\* A string is made, or a literal taken, which is interned.
UserNew(i, s, literal) ==
  /\ i \in FreeIds
  /\ str' = [str EXCEPT ![i] = [val |-> s, rc |-> 1, interned |-> literal]]
  /\ held' = held \cup {i}
  /\ userUnchanged

\* The variable is given up.
UserRelease(i) ==
  /\ i \in held
  /\ str' = Release(str, i)
  /\ held' = held \ {i}
  /\ userUnchanged

\* The variable is written to: in place if it is the only holder of the
\* string, else the variable gets a string of its own.
UserWrite(i, s) ==
  /\ i \in held
  /\ \/ /\ ~str[i].interned /\ str[i].rc = 1
        /\ str' = [str EXCEPT ![i].val = s]
        /\ UNCHANGED held
     \/ /\ str[i].interned \/ str[i].rc > 1
        /\ \E new \in FreeIds :
             /\ str' = [Release(str, i) EXCEPT ![new] = [val |-> s, rc |-> 1, interned |-> FALSE]]
             /\ held' = (held \ {i}) \cup {new}
  /\ userUnchanged

-----------------------------------------------------------------------------
\* decoder_create
Init ==
  /\ \E edn \in EdnModes : args = [edn |-> edn, error_offset |-> 0]
  /\ str = [i \in StrIds |-> IF i = EmptyStr THEN [NoString EXCEPT !.interned = TRUE] ELSE NoString]
  /\ held = {}
  /\ buffer = EmptyStr
  /\ base = 0 /\ offset = 0 /\ length = 0
  /\ ctx = NoItem
  /\ data = NoData
  /\ exception = NoException

User ==
  \/ \E i \in StrIds, s \in Inputs, literal \in BOOLEAN : UserNew(i, s, literal)
  \/ \E i \in StrIds : UserRelease(i)
  \/ \E i \in StrIds, s \in Inputs : UserWrite(i, s)

Next ==
  \/ \E i \in StrIds, off \in Offsets, len \in AddLengths : Add(i, off, len)
  \/ Process
  \/ Reset
  \/ \E clear \in BOOLEAN : GetValue(clear)
  \/ \E edn \in EdnModes, fails \in BOOLEAN : Construct(edn, fails)
  \/ \E edn \in EdnModes : New(edn)
  \/ User

Spec == Init /\ [][Next]_vars

-----------------------------------------------------------------------------
(* Properties.                                                              *)

\* The types of the decoder's fields and of the strings.
TypeOK ==
  /\ args \in DecodeArgs
  /\ str \in [StrIds -> ZendString]
  /\ held \subseteq StrIds
  /\ buffer \in StrIds
  /\ base \in Nat /\ offset \in Nat /\ length \in Nat
  /\ ctx \in PartialItem
  /\ data \in DecodedItem
  /\ exception \in Exception

\* What process() reads is within the memory of the buffer, and it is data:
\* through separation, moves, reallocation and shrinking, no byte that was
\* allocated and not written comes to be read.
BufferValid ==
  /\ offset <= length /\ length <= Len(Val(Mem))
  /\ Unread(Mem) \in Seq(DataByte)

\* The count of a string is the number of its holders: the buffer is never
\* freed while in use, and no string leaks.
RefcountExact ==
  \A i \in StrIds : ~str[i].interned =>
    str[i].rc = (IF i \in held THEN 1 ELSE 0) + (IF i = buffer THEN 1 ELSE 0)

\* A method of the decoder never changes a string the user holds, though it
\* writes to its buffer in place and the buffer may be the user's string.
UserStringsStable ==
  [][~User => \A i \in held : str'[i].val = str[i].val]_vars

\* To its user the decoder is one stream of bytes: add() appends what substr()
\* gives, process() decodes the next item of the stream and tells errors by
\* their offset in it, whatever happens to the buffer and to the user's strings.
Stream == INSTANCE StreamDecoder WITH
  stream <- Unread(Mem), taken <- base + offset, item <- ctx
Refines == Stream!Spec

-----------------------------------------------------------------------------
(* The inductive invariant of the proofs.                                   *)

\* The user's strings hold what the user put there, and the empty string is
\* never allocated to.
UserInv ==
  /\ str[EmptyStr].interned
  /\ \A i \in held : str[i].val \in Inputs

IInv == TypeOK /\ BufferValid /\ RefcountExact /\ UserInv

=============================================================================

# Verification of php-ext-cbor

TLA+ specifications of the PHP extension `cbor` (`src/`): a CBOR encoder and
decoder written in C against the Zend engine. They are written from the C code;
README and stubs serve as the statement of what the code should do.

## The system

| component | state | operations | depends on |
|---|---|---|---|
| decoder core (`decode.c`, `decode_base.h`, `decode_zv.h`) | `dec_context`: a stack of open items with its depth, the string tables of the open namespaces, the list of shared values, the root, the callback error; the fragment `mem` with its offset | `cbor_decode_process` / `decode_nested` / `dec_item` read one head at a time and call a callback; callbacks push an item or append a value to the item on top; `cbor_decode_finish`, `cbor_decode_free` | called by `cbor_decode()` with all of the data and by `Cbor\Decoder` with some of it, again and again |
| EDN decoder (`decode_edn.h`) | the same context with a text buffer and an indentation level | the same callbacks, printing diagnostic notation | shares `decode.c` with the core (callbacks are macros) |
| `Cbor\Decoder` (`decoder.c`) | a reference-counted buffer string, `mem` (base, offset, length), the suspended context, the decoded value | `__construct`, `add`, `process`, `reset`, `getValue`, `decode`, `hasValue`, `isPartial`, `getBuffer` | user's strings (shared, copy on write), decoder core |
| encoder (`encode.c`) | output buffer, depth, string table, list of shared objects and a lock on them, flags that `EncodeParams` override for a subtree, recursion marks on the values themselves | one function per PHP type, user code (`cborSerialize`, iterators, `count()`) | `di_encoder.c`, types, other extensions' objects |
| heads (`di_encoder.c`, `di_decoder.c`) | none | write and read one head | |
| options (`options.c`) | none | option array to `cbor_*_args` | |
| types (`types.c`, `type_float_cast*.h`) | wrapper objects that own strings, the singleton `Cbor\Undefined` | construction, casts, property handlers | |
| UTF-8 check (`utf8.c`) | none | a table-driven automaton | |
| functions, errors, module glue (`functions.c`, `cbor.c`, `compatibility.c`, `cpu_id.c`) | none of interest | argument parsing, exception messages | |

What is hard in it:

* *Nesting without recursion.* The decoder keeps its own stack. A value that
  completes a container completes the next one, and so on; tags with a handler
  transform what passes through; breaks close whatever is on top. Any sequence
  of heads may come.
* *Suspension.* `Cbor\Decoder` stops wherever the data ends and resumes with
  the same context, after the user did anything to the strings it was given.
* *References in the middle of things.* `{stringref}` needs the table of the
  right namespace, in the order the encoder assigned. `{sharedref}` may refer
  to a value that is being decoded, so the value has to exist before its
  content; how depends on the option and on what the content will be.
* *User code in the middle of the walk.* The encoder marks values, switches
  flags and options, replaces its output buffer and its string table, and calls
  methods of the program that return anything, make objects that die at once,
  or throw. All of it has to be undone on every way out.
* *Shared memory.* The decoder's buffer may be the user's own string. It is
  written in place when, and only when, nobody else holds it. String objects
  share a string with variables.
* *Limits and widths*: `max_depth`, three rules for `max_size`, 32-bit counts
  and options, integers beyond `zend_long`, keys that are numbers or look like
  them, floats that do or do not fit a smaller format.

Everything runs on one thread. What plays against the code is the input, the
order of calls, what the program does with its strings between calls, and what
its methods do during `cbor_encode()`. `PROJECT.json` lists the hazards at
their lines.

## Modules

| module | what it is |
|---|---|
| `CborData` | heads of data items (tokens), PHP values, heap nodes, decimal notation, symbol-table keys. No state |
| `CborReference` | the meaning of an input by recursive definitions: the grammar (`ParseItem`) and the PHP value (`Eval`, `Decoded`) |
| `DecodeZv` | the decoding context with all callbacks of `decode_zv.h`; its properties and its inductive invariant |
| `DecodeZvProofs` | the proofs about `DecodeZv`: stack, namespaces, shared indices |
| `DecodeZvHeapProofs` | the proofs about the values it makes |
| `MCDecodeZv` | alphabets and option sets of its runs; properties that compare `DecodeZv` with `CborReference` |
| `DecoderInterface` | what users of `Cbor\Decoder` see: bytes, items, exceptions, `Outcome` of decoding a run of bytes |
| `StreamDecoder` | abstract specification of `Cbor\Decoder`: a stream of bytes, no buffer |
| `DecoderClass` | `decoder.c`: the buffer, its reference counts, and a user who shares strings with it |
| `DecoderClassProofs` | the proofs about `DecoderClass`, with that it implements `StreamDecoder` |
| `DiEncoder` | what `di_encoder.c` writes: shortest heads as tokens, their bytes and their order |
| `IntString` | `convert_string_to_int`: keys that are written as integers |
| `Options` | `options.c`: every option of both directions, with its conversions |
| `EncodeZv` | `encode.c`: `enc_zval` and all it calls, with the user code |
| `EncodeZvProofs` | the proofs about `EncodeZv` |
| `EncodeZvHeapProofs` | the proofs about the counts it takes and gives back, and about its types |
| `RoundTrip` | composition: `EncodeZv`, then `DecodeZv` on what it wrote; when a value is what was encoded |
| `MCEncode` | value graphs, flags and options of its runs; properties of the data by `CborReference` |
| `DecodeEdn` | `decode_edn.h`: the second set of callbacks, writing notation |
| `DecodeEdnProofs` | the proofs about `DecodeEdn` |
| `MCDecodeEdn` | constants of its runs; the grammar errors are compared with, and the notation of a syntax tree |
| `Utf8`, `EdnText` | the automaton of `utf8.c`; how `edn_do_xstring` prints the bytes of a text string |
| `DiHeads` | heads byte by byte, reading and writing |
| `FloatCast` | conversions between float formats without F16C |
| `Bignum` | `decode_dec_str`, `bin_int_sub1`: digits of decimals to bytes |
| `Primitives` | `Utf8`, `EdnText`, `DiHeads`, `IntString`, `Bignum` and `Options` on inputs that grow step by step, against what they stand for |
| `PrimitivesProofs` | the proofs about `Options`, `DiHeads`, `Utf8` and `EdnText` |
| `MCPrimitives` | `Primitives` for the runs, with `FloatCast` on all bit patterns of scaled-down formats |
| `ValueTypes` | `Cbor\Byte`, `Cbor\Text`, `Cbor\Undefined` as objects with counts |
| `ValueTypesProofs` | the proofs about `ValueTypes` |
| `MCDecoderClass`, `MCValueTypes` | constants of the runs |

### DecodeZv

One action per callback of `dec_item` (`Proc*`, `*Enter`), one per kind of
item `zv_append` finds on top of the stack (`AppendTo*`, `*Exit`), and the
control of `decode_nested`, `cbor_decode_process` and `cbor_decode` (`SelfDescribe`,
`Start`, `ReadTruncated`, `ReadMalformed`, `Loop`, `Resume`, `Finish`).

The code's `zv_append` calls itself once per completed container. Here each
level is one step, with the pending value in `val` and `pc = "append"`; nothing
else can happen between these steps, so this only makes intermediate states
visible. Errors follow the code: a callback leaves `cb_error`, later callbacks
of the same item still run their tails (an item that `indef_break` rejects is
popped), and `decode_nested` looks at the error afterwards.

Input is a sequence of tokens with a length in bytes each. A token is chosen
when it is first looked at, so one run covers every sequence over its alphabet;
`length` cuts the bytes anywhere, also inside of a head. `oneshot` tells
`cbor_decode()` (`mem.limit` is known, rest of the data is an error) from
`Cbor\Decoder` (no limit; `Resume` adds data after a truncation). `Explored`
and `ExploredLengths` say which tokens and lengths go with which option set, so
that one run has several alphabets.

PHP arrays, objects and references are nodes of `heap`, so identity and
aliasing are visible. Reference counts inside of values are left out: the only
place that looks at one is `tag_handler_str_ref_exit`, where an object only the
table holds is handed out in place of a clone, which comes to the same.
`stack_pool`, memory management and the `INTERNAL` errors are left out as well.

Numbers keep the boundaries and not the sizes: `LongMax`, `Uint64Max`,
`Uint32Max`, `MaxDigits`, and the last index a reference of each length has
(`IndexMax1` to `IndexMax3`) are constants. `cbor_int_to_str`, which writes
integer keys that do not fit `zend_long`, counts with `Uint64Max`: `n_value++`
wraps to 0 at -2^64, and the digits of 2^64 - 1 get a greater last digit
(`LastDigitUp`). `CborReference` has its own notation (`Numeral`), digit by digit
from the number itself, so that the two can differ.

### DecoderClass and StreamDecoder

`DecoderClass` has every string of the script in `str`, with contents,
reference count and whether it is interned; the user (`UserNew`, `UserRelease`,
`UserWrite`) makes, drops and writes strings as PHP's copy-on-write has it,
between any two calls. `add()` takes over the user's string when the buffer is
used up (`AddShared`), else copies (`AddCopied`): separate if somebody else
holds the buffer, make room by moving the unread bytes or reallocating, write.
`process()` decodes and may shrink the buffer. `__construct()` on an object in
use changes the options, also when it rejects them, while an item that was begun
goes on with those it was begun with (`ctx.edn`). With `CBOR_EDN` a data error
does not set the error offset, so the exception tells the one of the error before
it. `New` is the destruction of the object and the creation of another. Newly
allocated bytes are `"junk"`.

`Outcome` stands for `cbor_decode_process` (which `DecodeZv` has in detail), by
where data items end in a run of five kinds of bytes.

`StreamDecoder` is the promise: `add` appends what `substr` gives, `process`
takes an item off the front. `DecoderClass` implements it under `stream <-
Unread(Mem)`, `taken <- base + offset`, `item <- ctx`.

### EncodeZv and RoundTrip

The recursion of `enc_zval` through the functions for containers is a stack of
frames; a frame has the function's local variables (`saved_args`, `orig_srns`,
`out_buf`, the hash of keys, how far it is). `pc` is where a function is entered
(`call`), at its switch (`type`), or goes on after a call (`ret`). One action
for each function or, if it calls `enc_zval` or user code, for each part of it
between such calls: the loop of `enc_hash` is `HashNext` and `HashDone`,
`enc_traversable` is seven actions. Errors take the exits the code has, in its
order, which is what most properties are about.

Values are addresses of `heap` nodes with reference counts, so that a value
that dies, and another that gets its address, can be seen (`SerializableDone`,
`RefsAlive`). User code is a choice at each call: `cborSerialize` returns what
the object holds or a new object, or throws; an iterator's `count()`, `valid()`,
`current()`, `key()` and `next()` succeed or throw, and `count()` may be wrong.
User code does not change the graph that is being encoded.

Tokens are written in place of bytes; `DiEncoder` gives their bytes, by which
`enc_cde_map` sorts keys. The objects of other extensions (`DateTime`, `GMP`,
`Decimal`, `Uri`) are what they answer to the calls of `encode.c`. A float is a
number of which only the smallest exact format matters here; `FloatCast` has the
bits. Bignums keep the sign and whether they are shorter than an integer.

`RoundTrip` runs `DecodeZv` on `buf` with options that accept it. `Pairs` is
the set of source and decoded values that have come of each other, found by
walking both graphs at once, cycles included.

### DecodeEdn

As `DecodeZv`, with one symbol for a bracket, separator or line break and one
(`"v"`, with its place in the input) for the text of an item. `Finish` turns an
error into a comment and is the end of `cbor_decode` with `CBOR_EDN`.

### The primitives

Operators translated from the C functions, with scaled widths as constants:
`Utf8` is the table with its states, `EdnText` the loop that switches between
`"..."` and `h'...'`, `DiHeads` the byte layouts, `FloatCast` the shifts and
masks on bit fields, `Bignum` the multiply-and-add with its output buffer,
`Options` the order of the checks and the cut to 32 bits. `Primitives` has one
variable, the input, which grows by one byte, digit or option; `MCPrimitives`
adds floats, which grow bit by bit.

### ValueTypes

One action per handler of `types.c` that touches a count or the singleton:
construction (again, too), writing, reading and cloning of `Cbor\Byte` and
`Cbor\Text`, `Undefined::get()` and its destructor, and the program's own
copies and releases. `leaked` counts references that code drops on the floor,
of which there are two places (see Observations); the property says that there
are no others.

## Runs

| run | checks | shows |
|---|---|---|
| `MCDecodeZv` | `DepthBounded`, `AgreesWithGrammar`, `Decodes`, `TruncatedIsShort`, `NamespacesBalanced`, `NamespaceInScope`, `NoAliases`, `PlaceholderNotShared`, `SharedComplete`, `SharedValueStable`, `SharedIdentity`, `CallsTerminate` | eight alphabets. `Structure`: all inputs of at most 5 bytes over 13 items that nest (or do not), whole and resumed, with depth limits 2 and 3 and size limits 1 and 2, so that every limit is hit and exceeded. `Keys`: keys of every type into objects and arrays, with and without the duplicate check. `IntKeys`: integer keys on both sides of `zend_long` and at -2^64, with strings that name the same keys. `Scalars`: scalars, counts beyond `uint32_t` and data that ends inside of heads. `StringRefs`: 6 items with nested namespaces. `LongTable`, twice: string tables that are filled past every threshold. `SharedRefs`: 6 items with shareable values in the four modes of the option. Every call comes to a result, those that resume included |
| `MCDecoderClass` | `BufferValid`, `RefcountExact`, `UserStringsStable`, `Refines` | two strings besides the empty one (one in the buffer, one with the user, or shared), both of 2 bytes, up to 4 bytes between resets, shrinking from offset 1 on, both modes |
| `MCEncode` | `TypeOK`, `MarksMatchStack`, `Unwound`, `CdeContextFree`, `RefsAlive`, `DataOrException`, `Deterministic`, `NoDuplicateKeys`, `CountsRestored`, `RoundTrips`, `Terminates` | `cbor_encode` and then `cbor_decode` on all graphs of three nodes of eight classes with the three sharing modes, strings in and out of namespaces and past every length threshold of references, maps with every pair of keys, iterators that count wrongly, repeat keys or throw at any call, two nested `EncodeParams`, single values and options |
| `MCDecodeEdn` | `IndentMatchesStack`, `EdnAgreesWithGrammar`, `Prints` | all inputs of at most 5 items, on one line or indented; errors are where the grammar has them if indefinite-length strings may hold items of any kind (for which see `MCEdnChunks` below) |
| `MCPrimitives` | `Utf8Correct`, `TextReadable`, `HeadsExact`, `IntKeysExact`, `DecimalExact`, `HalfExact`, `OptionsInRange` | each algorithm on all inputs up to its bound |
| `MCValueTypes` | `StringsCounted`, `UndefinedUnique` | any 9 calls on four variables, two string objects, two strings |

`Decodes` compares the result with `CborReference`, which knows nothing of
stacks, handlers or counters. Shared references are not part of the reference
definition; they have `PlaceholderNotShared`, `SharedComplete`, `SharedValueStable`,
`SharedIdentity` and `RoundTrips`.
`Prints` compares with a printer that walks the syntax tree, and so never
writes a separator that it has to take back.

Bounds. Depth 2 to 5 is enough for each kind of container inside of each other,
with a tag handler between; 5 or 6 items are enough for a namespace or a shared
value with content, a reference and something behind. For references every
item counts one byte, so that the bound is one on items. Two strings are enough
for the user to hold the buffer and another string; with 4 bytes the buffer is
moved, grown, separated and shrunk. The thresholds of `cbor_is_len_string_ref`
are the indices 0, 1 and 2 in place of 23, 255 and 65535, so that the tables of
`LongTable` and of the `TableCalls` of `MCEncode` pass all three: a string of
each length is tried on both sides of each. The comparison for the fourth, at
2^32, is true of every `uint32_t`.

For the encoder, three nodes are enough for a cycle through two containers with
a value that is reached twice, below and beside it; two keys are enough for the
order and for duplicates; two `EncodeParams` for one that undoes what the
other did. An iterator's elements have nine owners outside of the graph
(`OtherOwners`), as `enc_traversable` gives back counts it did not take.

Widths are scaled with their relations kept: in `MCDecodeZv`, `LongMax` is 60002
and `Uint64Max` 120005, twice that and one, in which adding one to the last digit
carries no further, as in 2^64 - 1; in the other runs `Uint64Max` is as much longer
than `LongMax` as a boundary needs, `OptUint32Max` exceeds the range of every option
(the defaults 64 and 65536 are within the limits, as `OptionsAssumption` says), the
float formats keep what the code's case distinctions depend on (the small
format's subnormals are normal numbers of the wide one), `Radix` is 16 in place
of 256 with the digits-per-byte estimate that goes with it. Heads are read with
their real widths, byte by byte.

Fairness. Only `CallsTerminate` and `EncodeZv`'s `Terminates` need any: weak
fairness of the steps of the decoder itself, and of the encoder, which run on the
caller's thread until the call ends. For the encoder this takes that user code
returns. `Resume` of the decoder is the user's choice and has none.
`CallsTerminate` says of every call, the first and any that goes on with a
half-read item, that it leads to the end of the context or to the report that data
is missing, which `cbor_decode` may not leave it at. It is `Terminates` of
`DecodeZv` with the option sets of `LiveArgs`; fairness is stated for these only. That
is a bound on the size of the run: both option sets of `Structure` and `Scalars`, whose
data comes in pieces, and one each of `StringRefs` and `SharedRefs`.

Runs that stop without deadlock being an error say so in their cfg: calls end,
and a user of `Cbor\Decoder` need not add more.

### Disagreements

Runs that are expected to fail, each for one sentence of the documentation or a
comment (`findings` in `PROJECT.json` has the quotes):

| run | shows |
|---|---|
| `MCShareableOnly` | a non-empty map tagged {shareable} is not wrapped with `'shareable_only'` |
| `MCDecoderEdn` | `Cbor\Decoder` with `CBOR_EDN` throws for data errors |
| `MCEdnChunks` | with `CBOR_EDN`, items that are no chunks are accepted inside of an indefinite-length string |
| `MCNestedShareable` | a `Cbor\Shareable` around an object that others hold too is written as {shareable} in {shareable}, which the decoder rejects |
| `MCDupKey` | with string references an iterator's repeated key is not found to be a duplicate |
| `MCFloatRound` | narrowing to half precision loses the carry of a fraction that rounds up to the next power of two; the run meets it at a subnormal result, the line for normal ones does the same |

### Observations

Met while modelling; each is in the models as the code has it.

* `decode_zv.h:784`: a non-empty map tagged {shareable} gets a property `value`
  that is the object itself (`SameKeys` of `RoundTrip` allows for it).
  `decode_zv.h:193`: with `'unsafe_ref'` a PHP reference to an object can be
  made, which the assertion excludes; `decode_zv.h:787`: two references may
  refer to each other past the check for loops.
* `decode_zv.h:393`: a map key is recorded as a plain string, so a {stringref}
  to it gives a PHP string whatever the flags say.
* `encode.c:55` says of `ref_lock` "lock is actually not needed fow now". It is:
  without it (mutant `Bug_Lock`) an object that `cborSerialize` made can die and
  the next one gets its address and index.
* `enc_traversable` gives back counts of elements that it did not take; an
  iterator that holds the only reference would lose it. `CountsRestored` is
  therefore about graphs without iterators.
* A cycle with `CBOR_CDE` through `EncodeParams` ends in `DEPTH`, not in
  `RECURSION`.
* `options.c`: integers are cut to 32 bits before their range is checked, so
  that 2^32 + 64 is taken for 64; a rejected value is stored already.
* README:262 says "smallest possible type"; -0.0 and the subnormals of half
  precision are stored in eight bytes. A NaN with sign whose upper ten
  fraction bits are zero becomes -INF in half precision.
* A string length of 2^64 - 9 wraps the required length to 0.
* `decode_dec_str`'s estimate of its output falls short at 27531 digits.
* `Cbor\Byte::__construct()` again, and an assignment that is rejected, leak a
  reference; `Undefined::get()` in a destructor at the end of the request makes
  a second instance. These are the exceptions that `StringsCounted` and
  `UndefinedUnique` name.

## Proofs

`tlapm` checks the proof modules to the last leaf. Constants are subject to the
named assumptions of the modules only, and TLC evaluates them in every run: the
types of constants; in `DecoderInterface` and `DecoderClass` that the empty
string is one of the strings; in `ValueTypes` that 0, the null pointer, is no
object; in `Options` that the defaults are within the limits. Nothing is assumed
of how large anything is. Two modules have theorems with a hypothesis about a
constant, which an `ASSUME` of the MC module has TLC evaluate: `NoTrue` in
`DecodeZvHeapProofs`, `GraphsOwned`, `FreshOwned` and `GraphsTyped` in
`EncodeZvHeapProofs`. Otherwise the value graphs, the calls and the objects that user code makes are
arbitrary.

### DecodeZvProofs

| theorem | establishes |
|---|---|
| `Invariance` | `Spec => []IInv` |
| `TypeCorrect`, `DepthCorrect`, `NamespaceCorrect` | `TypeOK`, `DepthBounded`, `NamespaceInScope` |
| `BalancedCorrect` | `NamespacesBalanced`: what an item inherits from the one below is what the namespaces around it give |
| `PlaceholderCorrect` | `PlaceholderNotShared` |
| `SharedCorrect` | `SharedValueStable` |
| `IdentityCorrect` | `SharedIdentity`, an action property: the value left in place of a `{shareable}` is the one that its index has |

`IInv` is `TypeOK`, `DepthBounded` and seven more parts, as none of the
properties is inductive alone:

* `ErrorInv`: where an error may be pending. A context that failed is only
  freed; most of what follows is said of a context that is `Live`.
* `ItemInv`: which handlers and fields an item on the stack may have, so that it
  is known what `zv_append` finds there.
* `NamespaceInv`, `TableInv`: there is one string table for each open namespace
  on the stack, and an item with a string handler has a namespace below it.
* `ShareInv`: each shared index has its value, but for one that belongs to the
  `{shareable}` on top of the stack. It is what excludes that a `{sharedref}`
  finds the placeholder: it would be on top itself.
* `InheritInv`: an item in a namespace records its strings and hands that on to
  its content, unless an indefinite-length string is around it. That no other
  item records any is part of `NamespaceInv`; both come to `NamespacesBalanced`.
* `IdentityInv`: the value of an index is what its `{shareable}` on the stack
  holds. With `'unsafe_ref'` that is a reference to the content, unless the
  content is a map that becomes an object; then the map is the next item on the
  stack, and the object that arrives at the exit is its own.

The argument: every action has one of a few effects on the stack, the tables
and the shared values (`StepOK`: none, an item pushed, popped, or the
one on top changed). This is shown action by action; that each part of `IInv` is
kept is then shown once for each effect.

### DecodeZvHeapProofs

| theorem | establishes |
|---|---|
| `HeapInvariance` | `Spec => []PlainHeapInv` |
| `NoAliasesCorrect` | `NoAliases`: without shared references no object is in two places |
| `CompleteCorrect` | `NoTrue => (Spec => []SharedComplete)`: nothing that was shared early is left without its content |

`PlainHeapInv` has, besides `IInv`:

* `GoodHeap`: values, wherever they are (argument of `zv_append`, root, stack,
  tables, shared list, entries of nodes), refer to a node of a fitting class,
  and a wrapper has its one entry.
* `StopInv`: a context that stops without error has an empty stack.
* `HolderInv`: without shared references each node is in at most one *place*:
  the argument of `zv_append`, the root, an item of the stack or an entry of
  another node. The string tables are no places: a table that holds a string
  object of the result is why `tag_handler_str_ref_exit` clones. It needs that
  keys of a map are distinct, as otherwise replacing an entry might lose or
  double one.

That no node gets a second place is shown once (`MovesKeep`): it holds of every
step after which each place has a new node, what it had before, or what another
place had that has given it up. Each level of `zv_append` is such a step.

`SharedComplete` needs `FillInv` in addition: what is not filled is the value of
a `{shareable}` that is open on the stack, and the argument of `zv_append` is
never what a holder is created with. A `Cbor\Shareable` is created with `true`
in it, so that this is so only of inputs without `true`: a `{shareable}` around
`true` is complete and looks as if it was not. `NoTrue` says that of `Tokens`; it
is a hypothesis of this theorem only, and it holds in the run.

### DecoderClassProofs

| theorem | establishes |
|---|---|
| `Invariance` | `Spec => []IInv` |
| `TypeCorrect`, `BufferCorrect`, `RefcountCorrect` | `TypeOK`, `BufferValid`, `RefcountExact` |
| `UserStringsCorrect` | `UserStringsStable`: no method changes a string the user holds |
| `Refinement` | `Spec => Refines`: the decoder implements `StreamDecoder` |

`IInv` is `TypeOK`, `BufferValid`, `RefcountExact` and `UserInv` (the user's
strings hold what the user put there, the empty string is interned). The parts
need each other: that nobody sees a write in place rests on the count being
exact, and that what is read is data rests on the user's string not being
written while it is the buffer.

The argument goes along the operators of the module. For each one that works on
the buffer (`reset_buffer_offset`, `Realloc`, `MakeRoom`, `Write`, `Shrink`,
`Separate`) a lemma says that the unread bytes stay the same or get the new ones
appended, that the place in the stream stays the same, and that no other string
changes (`InPlace`). `SubstrArgs` shows that the argument arithmetic of `add()`
is that of `substr()`, for all integers. A call of a method is then a step of
the stream that keeps the invariant and the user's strings (`CallOK`), and a
step of the script leaves the stream as it is (`UserOK`).

### DecodeEdnProofs

| theorem | establishes |
|---|---|
| `Invariance` | `Spec => []IInv` |
| `TypeCorrect` | `TypeOK`, in particular that the indentation is never negative |
| `IndentCorrect` | `IndentMatchesStack` |

`IInv` has three parts besides these two: `ErrorInv` (no callback runs after one
that failed), `ItemInv` (only tags are given a line of their own, and a tag
waits for one item, so that a break never closes one) and `TextInv` (the text
never begins with a separator, so that a break always leaves something). That
`edn_indent` does not go below zero needs the exact count, and the count needs
to know which items have indented: those parts cannot be proved one by one.

There are five effects on the stack and the text: an item is written, pushed,
changed, popped, or the callback fails (`LeafStep`, `PushStep`, `PartStep`,
`PopStep`, `RaiseStep`); each is shown to keep the level with one lemma about
`Append` (`LevelAppend`), and every callback is shown to be one of them.

### EncodeZvProofs

| theorem | establishes |
|---|---|
| `Invariance` | `Spec => []IInv` |
| `MarksCorrect` | `MarksMatchStack`: marks are on exactly what running functions marked |
| `UnwoundCorrect` | `Unwound`: flags, options and depth are put back on every way out |
| `CdeCorrect` | `CdeContextFree` |
| `ResultCorrect` | `DataOrException` |

`IInv` is a conjunction of eight parts: `Shape` (the stack is a sequence of
well-formed frames), `Errors` (which functions can meet an error, and that an
exception goes with one), `Depths` (`cur_depth` is the number of calls of
`enc_zval` that are running), `MarksMatchStack`, `Chain` (what a frame found is in
effect at the next one, unless it is an `EncodeParams` or opens a namespace),
`Outermost` (what the frame at the bottom found is what the call began with),
`Contexts` (the options of the call hold at every level, and `CBOR_CDE` excludes
them and is not switched off) and `Outside` (before and after the call).
`Unwound` is `Outermost` when the stack is empty: that the outermost level never
changes holds because each function puts back what it found, on every way out.

Every action is one of five transitions of the stack (a value is written, a
frame is pushed, replaced, popped, or a frame is replaced and another pushed),
or the start, the entry of `enc_zval` or the end of the call. Each transition is
shown once to keep each part of `IInv`; each action is shown to be one of them,
with its error exits.

### EncodeZvHeapProofs

| theorem | establishes |
|---|---|
| `CountsInvariance` | `Spec => []CountInv` |
| `RefsAliveCorrect` | `Spec => [](NoIterators => RefsAlive)`: what has an index lives until the end of the call |
| `CountsRestoredCorrect` | `Spec => []CountsRestored`: after the call, failed or not, the heap is that of the call |
| `TypeCorrect` | `Spec => [](NoIterators => TypeOK)`: the variables keep their types |

The first three have the hypotheses `GraphsOwned` and `FreshOwned`. The first says of
the graph that PHP hands to `cbor_encode` that it holds together: an entry that is
an array, object or reference is one of the graph, no count is 0, and what the
constructors fill has content. It does not say that counts are right, only that
they are positive: whoever else holds a value keeps doing so during the call. The
second says that a new object is returned with one count, which goes to the
encoder, and holds nothing of the graph. `NoIterators` is about the graph of the
call: `enc_traversable` gives back counts it did not take, and with an iterator
that holds the only reference neither property is true. Graphs with iterators are
checked by TLC, with other owners of what is yielded (`OtherOwners`).

`CountInv`, of which TLC finds no violation on the graphs of `MCEncode`, is

* `OwnInv`: the heap is that of the call, each count raised by the number of
  *owners* the encoder adds, and besides it the objects that methods made, with
  exactly that number, which is not 0. The owners are `ref_lock` and the running
  `enc_serializable`, each of which holds what its method returned (`Claim`).
* `LockInv`: `refs` and `ref_lock` are the same addresses, and there are none
  before and after the call.
* `ReachInv`: what a function works on is in the graph, or the function right
  below is the `enc_serializable` that holds it. Without this a step might take a
  count of a value that is gone.

The proofs also need that sequences are sequences and indices numbers (`Memory`).
Every action changes the owners and the heap in one of a few ways: nothing
(`MemoryPushes`, `MemoryPops`, `MemoryReplaces`), an index and a count more
(`MemoryLocks`), a method's result held (`MemoryCalls`, `MemoryMakes`) or given
back (`MemoryReturns`), all of `ref_lock` given back (`MemoryEnds`). Owners are
counted by `Cardinality` over places; `OwnersLock` and `OwnersPush` say what one
place more does to all counts at once, and `OwnedAdd`, `OwnedMake` and
`OwnedRelease` that the heap then follows.

`TypeCorrect` rests on these, since what enters `val` or a frame comes from the
heap, and on a third hypothesis, `GraphsTyped`: flags and options of the call are
some, what PHP fills by itself (strings, floats, dates, numbers, URIs) has
content, and a bool, a float or the magnitude of a big number is numbered from 0,
as the argument of a data item has to be. Its invariant `Typed` adds three things
to `TypeOK`: the values that frames keep to be sorted have arguments that can be
written (`Loaded`), the heap is a function (`HeapTyped`), and `DepthTyped`. The
last is needed because an error of the depth leaves `cur_depth` one higher in
every `enc_zval` that returns: it is at least the number of functions that will
still count it down, which is why it does not wrap around. What a key is written
as needs what the loop over digits returns: a function defined by recursion
(`scan` in `ScanDigits`) is known to exist only for as many steps as can be shown
one after the other, which `LoopExists` does, with the least number of steps for
which there is none (`LeastNat`).

### ValueTypesProofs

| theorem | establishes |
|---|---|
| `Invariance` | `Spec => []IInv` |
| `StringsCorrect` | `StringsCounted` |
| `UndefinedCorrect` | `UndefinedUnique` |

`IInv` has the types, the exact counts of strings, string objects and instances of
`Cbor\Undefined`, that what is dead holds nothing, and `UndefinedUnique`. The
holders are counted by `Cardinality` over variables and objects; lemmas say what
an assignment to one place does to such a count, and every action is a
composition of assignments. That the destructor of the last holder runs, and so
clears the pointer, rests on the count being exact.

### PrimitivesProofs

| theorem | establishes |
|---|---|
| `OptionsCorrect` | `OptionsInRange` for any array of options and any widths |
| `HeadsCorrect` | `HeadsExact` for any sequence of bytes |
| `CharactersCorrect` | `Utf8Correct` for any sequence of bytes |
| `PrintingCorrect` | `TextReadable` for any sequence of bytes |

These are about functions, so that there is no induction over steps: the input
`probe` is arbitrary, where the run has bounded ones. `OptionsCorrect` goes
option by option (`DecodeOptionRange`): what is cut to 32 bits is compared after
the cut. `HeadsCorrect` has an argument as eight bytes and goes by the size of
an argument, of which there are five: `ReadHeadByInfo` says what is read,
`InfoFits` that the size written is the least that holds the value, `Written`
which bytes these are, and `ReadWritten` that they read back the same and that
no proper part of them is a head. It also shows that the two models of
`cbor_di_write_int`, on numbers in `DiEncoder` and on bytes in `DiHeads`, agree
(`HeadBytesWritten`).

`CharactersCorrect` is about loops. `Utf8` has them as recursive functions, and
nothing says that a recursive function of TLA+ exists until that is shown:
`RecursionExists` does so for any rule that takes the value at a place from those
before it. It and every induction below go by the least counterexample
(`LeastNat`, from the library's well-founded minimum), as the induction theorems
of the library cannot be used. `WalkAt1` to `WalkAt4` go through the table of the automaton by the number of
bytes, `WalkIsCharacter` concludes that it gets back to its first state after
exactly the bytes that encode a code point and not before, and `WalkBack` that
a character which ends has begun at most four bytes before. `AcceptsText` then
cuts a text into characters, by induction, and `PointAt1` to `PointAt4` add up
the bits as `cbor_next_utf8` does.

`PrintingCorrect` is the loop of `edn_do_xstring`. Its invariant is `Prints`: the
symbols so far spell the bytes before the place that the loop is at, each is in
the notation of the last mark before it, no raw symbol needs an escape, and the
flag `in_text` says which notation is current. `TurnPrints` shows that every turn
keeps it, one lemma per way a turn can end (`HexTurn`, `TextSymbolTurn`,
`SwitchTurn`, `InvalidTurn`), on the ground of `NextCharacter` from the proof
before. `LoopEnds` shows with `Progress` that the loop reaches the end: a turn
goes on by at least a byte, or only changes the notation from text, which the
next turn does not do again.

### Only model-checked

* `CallsTerminate` and `EncodeZv`'s `Terminates` are liveness, which the prover does not do.
* `Decodes`, `AgreesWithGrammar`, `TruncatedIsShort`, `RoundTrips`,
  `Deterministic`, `NoDuplicateKeys`, `EdnAgreesWithGrammar` and `Prints` compare
  with definitions that are `RECURSIVE` operators, of which the prover can say
  nothing.
* `HalfExact` is about fields of bits, whose widths are powers of two, and
  `IntKeysExact` about decimal notation, in which a digit stands for a power of
  ten; the provers know powers of numbers that are written out, but not that
  `10^(n + 1)` is `10 * 10^n`, for which the library has no proof either. What
  `TypeCorrect` needs of the same loop, without powers, is proved (`ScanType`,
  `StringToIntType`).
* `DecimalExact`: that a limb always has room for a digit rests on the estimate
  `DigitMillionths`, which as a constant may be any number.
* `RefsAlive` and `EncodeZv`'s `TypeOK` of graphs with iterators, see
  `EncodeZvHeapProofs`.

## Not modelled

* The bytes of heads and payloads in `DecodeZv` (tokens stand for them;
  `DiHeads` has the bytes), digits of numbers in EDN.
* The guard against re-entrance of `Cbor\Decoder` (`is_processing`): no user
  code runs during decoding. The check for `SIZE_MAX` in `add()`. The arguments
  `offset` and `length` of `cbor_decode`.
* User code that changes the graph that is being encoded; the counts that
  `cde_ht` holds of entries; answers of other extensions of a wrong type. A
  subclass of `DateTime` whose `format()` throws or gives no string: `enc_datetime`
  reads the result unchecked, so what it does then is undefined.
* `types.c`: the methods of `Float16` and `Float32`, comparison, property
  listing and JSON, which are glue to Zend.
* Argument parsing, exception messages, class registration, CPU detection and
  compatibility shims: no state of their own.

## Plan

What is left to prove is about graphs with iterators: `RefsAlive` holds of more of
them than those without, but the condition on other owners (`OtherOwners`) is so
far one of the graphs of the run.

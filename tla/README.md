# A verification project for remote-ffi

remote-ffi lets one process (the *initiator*) load a library in another process
(the *target*), look up symbols in it and call them, over one TCP connection.
This directory holds TLA+ models of it, the TLC configurations that check them
on small instances, and proofs that the TLA+ proof system checks for every
instance. The models are translated from the source (`src/src/rffi.c`,
`src/src/cJSON.c`, `src/python/remote_ffi/impl/*.py`); line numbers are in `PROJECT.json`.

## 1. The system

| Component | State it keeps | Operations | Modules |
|---|---|---|---|
| `AsyncInitiator` (`initiator.py`) | `_server`, `_proc`, `_client_connected`, `_closed`, `_next_id`, `_transport`, `_pending`, the reader task | `init_subprocess`, `dlopen`/`dlsym`/`call` (all `_send_request`), `aclose`, the accept callback `_on_client`, the reader loop | `Initiator`, `InitiatorProps` |
| `JSONLengthPrefixedTransport` (`transport.py`) | the stream pair, `_closed`, `rw_timeout` | `send_obj`, `recv_obj`, `aclose` | in `Initiator` and `Target` |
| `AsyncTarget` (`target.py`) | `_transport`, the handle registry | `init_port`, `_serve_loop`, `_op_dlopen`, `_op_dlsym`, `_op_call` | `Target`, `Registry` |
| Handle registry (`target.py`) | `_next_handle`, `_handle_to_obj`, `_objid_to_handle` | `_alloc_handle_for`, `_get_obj` | `Registry` |
| The two endpoints together | the child process, the connection | | `Session`, `Rpc` |
| C endpoint (`rffi.c`) | `rffi_t` (`sock`, ...), the static `req_id`, file descriptors shared with the program | `rffi_create`, `rffi_ep_init_target`, `rffi_ep_call`, `rffi_destroy`; `rffi_ep_dlopen`/`dlsym` are local | `CEndpoint` |
| Protocol codec (`protocol.py`; `rffi_param_to_json` and the reading of results in `rffi.c`) | none | `encode_param`, `decode_param` | `ParamCodec` |
| cJSON (`cJSON.c`, third-party) | the items and their links; the position and depth of a parser; the print buffer | create, add, insert, detach, replace, delete, duplicate, compare; parse; print; strings and escapes | `JsonItems`, `JsonTree`, `JsonValues`, `JsonParser`, `PrintBuffer`, `JsonPrinter`, `JsonStrings`, `Json`; numbers in `ParamCodec` |

How they interact. `init_subprocess` binds a listener, starts the target as a
child, waits for it to connect, exchanges *hello* messages and starts the reader
loop. A call takes an id, puts a future under it in `_pending`, writes a request
and awaits the future, which the reader loop settles when the response arrives.
The target reads a request at a time, executes it on its event loop and writes
the response. `aclose` cancels the reader, closes the connection and reaps the
child. The C endpoint connects to a listener, waits for a *hello*, answers it,
and then makes calls synchronously; it builds, prints, parses and frees its
messages with cJSON.

What is hard about it:

- every `await` of the initiator is a point at which any other coroutine, the
  accept callback and the user's next call may run; `_transport` and `_pending`
  are read before and after such points;
- both sides close the connection, on errors, timeouts and on purpose, at
  different times; futures must be settled all the same;
- responses arrive late, for callers that gave up; the timeout runs on an idle
  connection as well;
- handles outlive the addresses by which objects are looked up;
- cJSON: each operation relies on the shape of lists that the ones before it left,
  allocations fail half way through, and buffers are sized by estimates made
  before the bytes are written;
- C: descriptor numbers are reused, `rffi->sock` may outlive the connection,
  one static counter serves all handles, and after an incomplete read nothing
  says where in the byte stream the next message begins.

`hazards` in `PROJECT.json` lists these line by line with the properties that
are about them.

## 2. The modules

```
Initiator ── InitiatorProps ── MCInitiator          runs initiator_*,
    │              └── InitiatorProofs ─────┐         close_orphans_call, late_answer
    └── Session ── MCSession              │         run session
           ├────────────────────── SessionProofs ── (INSTANCE) TargetProofs
           ├── (INSTANCE) Target                      the other endpoint
           └── (INSTANCE) Rpc                         the abstract specification
Registry ── Target ── MCTarget                      run target
               └── TargetProofs
CEndpoint ── MCCEndpoint                            runs c_*
      └── CEndpointProofs
ParamCodec ── ParamCodecProofs                      run codec
JsonItems ─┬─ JsonValues ──┐
  │        └─ JsonParser ──┼── JsonPrinter ─┐
  │             └── JsonParserProofs        │
  └── JsonItemsProofs ─┘   │                │
PrintBuffer ───────────────┘   JsonStrings ─┴─ Json ── MCJson    run json
    └── BufferProofs ───────────────┘           └── (INSTANCE) JsonTree
```

**`Initiator`.** One event loop runs everything, so the unit of atomicity is the
code between two suspension points. `pc[t]` is the `await` that coroutine `t`
(`"init"`, `"reader"`, `"close"`, or a caller) is suspended at, `on[t]` the
connection whose transport it is suspended in, which may no longer be
`_transport`. A future is `fut[r]`; `pending` maps ids to callers. The
connections have a state: `unused`, `accepted` (by the kernel, `_on_client` not
yet run), `refused`, `open`, `closed` (the transport's `_closed` is set). `up`
holds frames in flight to the initiator, `down` is the log of all frames it has
written. The peer is arbitrary: it sends any frame of `PeerFrames`, ends its
stream, or stops reading (`"stalled"`, so that `drain` blocks). A timeout is an
action enabled whenever the thing waited for may fail to happen. `Moves` says
what users do beyond the normal case:

| move | what it adds |
|---|---|
| `cancel` | a user cancels `init_subprocess` or a call (`asyncio.wait_for`, `task.cancel`) |
| `closeEarly` | `aclose` during `init_subprocess` or calls |
| `callEarly` | calls before `init_subprocess` has returned |
| `retry` | `init_subprocess` again after it failed with the server up |
| `reinit` | `init_subprocess` again after `aclose` |
| `stall` | the peer stops reading for a while |
| `absorb` | `wait_for` swallows a cancellation that meets a result (Python before 3.12) |
| `attached` | `Server.wait_closed` waits for the connections it has accepted (Python 3.12.1 on) |

A frame `badres` is a response whose error is no dict or has a code that is no
integer. The reader loop takes its future from the table before it looks at the
error, and raises: such a future is `dropped`. `aclose` suspended in `wait_closed` is
at `"server"`; the server listens no longer, but a connection accepted before may
still reach `_on_client`.

**`Target`** extends `Registry`, whose variables its operations change, and has the
same connection variables as `Initiator`, `down` being what it reads.
It is one task; `tpc` is its suspension point, `busy` a function that runs.
`ran` is a history variable: the requests executed, with the object resolved and
the response. On its own it faces an arbitrary initiator (`PeerSends`,
`PeerCloses`).

**`Registry`** separates the interpreter (objects created, collected, addresses
reused) from `_alloc_handle_for`. An attribute access may create a fresh object,
so what keeps `id(obj)` meaningful is that `_handle_to_obj` keeps objects alive.

**`Session`** puts the target in the place of the arbitrary peer, and the child
process around it. **`Rpc`** is what it promises its callers: requests are
executed in the order of issue, each at most once; a call that returns, returns
what its own request gave; every call ends.

**`CEndpoint`** is one thread that blocks in `recv` and `read`: an action is what
the code does up to its next read. Streams are sequences of four-byte words, a
frame being its length and then words of text, so that only the reader's
position tells a length from text. Descriptors come from one table shared by all
handles and the program's own file, lowest free number first, as POSIX has it.
`answers` records whose result each call returned. Writes are never partial
and text lengths are multiples of a word; a frame of n words stands for one of up
to 4n bytes. `Moves`: `reuse` (a handle whose handshake failed is used on),
`reinit` (a connected one is initialised again), `long` (responses over 4096
bytes), `signal` (an interrupted read), `ask` (the peer sends requests).

**`ParamCodec`** follows one value: an argument from either side, or a result,
is encoded (`PythonSends`, `CSends`) and read (`PythonReads`, `CReads`).
Integers are exact, and the limits of types and formats are constants: `H8` to
`H64` are 2^7 to 2^63, `Exact` 2^53, `Epsilon` 2^52, `Short` and `Long` 10^15 and
10^17. `Double` rounds to the nearest double, `Printed` is the text that cJSON's
`print_number` gives a number: all of it if it is an int, else 15 digits if
`compare_double` finds them close enough, else 17. Of a float only its kind is
kept. The conversion of a double to `uintptr_t` outside its range, undefined in C,
may wrap, saturate or give the indefinite value of the hardware (`ToPointer`).

**`JsonItems`** is the heap of cJSON: `heap` holds the pointers of every item, `roots`
the items its client must delete, `lost` those nobody can delete any more. Every
operation that links is an operator from heap to heap, with the cases of the code
for the first, the last, an inner and an only child, and each action composes
them as the code does, the outcomes without memory included. `Visited` is what
`cJSON_Delete` frees. The client keeps the rules that `cJSON.h` implies.
**`JsonTree`** is what those operations promise, on sequences of children.
**`JsonValues`** adds `cJSON_Duplicate`, which may fail after any item, and
`cJSON_Compare`.

**`JsonParser`** is `parse_value` and its callees as a machine over tokens and
blanks; a number or a string is one token. Its stack is the nesting of the calls,
and an allocation may fail at any. `HeapSpec` is the parser with the client of
`JsonItems`, who waits for it to return. **`PrintBuffer`** is `ensure` and `update_offset`
under any pieces that a printer may write, for the three ways to own the buffer
(`PrintUnformatted`, `PrintBuffered`, `PrintPreallocated`), memory being limited by
`MaxMemory`. **`JsonPrinter`** is `print_value`, which sends it the pieces of a tree.
**`JsonStrings`** is `parse_string`, `utf16_literal_to_utf8` and `print_string_ptr` on
their own, byte by byte. `call` holds the locals of the call that runs, and an action is
one turn of a loop: `Scan` and `Measure` are the first passes, which work out the size,
`CopyByte`, `CopyEscape` and `WriteByte` the second, which write without a test. The
bytes are literals put together from `Chunks`, quoted or not, and what was printed.
**`Json`** composes all of it: one call at a time, by one client, from an empty heap. Its
parser takes a string for one token, so the strings are converted apart.

## 3. What is checked

| run | instance | what it shows |
|---|---|---|
| `initiator_session` | 1 client, 2 calls, any frames, malformed errors included, 2 in flight, orderly use, `attached` | `NoOrphanedCall`: when the reader loop has ended, no call waits for it, but at most one, whose own response was malformed; `CloseComplete`: when `aclose` has finished, no server, reader or child; `ResponsesKeepReader`: no well-formed response with an integer id ends the reader loop |
| `initiator_clients` | 2 clients, 2 calls, all moves but `closeEarly` and `callEarly` | `OneLiveTransport`: an open adopted connection is the one in `_transport`; `ReaderOwnsTransport`: the reader reads the connection that calls write to, and nobody else does; `IdsNameOneRequest`: no id is used twice |
| `initiator_misuse` | 1 client, 2 calls, all moves | `FutureSettledOnce`: no outcome of a call is overwritten |
| `target` | 1 connection, 4 frames of 3 kinds of requests, hello, no dictionary; 3 objects, 2 addresses, 3 handles | `AnswersInOrder`; `HandleDesignates`: the handle found for an object is its own and its only one; `HandlesStable`; `HandlesHold`: an answered handle designates the object it was resolved for; `EndsWithConnection` (liveness) |
| `session` | 1 caller opens, 1 calls; cancellation, crashes, functions that hang, `attached` | `ImplementsRpc` (refinement, with liveness), `HandlesGood`; `CloseEnds`: `aclose` ends with the child gone, unless it is stranded in `wait_closed` with a connection that was adopted too late; `InitEnds` (liveness) |
| `c_calls` | 2 handles, 2 connections, 2 descriptors, 3 calls, frames of up to 2 words, `reinit` | `OwnDescriptor`: a connected handle's descriptor is its connection's; `AnswerIsOwn`: a call returns the result of its own request or none |
| `c_reuse` | 2 handles, 2 connections, 2 descriptors, 1 call, all moves but `reinit` | `NothingLeaks`: an open connection has a handle that closes it; `TypeOK`: the buffer is never overrun |
| `codec` | all integers of the types scaled to 3, 4, 6 and 11 bits and as many beyond, all kinds of floats | `WellTyped`, `PythonExact`, `ArgumentsExact`: what arrives is what was sent, within the stated limits; `ResultsExact`: C gets an integer result from 2^16 to 2^53 as it is, and 0 for a smaller one that is not negative; `NumbersNear`: beyond them arguments and results are off by two units of DBL_EPSILON at most |
| `json` | 4 items, 2 of them marked; texts of up to 7 tokens with 2 blanks, nesting 2; buffers of up to 20 bytes, 3 allocations; literals of up to 3 chunks out of 15 | *items:* `TypeOK`, `ListsSound`, `OneOwner`, `NothingLeaks`, `ImplementsTree` (refinement), `CompareExact`, `CopyEqual`: however much memory there is, a copy stands for what its original stands for and its lists are linked both ways, or there is none and the heap is as before; *parser:* `ParsesJson`: it accepts exactly the JSON texts within the nesting limit and builds what they say, `WithinBuffer`; *printer:* `PrintsText`, `InBounds`, `BlocksFreed`; *strings:* `OutputFits`: no second pass writes more than the first has made room for, `DecodesUtf16`, `RoundTrip` |

The others (`close_orphans_call`, `late_answer`, `c_stale_response`) end in a
counterexample: section 5.

**Bounds.** `MaxQueue` (frames in flight to the initiator) is 1 or 2: the reader
takes one frame at a time and looks at nothing behind it, so a second one matters
only for what is left in the stream after a crash. Two callers suffice for a
response that reaches the wrong one, two clients for one that replaces
another, and every id is used at most once. `callEarly` would take `initiator_clients`
beyond what is practical; its three properties are proved with that move (section 4). `MaxHandle` equals the requests an
instance can make, except in `session`, where two objects need no more; in `target`
there are more objects than addresses, so that an address is used again. The
target's `MaxFrames` allows a hello and three requests, one of each kind, which
is what a call of something looked up in something opened takes. For the C
endpoint two descriptors are the least that can be mixed up, with the file
`App` as a third user; two words of text are what a partial read needs, and three
calls let a response skip one and meet the next. The codec's scaled limits keep
the order of the true ones (15 digits fall short of a double's integers, 17 go
beyond, the largest type goes beyond both) and reach doubles that are 8 apart.

For cJSON four items make a list of three, which has a first, an inner and a last
one, or two levels and a reference, or an item to replace another in a list of two;
`MaxMarked` bounds the items with names and the references together, since two names
are what an object lookup can confuse. Seven tokens are an object of two members
without its closing brace or one nested below another; `NestingLimit` and
`CircularLimit` stand for 1000 and 10000. A parsed tree is deleted (`Finish`) or
kept and edited like any other (`Keep`; with scalars that the edits make too,
`Familiar`, a bound that is void if `Words` is within `Scalars`). `CopyEqual` adds
two more blocks to the heap (`Roomy`, with `Spare`): a list of two with its array is
copied to six items, and every copy is tried with each number of blocks and names
that malloc may still give, so that it fails after any of them. In the printer
`DefaultSize` 2 stands for the 256 bytes of a fresh buffer, `IntMax` 20 for INT_MAX,
`MaxMemory` bounds how often memory is had. The chunks hold each escape, the borders
of the lengths of UTF-8, both halves of a surrogate pair, raw bytes that need
escaping when printed, a lone backslash and a short `\u`; three of them put a pair
behind or before anything else. Items are interchangeable and `Alike` says so.

The theorems of section 4 hold without any of these bounds. Deadlock checking is
off throughout, since the systems do stop: after `aclose`, after the target exits,
when the process is killed by SIGPIPE, when a C call waits for a response nobody
will send, and when a text has been parsed or a buffer printed.

**Fairness.** `Session` assumes weak fairness of each coroutine's steps (asyncio
runs a ready task, and what reads, writes and closes a connection has a timeout), of the
accept callback, of the target and of the end of its process. Users owe nothing
and neither does a called function: `Returns` is not fair, so a function may
hang, and `CloseEnds` holds all the same because `aclose` kills after three
seconds (`CloseReaped`). Two waits have no timeout and get none in the model: a caller's
for its future, and that of `aclose` for the server. `CloseServerClosed` is fair only
once no connection is attached; a connection whose peer has shut its end may count
as lost, or not, and no fairness says which. `Target` alone assumes weak fairness of its own steps.
`Initiator`, `CEndpoint` and cJSON, which is sequential, are checked for safety only.

Each property of a passing run has a mutant of the code's model that breaks it;
the mutated definitions stand before the original, marked *mutant*.

## 4. What is proved

All theorems hold for every value of the constants permitted by the named
assumptions, which TLC evaluates on the instances of the runs.
`InitiatorAssumption`, `RegistryAssumption`, `TargetAssumption`,
`SessionAssumption`, `CEndpointAssumption`, `NoneAssumption`, `ItemsAssumption`,
`SpareAssumption`, `ParserAssumption` and `ChunksAssumption` (no chunk holds the
byte 0, which ends a string in C) only say that the constants have their kinds,
names do not clash, a word of a text is the name or the scalar of some item, and a
heap has finitely many blocks. For the codec, `ParamCodecAssumption` gives the order
of the limits (2^53 is at least twice 2^52, 10^17 at least twenty times), and
`SpacingAssumption` says that no power of two or ten is left out and that they reach
beyond 64-bit integers. For the print buffer, `PrintAssumption` says that a piece
writes no more than it asked `ensure` for. Theorems that hold for some `Moves` only
say so as an `ASSUME` of their own; without it they are false.

*Initiator.* `TypeCorrect` proves the type invariant, the pending ids being below
`_next_id` included; it is inductive as it stands. For `OneLiveTransport`,
`ReaderOwnsTransport` and `CloseComplete` (theorems `OneTransport`,
`OneReader`, `Closed`) it is not: a connection could be adopted while
`_cleanup_transport` waits. The invariant adds `WithinServer` (a transport
and a live reader exist only under a server and a handshake that succeeded),
and `OneCleanup` (the coroutine that waits in `_cleanup_transport` has closed
the transport it is about to drop, and is the only one). A connection adopted while
`aclose` waits for the server is within all of them: it is the one in `_transport`. The three theorems
assume `"closeEarly" ∉ Moves`, and `Closed` also `"reinit" ∉ Moves`.
`SettledOnce` needs `Fresh` (a caller that has
not called has no future), `IdsUnique` needs `IdsHandedOut` (every id in the log
of sent frames is below `_next_id`); both hold for all moves.

*Calls.* `ReaderKept` (`ResponsesKeepReader`, if nobody cancels and `aclose` is not
early; of well-formed responses) rests on `Awaited`: the future of a pending id waits, and each caller has one
pending id, so a repeated response finds nothing to settle twice. `NoneOrphaned`
(`NoOrphanedCall`, for one connection in orderly use) rests on `Delivered`: while
the reader loop runs every waiting future is in the table it will fail, and once it
has ended only those wait whose callers are suspended in a write to the
connection it closed, which is about to raise. A malformed error takes one future out of
the table unsettled; as the loop ends with it, there is at most one. `Adopted` and `Established` say which
connections a coroutine can be suspended on, and that there are calls and a
reader only after a handshake.

*Target.* `Designation` and `Stability` rest on `Linked` (an
indexed address is the address of a live object, namely the one behind the
handle: this is what keeping objects alive gives) and `Apart` (live objects have
different addresses). `ImplementsRegistry` shows that every step of the target is
one of the registry or leaves it alone, which carries both over
(`TargetDesignation`). `HandlesKept` adds `Served`: what has been executed so far was
resolved through the registry. `InOrder` rests on `Orderly`: requests are numbered
as they are read (`Numbered`), and only the last may be without its response
(`Pending`), so an error response that follows a failed write finds the
connection closed.

*Session.* `HandlesAreGood` (`HandlesGood`) and `SessionKeepsRpc` (the safety part of
`ImplementsRpc`, `Rpc!Safety`) hold for any number of callers, objects and
addresses. They rest on one invariant, `SInv`, since each endpoint alone trusts its
peer with anything. `Wired`: there is one connection. `Ordered`: ids number the
requests that were written, and only what a closed connection dropped is missing at
the end. `Executed`: the target has executed the requests up to some id and read no
further. `Replied`: each response in flight is the result of the request with its id,
or comes after that result, or nobody waits for it any more; the second case is the
error that the target sends when the `drain` of a result failed, and the reason why a
future settled once is settled with the result. `Greeted`: the handshake takes the
hello and no response. `Settled`: an answered future holds what the execution of its
caller's request gave. `Registered` carries the theorems about the target over:
the target in the session makes steps of `Target`, or none (lemmas `…Runs`; those for
the steps of the initiator are `…Acts`). The refinement goes step by step:
`CallerSends` on an open connection is `Issue` (`IssueMaps`), a step that appends to
`ran` is `Run` (`RunMaps`), a caller that returns, raises or is cancelled is `Return`
or `Fail` (`TellMaps`), and everything else leaves the abstract state alone. The
issued requests are read off the frames written, by their ids (`Issued`), not off
`pending`, from which they vanish.

*C endpoint.* `TypeCorrect` includes that what is left to read never exceeds the
buffer. `Descriptors` (`OwnDescriptor`, if `"reuse" ∉ Moves`) rests on `DInv`:
ready handles have different descriptors, each open on a connection of the
handle, and during a handshake so has `cur`. `Leaks` (`NothingLeaks`, if
`"reinit" ∉ Moves`) rests on `LInv`, its strengthening for a thread in the middle
of a handshake. `OwnAnswers` (`AnswerIsOwn`, if no `long`, `signal` or `ask`)
rests on `Lockstep`: for each open connection, what is in the stream and what is
unread of the current frame is exactly the answer to the last request, or
nothing, so endpoint and peer agree where messages begin; with `Tidy`: no
connection is open twice, and connections never made carry nothing.

*Codec.* The invariant says what the wire carries for the value that was sent
(`WireIsEncoding`) and what a reader makes of it (`GotIsReading`). `Typed` and
`PythonToPython` follow from the order of the tests. `Arguments` rests on
`PrintedExact`: below `Epsilon - 1`, `compare_double` is equality for integers
(`CompareExact`: two that differ are more than its tolerance apart), so 15 digits
are taken only if they are exact, and 17 hold every integer below `Exact`
(`DigitsExact`, `DoubleExact`). From 2^52 + 1 on an
argument can lose its last digit. `Results` adds that a non-negative integer which has
a type is within `uintptr_t`, and that its type is one that `rffi_ep_call` takes just if it
is 2^16 or more (`ResultTypes`). `Neighbours` (`NumbersNear`) bounds what is lost beyond: a
double is within half a unit of `DBL_EPSILON` of its integer (`DoubleNear`), a text of
17 digits within a quarter (`DigitsNear`), one of 15 within a whole because
`compare_double` accepted it, and the deviations add up to less than two
(`PrintedNear`).

*Print buffer.* `Bounds` (`InBounds`) and `Blocks` (`BlocksFreed`) hold for pieces of
any size and content and for buffers of any size, 0 included. They rest on
`Sound`: while a call prints, its offset is within the buffer or there is no buffer
yet (`Ready`), and the pointer is set exactly if there is a block to free. `ensure`
copies up to the offset without a test, so it needs `Ready`, and `Ready` needs the
byte that `ensure` leaves after each piece. A buffer of size 0 has no such byte: without
realloc `ensure` reads beyond it, once, at the first piece (`"overread"`), and the models
follow the call no further.

*String literals.* `StringsFit` (`OutputFits`) holds for any bytes and any length. The
two passes of `parse_string` need not agree where an escape is: `parse_hex4` does not
stop at a backslash or a quote among its digits, so an escape of the second pass can
begin between two of the first. So the invariant bounds the escapes from every place
on. A function `c` says how many the first pass has begun before each place
(`Counts`): two bytes begin at most one, only a backslash begins one, and
so the bytes that no escape saves, `k - c[k]`, never decrease. `Scanning` builds it up
(`CountByte`, `CountEscape`), and `Copying` says that the output at place `at` has no
more than `at - 1 - c[at]` bytes. An escape of 6 bytes yields at most 3, one of 12
yields 4 (`Utf16Shrinks`, from `Hex4Bounded` and `Utf8Bytes`), while `c` grows by half
of its length at most (`CountAhead`). For `print_string_ptr`
both passes walk the same bytes, and `extra` is the sum over them (`Measuring`,
`Writing`, `SumByte`) because `Escaped` is exactly `Extra` longer than a byte
(`EscapedLength`).

`ReadBack` (`RoundTrip`) says that what is printed is read back, for every string. It
rests on `LaidOut`: the printed text is the escapes of the bytes, one after the other
between quotes, the k-th at a place that the sums of `Extra` give (`PrintedLaidOut`,
which unfolds `FlattenSeq` by a least counterexample). `TripInv` says that
`print_string_ptr` has written that text so far (`Prints`), and of `parse_string` on
that text (`Reads`) that each pass is at the first byte of an escape, or the first
pass within a `\u` escape, whose digits are neither quotes nor backslashes
(`InsideEscape`). There the escapes of both functions must be inverse: `LettersApart`,
`HexDigitsRead`, `AsciiIsItself` and `UnicodeReads` say so, and `ByteRead` puts one byte
of the literal after the other.

*Parser.* `StaysWithin` (`WithinBuffer`) and `NestingBounded` hold for texts of any
length and are stated of `ParserSpec`: nothing about the heap is assumed between the
parser's steps, so they hold in `Json` as well, whose other steps leave the parser's
variables alone. `WithinBuffer` is not inductive, as `parse_string` looks at a byte
that may not be there. `Offsets` says where the offset can be: within the buffer
(not at its end) where an item or a name begins, and past a bracket where the loops
step back. It rests on `SkipWithin`: `buffer_skip_whitespace` begun within the buffer
ends within it, by its own step back. `Nested` relates `depth` to the calls on the stack;
a failure leaves `depth` behind, so they agree only until then.

*Item lists.* `ListsStaySound` (`ListsSound`), `OwnersStayApart` (`OneOwner`) and
`LeaksAreKnown` (`NothingLeaks`) hold for any number of items and names and any
sequence of the calls of `JsonItems`, those without memory included. None is
inductive, since each speaks of what a walk reaches. The invariant `ItemsInv` names
the owner of every item (a function that the heap does not store) and says locally
how links and owners agree (`Placed`, `Loose`, `Heads`, `Linked`). That nothing is cut
off or runs in a circle is said by closed sets: a set with the first child and the
`next` of each of its members contains all that the owner owns (`Reached`), and a
set with all that is held and with the children of its members contains the
heap (`Rooted`). A deletion visits the least closed set (`VisitedBelow`), so no induction is
needed; walks of a given length (`ItemAt`, `Chained`) use a least counterexample. Each
list operation has one lemma: `JoinedAlone`, `JoinedLast`, `JoinedBefore`, `Left`, `DeletedShape`, `ChainedShape`; a replacement is an insertion
before the item and its detachment (`ReplacedLinks`). `RootedJoined` is where
`MayJoin` is needed: an item added below itself would be held by nobody.

*Lists while the parser builds.* `ParsedTypeCorrect` (`TypeOK`), `ParsedListsSound`,
`ParsedOwnersApart` and `ParserLeaksNothing` state the same properties of `HeapSpec`, in
which the client parses texts between those calls and deletes or keeps what comes of
them, to edit it; run `json` takes these steps, and
besides them copies, prints and converts strings. `FailureFreesAll` says that a
parse that fails leaves no item and no name. Between two steps of the parser `ItemsInv` is
false: until a call ends its list is held by a local variable, and the
item it is for has no child. `LInv` says that the heap that would be there if every open
call had handed over its list (`Completes`: the list is the item's child, and the
first of it points back to the last) is one that edits could have made, held by the
outermost item alone. The calls are `Stacked`: each is for the last item of the list of
the call around it, so an item appended to the innermost list (`ItemAdded`), a call that
begins (`StartBuilding`) and one that ends (`EndedBuilding`, where the completed heap
stays as it is) change one end of the stack. An error is the hard case: the fail label
of a call deletes its list, and `UnwindList` needs that this visits no
item of the calls around it, though the completed heap has all of them in one tree.
That is a least counterexample along the stack (`UnwindVisits`); `VisitedList` and `WithoutShape`
say what is deleted and what is left. After the last of them `top` is alone
and its deletion leaves an empty heap.

Only model-checked: liveness (`EndsWithConnection`, `CloseEnds`, `InitEnds`, and that
every call ends, in `ImplementsRpc`), since the prover does not do fairness;
`ImplementsTree`, `CopyEqual`, `CompareExact`, `ParsesJson` and `PrintsText`, whose
definitions are recursive over data; `DecodesUtf16`, which is about chunks whose units
are those of their bytes, an assumption on the instance that TLC runs; and the
lists while `cJSON_Duplicate` builds them, whose model is recursive: the theorems about
lists are about the calls of `JsonItems` and about the parser.

## 5. Where code and documentation disagree

With a run that shows it:

- **`aclose` abandons calls** (`close_orphans_call`). It cancels the reader loop,
  whose `CancelledError` branch fails no future; a call in flight waits for ever.
- **A late response ends the session** (`late_answer`). The future of a cancelled
  caller stays in `_pending`; `set_result` raises, the reader loop ends, and all
  other calls fail with it.
- **A stale response is taken for a fresh one** (`c_stale_response`). If a read of
  `rffi_ep_call` is interrupted, `req_id` stays, and the next call takes the old
  response for its own.

The models show more, some of it named as an exception in the property it would
break, the rest in behaviours that passing runs leave out by `Moves`:

- **A malformed error orphans its call.** A response whose `error` is no dict, or has a
  `code` that is no integer, raises in the reader loop after `_pending.pop`: the loop
  ends, the connection is closed and all other calls fail, but the future of this one is in
  no table and its caller waits for ever, though the comment of that branch says "Close all
  pending with exception" (`initiator.py:120`). `NoOrphanedCall` excepts this one call,
  which is `dropped`, and `ResponsesKeepReader` speaks of well-formed responses.
- **`aclose` may wait for ever.** On Python 3.12.1 or later `wait_closed` returns only when
  the server has no connections. One accepted while `aclose` ran is adopted by
  `_on_client` after `_cleanup_transport` has set `_transport` to `None`; nobody closes it,
  the wait has no timeout, and the child is not terminated before it ends. `CloseEnds`
  excepts this state (`Stranded`), without which TLC refutes it.
- A second client is accepted. `_on_client` says "Accept the first client only"
  but adopts whoever connects while `_transport` is `None`, which it is again once
  the first was lost. The second gets no hello and no reader: calls to it are
  never answered (`initiator_clients` has such states; `ReaderOwnsTransport` allows
  a transport without a reader).
- A call sent while the reader loop, having failed all futures, waits for a
  stalled connection to close enters `_pending` after it was cleared and waits
  for ever (`stall`, breaks `NoOrphanedCall`).
- `init_subprocess` after a failed one returns at once, without a handshake
  (`retry`, action `InitAgain`); callers then raise or are written to a connection
  that nobody reads.
- `aclose` during `init_subprocess` may find no child and finish before it is
  started; the child stays (`closeEarly`, breaks `CloseComplete`). It can also
  drop a connection that is open (breaks `OneLiveTransport`).
- C: after a failed handshake `sock` still holds the closed descriptor, which
  `rffi_destroy` closes again, be it someone else's by then (`reuse`, breaks
  `OwnDescriptor`); a second `rffi_ep_init_target` on a handle leaks the first
  connection (`reinit`, breaks `NothingLeaks`); a response over 4096 bytes is left
  in the stream and read as lengths by later calls (`long`), and a request of the
  peer with the right id passes for a response (`ask`; both break `AnswerIsOwn`);
  a write to a reset connection raises SIGPIPE (`CallKilled`).
- The codec: results that Python encodes in 8 or 16 bits are 0 in C, 5 as well as
  200, though the comment in `rffi_ep_call` reads "integer/ptr return": `ResultsExact`
  says so of all integers from 0 to 2^16 - 1; negative
  ones of 32 and 64 bits are undefined; integers beyond 2^53 are rounded both ways;
  a finite float beyond single precision raises `OverflowError` in `encode_param`,
  where its comment says "Use f32 if possible, else f64"; infinities and NaN from C
  become null, which the target refuses.
- `rffi_ep_call` sends all of `params` as arguments, the function pointer included,
  where its comment says "remaining params" (read, not modelled).

cJSON is third-party code; what the models show of it, none of it in a way that
`rffi.c` uses it:

- `cJSON_AddItemReferenceToObject` loses the reference it has made when there is no
  memory for its name (`lost`); references go stale when what they refer to is freed
  (`Stale`), which the client has to know.
- A lookup that minds the case stops at the first member without a name, one that
  does not passes it; such members compare unequal to everything, themselves
  included.
- `replace_item_in_object` renames the new item before it looks for the one to
  replace, and leaves it without a name when memory fails. Given the item's own name
  as the key it frees that before copying it (aliasing, not modelled).
- `cJSON_InsertItemInArray` lacks the check of `add_item_to_array` that an item is not
  added to itself (excluded by `MayJoin`).
- With replaced allocation hooks, `cJSON_PrintBuffered` of an empty buffer reads one
  byte of it (`"overread"`, the one exception in `InBounds`). `cJSON_PrintPreallocated` needs one byte beyond the
  text and its NUL, where `cJSON.h` says to leave 5.
- NUL is skipped as whitespace; `parse_hex4` takes what is not hexadecimal for 0, so
  `\uzzzz` is the character 0, which truncates the string like `\u0000`.

## 6. What is not modelled

- `endpoint.py` (interfaces without behaviour), the tests, the build files, and
  `start_server` of `transport.py` (no caller).
- Two concurrent `init_subprocess` calls, which both pass the check of `_server`.
- A connection that `_on_client` adopts during or after `aclose` is adopted by the model as
  by the code; that nobody closes it is not stated as a property. `init_subprocess` is
  not called again while a reader task of an earlier session lives.
- `_on_client` waits for a refused connection to close, with no timeout; nothing comes
  after that wait.
- `rffi_ep_dlopen` and `rffi_ep_dlsym`, which call the local loader and touch no
  state (`Design.md` has them ask the peer).
- The bytes on the connection: base64, lengths in big or little endian (planned).
- Of cJSON: `cJSON_Minify`, `cJSON_SetValuestring`, `cJSON_SetNumberHelper`,
  `cJSON_InitHooks` (the models choose the hooks at the start of a call), the byte order
  mark, the type predicates, and the text of numbers beyond its digits. `rffi.c`
  uses none of it but a predicate's flag. Words of `JsonParser` are whole tokens;
  their bytes are the subject of `JsonStrings` and `ParamCodec`.
- `ImplementsTree` is about editing; what a parser has built so far does not count as a
  tree until it is done.

## 7. Plan

1. `Framing`: the byte stream under the frames, with partial reads; Python writes
   lengths little-endian, C reads them big-endian, so the two never shake hands.
2. A second `init_subprocess` task in `Initiator`, and the C endpoint with the Python
   initiator as its peer, which serves no requests.
3. `cJSON_Duplicate` in the theorems about the item lists. It builds its copy as the parser
   does, so `Building` fits it, but as long as `JsonValues` has it recursive the
   prover cannot unfold it; one action per copied item would do.

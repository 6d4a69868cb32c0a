# corda-rpc in TLA+

A TLA+ model of [corda-rpc](../src/README.md): an RPC client for Corda nodes
(`corda-rpc`) on top of a partial AMQP 1.0 implementation (`oasis-amqp`) with a
Serde serializer and deserializer of its own and a derive macro
(`oasis-amqp-macros`). The modules are translated from the Rust source; TLC
checks them on small instances and TLAPS proves the safety properties, all but
one, for every value of the constants. `PROJECT.json` maps every definition to the
lines it stands for.

Run anything here with

    tlc -workers 2 -config Faulty.cfg MCCordaRpc
    tlapm CordaRpc_proofs.tla

## 1. The system

| part | source | state it keeps | operations |
|---|---|---|---|
| Codec, Framed | `oasis-amqp/src/proto.rs:146-190`, tokio_util | receive buffer, `is_readable`, `eof`, `has_errored` | decode, encode, poll_next |
| `oasis_amqp::Client` | `oasis-amqp/src/proto.rs:10-143` | the transport, container and nothing else | connect, login, open, begin, attach, flow, transfer, next |
| `corda_rpc::Client` | `corda-rpc/src/client.rs` | the AMQP client, user name, a random client id | new, call |
| Broker and node (external) | none; recorded bytes in `oasis-amqp/tests/basic.rs` | sessions, links, credits, queues | answers frames, runs RPCs |
| Frame headers | `proto.rs:216-314`, `amqp.rs:22-69` | none | `Frame::decode`, `to_vec` |
| Message sections | `amqp.rs:20-140`, `de.rs:500-550` | the descriptor read ahead, the rest of the input | `DescribedReader::next`, `read` |
| Serializer | `oasis-amqp/src/ser.rs` | output, stack of size offsets | one method per Serde type |
| Deserializer | `oasis-amqp/src/de.rs` | input slice, current format code, `any` flag | one method per Serde type, nested windows |
| Derive macro, enum dispatch | `oasis-amqp-macros/src/lib.rs`, `de.rs:457-497` | none (compile time); the deserializer's | `enum_serde`, `struct_serde`; deserialize_enum, deserialize_identifier |
| Reply decoding | `corda-rpc/src/types.rs`, `network_map_snapshot.rs`, `proto.rs:193-207` | none | BytesFrame::body, Envelope::decode, Try, response |
| Type definitions, errors | `amqp.rs`, `sasl.rs`, `lib.rs` | none | |

How they interact. An application awaits `Client::new`, then `Client::call`,
which takes `&mut self`: there is one conversation at a time and no task of the
client's own. Both are sequences of `proto::Client` methods, and each of those is
a sequence of *send a frame* and *await the next frame*. Frames come out of
`Framed`, which drives `Codec`; the codec hands a complete frame to
`Frame::decode`, which takes its header off and hands the rest to the
deserializer (the performative) and the section reader (the message). The frame
`call` returns goes, in the application, through `BytesFrame::body` and
`response`. The broker works concurrently with all this and so does the node
behind it.

What is hard about it:

* The client keeps no protocol state. `self.transport.next().await.ok_or(())`
  answers Ok for any frame, for a decoding error and for an I/O error. Only the
  *number* of frames keeps client and broker together, so everything that changes
  the number (a dropped call, an unasked flow, an answer that overtakes another)
  shifts every later answer.
* A call can be dropped by its caller at every await; nothing cleans up.
* Each call attaches receiver handle 1 again and never detaches it.
* The connection may go at any point of a frame, of the login, of a call.
* TCP cuts frames anywhere, in the length prefix included; a rejected frame has
  left the buffer before it is looked at.
* Sizes are patched into the output at remembered offsets and cut windows out of
  the input; values have several encodings chosen at width limits, and a peer
  has the choice among more of them than this library writes.
* The deserializer has a flag, `any`, that changes what an identifier is, and
  that outlives the value it was raised for.
* At the end of the input some paths return an error and some panic.

`PROJECT.json` lists these as hazards, at their lines, with the properties that
cover them.

What makes each part correct:

* **Codec**: the buffer starts at a frame boundary; frames come out whole, once,
  in order; None means there are no more; only a malformed frame panics.
* **Client**: `new` returns a client only if the broker accepted everything
  before; a call returns its own reply; nothing of one call is left for the next;
  every call ends; the broker never sees an illegal frame.
* **Frame headers**: a frame comes back as it was sent; a frame with parts this
  library does not know is never taken for one without.
* **Section reader**: what is decoded is what was sent; a stale descriptor is
  never matched; which messages fail, and how, or are decoded to another is known.
* **Serializer and Deserializer**: what was written is read, also by an older or
  newer version of the type and in a peer's formats; offsets and windows nest.
* **Enum dispatch**: no variant is taken for another; every variant known is
  read in every form it may come in; the flag is up for an `Any` only.
* **Reply decoding**: a snapshot comes from a success that arrived whole and from
  nothing else; what cannot be read is an error.

## 2. The modules

    RpcService            what a caller is promised          (abstract)
        ^ implements
    CordaRpc   = CordaClient + Broker over Wire              CordaRpc_proofs
        ^ frames
    FrameStream           the frames, one per poll           (abstract)
        ^ implements
    FrameCodec            bytes -> frames                    FrameCodec_proofs
        v one frame
    FrameFormat           frame -> header and content        FrameFormat_proofs
    SectionReader         content -> message sections        SectionReader_proofs
    EnumTypes, Dispatch   which variant comes next           Dispatch_proofs
    Scalars               one scalar <-> bytes               Scalars_proofs
    CompositeReading      what a type makes of a value       (reference)
        ^ computes
    Composite             nested values <-> cells            Composite_proofs
    ReplyDecoding         reply -> snapshot                  ReplyDecoding_proofs

`MCxxx` modules give the constants of `xxx` values for TLC. The layers share no
variables; each assumes of the one below what that one promises. `Wire` and
`FrameStream` describe the same interface, a poll that answers a frame, an error
followed by a None, or a None: `PollFrame` is `Frame`, `PollErr` is `Reject` or
`Lost`, `PollNone` is `End`; a frame that panics the decoder is not one a broker
that speaks AMQP sends and is not in `Wire`. `FrameFormat` and `SectionReader`
start from one whole frame, `ReplyDecoding` from the frame `call` returned.

Definitions introduced as a *faulty variant* are not used by the specification:
each is a plausible mistake in the definition that follows it, kept to show that
the properties would notice it (`mutants` in `PROJECT.json`).

### FrameCodec, FrameStream

The peer's byte stream is fixed in advance: `N` frames end to end, frame `i` at
the bytes `Start[i] .. Start[i+1]-1`. The receive buffer is the window
`consumed .. received-1` of that stream. `readable`, `eof` and `errored` are the
flags of tokio_util's `ReadFrame`, and the actions are the turns of its
`poll_next` loop:

| action | code |
|---|---|
| `Read(n)` | a successful read of `n` bytes |
| `ReadEof`, `ReadError` | a read of 0 bytes; a read that fails |
| `DecodeFrame` | `Codec::decode` finds a complete frame (`proto.rs:150-170`): bytes are split off, then `Frame::decode` accepts, rejects or panics |
| `NeedMore` | `decode` answers Ok(None) |
| `DecodeEof` | the provided `decode_eof` |
| `AfterError` | the None that follows an error |

What `Frame::decode` makes of a frame's content is a constant: `Decodable` it
accepts, `Broken` it panics on, the rest it rejects. That four bytes of a
protocol header read as a length of 1095586128 is modelled, because the codec
depends on it. `cut` and `reset` say where the peer goes away, anywhere in a
frame.

`FrameStream` is what the caller of `next` sees of it: a counter and the last
answer. `FrameCodec!Stream` maps `handed` to the decode attempts on complete
frames, so that a byte read or a flag set is a stutter.

### Wire, CordaClient, Broker, CordaRpc, RpcService

`Wire` is the connection: a queue of frames each way, `link` (up, closed at a
frame boundary, truncated inside a frame, reset) and `Framed`'s error flag.
`SendOk`/`SendErr` are what `transport.send` may answer and
`PollFrame`/`PollErr`/`PollNone` what `transport.next` may. A frame is its kind
and the call it belongs to; what else it says, the client does not look at.

`CordaClient` writes each method as a script: `Login`, `Open`, `Begin`,
`Attach(role)`, `Flow`, `Transfer`, `PollNext`; `New` and `Call` concatenate
them in the order `client.rs` awaits them. `pc` and `step` are the position of
the future, `calls` the number of calls made, `result` what each returned.
`Transmit`, `Receive` and `TakeReply` are one step of a script each, with the
error path of the code: `?` in `new` and for the attach and flow of `call`,
`unwrap` for its transfer (`client.rs:155`), a dropped error for its last frame.
`StartCall` is the application, `Cancel` the application dropping the future at
an await: of a frame, or of a flush, when the frame is in the buffer already
and goes out with the next call's.

`Broker` is external. It takes the answers from the bytes recorded in
`oasis-amqp/tests/basic.rs` and from what the client waits for. `Faults`,
`HandleReuse`, `EagerHeader`, `Credit` and `LowCredit` are the choices AMQP 1.0
leaves it where the client relies on one: refusing a login or a link, replying
before settling, losing the connection, what to do with an attach on a handle in
use, whether to send its AMQP header unasked, when to top up credit. Everything
its state does not allow it answers with a close (`Reject`), so `NeverRejected`
is a statement about the client.

`CordaRpc` composes them and adds one history variable, `quiet`: the calls that
started with nothing under way (`Quiescent`).

`RpcService` is the abstract specification: opening, calls one at a time, each
answered at most once, an answer Ok only after the node ran *that* RPC, an error
promising nothing, everything ending. `CordaRpc!Service` is the refinement
mapping; a call that returned anything but its own reply maps to an outcome the
abstract specification has no step for.

### FrameFormat

One frame, by bytes: `Encode` is `Frame::to_vec`, `PeerEncode` an AMQP 1.0 peer
with an extended header and a channel. `DecodeAmqp`, `DecodeSasl` and
`DecodeOther` take the header off as `Frame::decode` and `amqp::Frame::decode` do,
which count the extended header in bytes where AMQP counts words. What the
deserializer then finds where it thinks the performative is, is an action for each
arm of `deserialize_identifier`: `ReadByteNumber` (0x50, 0x53), `ReadUInt`
(`read_u32`, which takes the format code for a byte of the number, and four bytes
where there may be fewer), `ReadULong`, `ReadName` and `ReadNoCode`; then
`ReadFields` and `ReadMessage`. A performative's fields are one byte and so is a
message; `InSync` says that what is read as fields was written as such. Where it
was not, `ReadOthers` leaves open what comes of it, as it does for a symbol. An
extended header may hold any bytes.

### SectionReader

The single pass of `DescribedReader` over a message as `Frame::decode` makes it
(`amqp.rs:38-52`): `NewReader`, then one `ReadMatched` or `ReadSkipped` per
section type, `ReadBody` or `ReadBodyOpened`, `AfterBody`, `ReadFooter`.
`ReadAhead` is `reader.next()`: at the end of the input it leaves
the old descriptor in place, and at a null it runs into `assert_eq!`.
`Body::deserialize` reads its own descriptor, which is there only after
application properties (`ReadBody`); without them it was read ahead, and the
body's value is taken for a variant identifier (`ReadBodyOpened`). A section is
its kind, and an amqp-value one of ten kinds (`BodyKinds`), by what its value is
to `Any` and to an identifier: a small uint runs `read_u32` off the end, a ulong
of 0x76 names a Sequence, which then takes a footer's map for its list. The
messages are the constant `Messages`; their sections have descriptors the library
knows and, amqp-values apart, values their types read.

### EnumTypes, Dispatch

`EnumTypes` lists every enum of the protocol: which code reads it (the macro's,
serde's derive, or one written by hand), how this library and how AMQP write it,
and its variants with their codes, names and content. `Dispatch` writes a
sequence of values and reads it back with one Deserializer. `Expand` is the macro
at compile time; `Write` appends one value, with the value it holds, to the cells
`input` and to the history `sent`; `EnterEnum`, `ReadIdentifier` and `ReadContent` are
`deserialize_enum`, `deserialize_identifier` with the generated visitor
(`Matches`), and the variant's content, with the `any` flag set and cleared where
the code does. `OwnForm` is how `ser.rs` writes a variant, `PeerForms` all the
forms a peer may choose; they have none of `OwnNames`, the names this library uses
and AMQP does not (`amqp:value:*`, `SCRAM_SHA1`). The variant `Foreign` is one that the other side has and
this library has not.

### Scalars

One behaviour per value and writer: `Write` chooses a format code and bytes as
`ser.rs` does, `PeerWrite` takes any encoding of AMQP that holds the value, `Read`
gives what `de.rs`, `Any::deserialize` and an AMQP 1.0 peer make of them. Bytes
are known by the number they make: a byte has `Base` values and a type `Size[t]`,
so that all values of all types can be tried and every comparison with 256 is at
its limit; signed numbers are two's complement of that width. Floats are their
bits; strings and byte strings are their lengths.

### Composite, CompositeReading

The Serde recursion with an explicit stack, `todo`: the parts still to be written
or read of the innermost composite first, then of those around it. `WriteScalar`,
`WriteComposite` and `WriteEnd` are `ser.rs` with its stack of offsets: the size
is left 0 and patched at the end of the composite. A peer writes with the same
steps and its choice of formats (`Formats`), and has two of its own:
`PeerEmptyList`, a list without a size, and `PeerArray`, one constructor for all
the elements. Each case says who writes (`writer`) and as which types the value
may be read; the reader's type may have fewer or more fields than the writer's.

`StartRead` hands the bytes to `de::deserialize`, all of them or all but some at
the end, which is what the first of several transfers brings (`Cuts`). `ReadNumber`,
`ReadStr`, `ReadTuple`, `ReadOption`, `ReadSequence`, `ReadMap` and `CloseWindow`
are `de.rs` with nested Deserializers as a stack of windows, each with the
constructor an array gave it. `Header` is what `composite()` makes of a format
code, a size and a count; `BadHeader` is where that panics, by a slice out of
range or an underflow. A number is of one of two sorts: an `int` has several
formats (`u32`, `u64`, `i32`, `i64`), and any other format code is an error; a
`fixed` one has a single format (`u8`, `u16`, `i8`, `i16`, `f32`, `f64`), which
`assume()` asserts, so that any other panics, as a peer's `priority` or
`channel_max` would. A scalar, descriptor, size or count is one cell. Where the
code takes an element's data for a format code the model stops, in phase
`garbled`: what follows depends on the data.

`CompositeReading` is the reference: `Expected`, a recursive function of a value, a
type and a part, says what the type makes of the value and knows nothing of
offsets and windows. It goes down in the type (`Height`, which has a value for
every type that is a finite tree) or on to the next part, and so is defined for
every value. Every type is read against every value, but one case says nothing:
a type that is a map, against a list with an odd number of parts or an array. A map
has no window of its own there, and what follows depends on what lies behind.

### ReplyDecoding

One reply from the frame to the caller: the form of the body, whether it is whole
or the first of two pieces and where it is cut, the magic, Corda's section id, the
class of the object, how many fields each NodeInfo has and whether anything
follows the object. `DecodeFrame`, `Body`, `Magic`, `Section`, `Envelope`, `ReadTry`,
`ReadValue` and `Rest` are the checks in the order of the code, each with its error
or panic: bytes behind the object are looked at last, when all of it was decoded.
`NodeInfo` has the fields asked for, since it depends on the first missing one's
type whether a shorter one is an error (a list) or a panic (a number).

## 3. The runs

| run | question | instance |
|---|---|---|
| `frame_codec` | does the codec keep its place, hand over every frame, and implement `FrameStream`? | 5 frames: headers 1 and 3, an empty one of 8 bytes that is rejected, one of 10 that is accepted, one of 11 that panics the decoder; every cut into reads; every point of close or reset |
| `faulty` | do calls in a row succeed while nothing is lost, and is `RpcService` implemented when something is? | 6 calls, login refused, connection lost anywhere, session ended by a reused handle |
| `dropped` | what survives dropped calls? | 3 calls, each may be dropped at each await |
| `hostile` | what survives everything at once? | 2 calls, all faults, all reactions to a reused handle, credit for 2 |
| `frame_format` | which frames come back? | AMQP, SASL and undefined frames of both writers; every extended header of four bytes, three of them of nine sorts the deserializer tells apart, and some of two and of three words |
| `section_reader` | which messages decode, to what? | all 1 023 messages of optional sections and no body, a null, a body of each kind, or data or sequences in two sections |
| `dispatch` | which variant is taken for which? | every variant of every enum and one unknown, in every form, alone and before another: some 6 500 inputs |
| `scalars` | exactly which values survive? | bytes of 4 values, types of 1 to 4 bytes, both writers |
| `composite` | do nested values survive, across versions of a type and writers, and do sizes and windows nest? | 84 790 pairs of value and type from this library and 54 000 from a peer, three levels deep, each whole and without its last one or three cells |
| `reply_decoding` | which replies give a snapshot? | 4 fields asked for, 0 to 5 sent; every form, cut and class, with and without more behind the object |

What they show, the parts that are not obvious:

* `frame_codec`: `Aligned` and `InOrder` hold however the stream is cut.
  `NoneMeansDrained` has an exception that the code makes: a frame rejected just
  before the end of the stream takes the frames buffered behind it with it,
  because `Framed` ends the stream after an error and does not look at the buffer
  before the next read. `EveryFrameDelivered` is the same as liveness.
  `ImplementsStream` adds that an error is always followed by a None and that only
  a malformed frame panics.
* `faulty`: `NothingLeftBehind` is the reason a client that counts frames works
  at all: between calls nothing is under way. `NewSucceeds` and `CallSucceeds`
  say that only a lost connection, a refused login (which closes it) or an ended
  session keeps `new` and `call` from succeeding; `ImplementsService` that even
  then they end. `PanicMeansSessionLost` says when the `unwrap` panics;
  `ReadyMeansAttached` that a client is only returned after the broker accepted
  all of the handshake, though its answers are not looked at. Everything holds
  because the credit outlasts the calls; see `hostile`.
* `dropped`: a dropped call's answers are taken by the next, so
  `CallReturnsOwnReply` is false here; `QuietCallReturnsOwnReply` is what remains:
  once the leftovers are gone the connection is as good as new. `CallReturns`
  holds because the broker answers every frame.
* `hostile`: `RepliesAreReal`: a returned reply is one the node sent, to this
  call or an earlier one, and no two calls return the same. `ReadyMeansSession`
  is what the handshake still proves when links may be refused.
* `frame_format`: own frames return but for their extended header; a peer's frame
  with an extended header is never read as it was sent. It is an error, unless the
  first byte read of that header (behind a zero, if there is one) is the format
  code of a byte number that is a body's code, of a ulong or of a symbol: then it
  may be taken for another frame or panic. The format code of a uint panics where
  an empty frame has fewer than four bytes left.
* `section_reader`: with application properties a message decodes exactly when it
  has a body that is data, a sequence or a value `Any` reads; without them only
  when an amqp-value is taken for another body (`AcceptedMessages`), with or without
  the footer for its list. A body in two sections loses the second and the footer
  silently, and a described value its descriptor (`DecodedIsSent`). `PanicsExactly`
  says which panic: a null, a small uint or a value that names data, where the
  descriptor is gone; where it is not, a value described by the number of a null or
  a byte that is neither.
* `dispatch`: no value is ever taken for another variant (`VariantsAreSent`); all
  variants are read but `TerminusDurability`, a uint, which this library cannot
  read in any form, and `Any::None` as it writes it, a symbol, which its `Any` does
  not know (`KnownVariantsAreRead`); what it writes is what AMQP has for the value
  but for the settle modes, the SASL codes, that None and the names of its own
  (`PeersCanRead`).
* `scalars`: `RoundTrip`, `PeerAgrees` and `PeersValuesAreRead` are equivalences:
  they say which values survive and that no others do. Negative `i32`/`i64` do
  not, a char panics, `Any` reads only part of what it writes.
* `composite`: `ReadsWhatWasWritten` compares with `Expected`, a recursive
  function of value, type and part that knows nothing of offsets and windows; it
  says which of a peer's formats are read, fail, panic or are garbled, and that a
  number type with one format panics where the others fail.
  `SizesNest` and `WindowsNest` are about the way there: every composite gets its
  own size, two sizes never overlap in part, and no Deserializer reads outside of
  its window, however the type differs from what was written and wherever the
  bytes end. `ConsumedWhole`: what is returned was all of the bytes, and a value
  that came in part is never returned.
* `reply_decoding`: `SnapshotExactly` is an equivalence. A failure of the node is
  a decoding error, never a failure, because `Failure`'s descriptor name is a
  placeholder; a reply in two data sections or transfers is never read, and bytes
  behind a success are an error.

Two runs look for a violation and find it; each is a finding in `PROJECT.json`:

* `array_format`: what `serialize_seq` writes `deserialize_seq` cannot read
  (`ser.rs:262`).
* `unit_variants`: the `amqp` macro panics on a unit variant, which its
  documentation supports (`oasis-amqp-macros/src/lib.rs:82`).

Three more disagreements with what a user may expect are in the hazards; the
model shows them when a constant is changed:

* `login()` answers Ok whatever the SASL outcome says (`proto.rs:47`); a refused
  login shows only later, when the broker has closed the connection.
* With `EagerHeader = FALSE`, a broker that sends its AMQP header only in answer
  to the client's, `NewSucceeds` fails: both wait for ever (`proto.rs:48`).
* With `"reorder"` in `Faults`, a reply that overtakes the disposition is dropped
  and the disposition returned as the reply (`proto.rs:133`):
  `CallReturnsOwnReply` fails.

So these hazards, and that of a broker topping up credit, are not caught by a
property: where `CallReturnsOwnReply` and `NewSucceeds` are checked they cannot
occur, and where they can, in `hostile`, a call may return another's reply, which
`RepliesAreReal` allows. A refused link is only in `hostile` too, and a client is
returned in spite of it; `ReadyMeansSession` says what is sure nevertheless.

### Bounds, and why they are enough

* *Frames* (`N`, 5): one of each kind, a rejected one before good ones, a fatal
  one last; a sixth would repeat one of them. Frames shorter than their own
  header, below 8 bytes, are only in the proof, for which lengths are any from the
  prefix's own 4 on; a length field below 4 is in neither (`LengthAssumption`).
* *Calls* (`MaxCalls`): two are needed for one call to meet another's leftovers,
  three for the leftovers to cross a whole call, six in `faulty`, where calls
  repeat. The invariants proved hold for every number.
* *Credit*: 1000 and 300, out of reach, where the run is not about credit; 2 and
  1 in `hostile`, where the broker tops up after the first transfer.
* *Values*: `Composite`'s scalars are numbered by place, so that one read in the
  wrong place shows; two levels of nesting make a window's parent a window;
  three parts put something before, in and after each nested value. Peers' values
  have two parts, in all combinations of formats.
* *Enums*: two values in a row show what the flag and the position are left at
  for the next one.
* `MaxFields` bounds the fields a node sends, to one more than are asked for.
* There is no bound in any guard other than `MaxCalls`, the application's number
  of calls.

Two configurations do not check for deadlock. In `hostile` a broker that
ignores an attach leaves the client waiting for ever, as the code does; in
`frame_codec` a panic stops the client. Everywhere else the only state with
nothing left to do is one where the program is over, and an explicit step says
so.

### Fairness

* The client's own steps are weakly fair: an executor polls a future that was
  woken. A step that awaits a frame is enabled only when there is a frame, an
  error or an end to be had, so this promises nothing of the broker.
* The broker is weakly fair in reading a frame, and for each call in settling,
  running and answering it. This is the assumption that the node answers: the
  client has no timeout, and without it no call need ever end.
* `FrameCodec`: weak fairness of Next, i.e. the peer's bytes arrive and the
  caller goes on polling.
* Nobody has to call, to drop a call, to lose the connection or to top up credit.
* The other modules are one pass over one input and state no liveness.

## 4. The proofs

All are checked by TLAPS from the named assumptions on the constants and nothing
else.

**FrameCodec_proofs.** For every number of frames, all lengths, every set of
rejected and fatal frames, every cut into reads: `TypeCorrect`, `FrameAlignment`
(`Aligned`), `FramesInOrder` (`InOrder`), `OnlyMalformedPanics`
(`PanicIsMalformedFrame`), `DrainedAtEnd` (`NoneMeansDrained`),
`ImplementsFrameStream` (`ImplementsStream`). The first four are one inductive
invariant, `IInv`: `Aligned` is not inductive alone, because where the buffer
starts after a step depends on which frame the code takes to be at its front.
`FrontOnBoundary` shows that on a boundary that is the next frame,
`TakenIsOneFrame` that what is split off is nothing or exactly that frame, from
the length field or the protocol header; the step `DecodeFrame` then moves from
one boundary to the next. `Accounted` adds that the frames before the boundary are
the ones handed over. `DrainInv` carries what the flags mean: at end of file the
decoder leaves the buffer only when no complete frame is left in it, or after
rejecting one.
`ImplementsFrameStream` maps each turn of the loop to a step of `FrameStream` or a
stutter from the same facts. Assumptions used: lengths of at least four bytes
(`LengthAssumption`) and no frame whose length field reads as `AMQP`.

**CordaRpc_proofs.** For every number of calls, every set of faults, every
credit and every reaction to a reused handle:

* `TypeCorrect`: the types of client, wire and broker. In particular the client
  never leaves its scripts, and a call's identity in a frame is that of a call
  made.
* `SessionReady` (`ReadyMeansSession`): a client that `new` returned has a
  session, whatever is refused and whenever the connection is lost.
* `LinkReady` (`ReadyMeansAttached`): if the broker refuses no link, it has its
  sender link too.

`ReadyMeansSession` is far from inductive: the client returns after receiving
eight frames of which it looked at none. `LockInv` is the argument that counting
is enough. While the connection is up, `Lockstep` lists the pairs of the client's
position and the broker's stage that can occur, with the frames under way in each
direction; once it is lost nothing more is sent, and `NewBound` says that the
frames received and still to be received (`Owed`), an I/O error counted as one,
are at most one more than the broker had sent (`Sent`), which is not enough to
bring the script of `new` to its end from any stage before the links. That one is
the margin: had `new` one receive less, a reset, or a connection lost inside a
frame, would be enough to return a client without a link.

Of the calls, with every fault, dropped call and reaction to a reused handle:

* `PanicIsLoss` (`PanicMeansSessionLost`), by `LossInv`: an error to be polled comes
  only after the connection is lost or the session ended.
* `RealReplies` (`RepliesAreReal`), by `Requested`, which gives each request one
  place, and `Replied`, which gives each reply one: its queue, a frame under way, or
  a result.
* `LegalFrames` (`NeverRejected`): dropped calls included, each frame under way will
  find the broker in a state that allows it (`Expected`: a flow its link, a transfer
  its credit). Assumed for this one: no refused link, and calls not more than the
  credit first granted.

And under `Orderly`, which is that the broker does not reply before it settles,
refuses no link and is not short of credit. The connection may be lost at any
moment, the login refused, and a reused link replaced, ignored or answered by the
end of the session.

* `QuietReplies` (`QuietCallReturnsOwnReply`): whatever calls were dropped before, a
  call that starts with nothing of the past under way returns its own reply or an
  error. Dropped calls leave unread replies in their queues for ever; `Quiet` says
  which queues matter, and that the broker's link reads none of the others.
* If no call is dropped (`~MayCancel`), every call is such a call: `OwnReplies`
  (`CallReturnsOwnReply`), `NothingLeft` (`NothingLeftBehind`), and `ServiceSteps`,
  the safety half of `ImplementsService`: each step of the composition is a step of
  `RpcService` or a stutter.

`CallTable` is the lockstep of `Call`: for each position of the client, what is
under way and how far the broker is; `Remaining` is what can be left of it once
the connection is lost.

**FrameFormat_proofs.** `OwnFrames` (`OwnFramesReturn`), `PlainFrames`
(`PlainFramesAreRead`), `ExtendedFrames` (`ExtendedFramesAreLost`), for every set of
frames that `FramesAssumption` allows: extended headers of any bytes and of any
length an offset can count, every channel, descriptor and spare byte. `FrameInv` is the invariant. `Written`
says byte by byte what either writer wrote; a frame without an extended header is
then read along one path at fixed positions, and one with it is read from a byte
inside of the header, since `Frame::decode` skips less than was written.

**SectionReader_proofs.** `TypeCorrect`, `FreshMatches` (`MatchIsFresh`),
`SentIsDecoded` (`DecodedIsSent`), `Accepted` (`AcceptedMessages`), `PanicsKnown`
(`PanicsExactly`), for every message with its sections in order. `Progress` says,
in the ranks of sections, that what was taken lies before what is asked for and
what is left does not. At the body that makes what comes next the message's only
kind of body (`NextBody`, `OneKind`), so that one look decides of the whole message;
`ReadTo` is what has been taken after it, the footer included where a Sequence took
it.

**Dispatch_proofs.** For every table of enums that `DefsAssumption` allows and
every sequence of values in any form a writer has for them:

* `FlagIsForAny` (`FlagMeansAny`), by `FlagInv`.
* `DescriptorsTellApart`: if the variants of an enum differ in code and name, none
  sent is taken for another.
* `VariantsRead` (`VariantsAreSent`) and `KnownRead` (`KnownVariantsAreRead`), by
  `DispatchInv`. Where the reader is depends on how many cells each value before it
  took and on which enums those values opened, so the invariant carries two maps:
  `Placed` says where in `input` the cells of each value sent start, and `Ordered`
  in which of the values written it lies, the one after it inside it if it holds
  one. `Reading` then says that the reader stands at the first cell of the next
  value, or at a fixed distance from it, and that the enums still asked for are
  those of the values to come. `Forms` and `Recognized` are the argument for one
  value: in any form its enum allows, the arm of its own variant matches and no
  other does.
* `OwnValuesAreLegal` (`PeersCanRead`), assumed `Defs = Enums`, the table of this
  library.

Both make an exception of `Any::None`, for which `OwnForm` is a symbol.

**Scalars_proofs.** `OwnScalars` (`RoundTrip`), `PeersAgree` (`PeerAgrees`),
`PeersScalars` (`PeersValuesAreRead`) and `AnyScalars` (`AnyReadsLittle`), for every
even number of values of a byte and of each type, the types with a short form and
a long one having more values than a byte (`BaseAssumption`, `SizeAssumption`): 256
and the widths of the code are one choice. All four are equivalences, so a proof
has to say of the values that do not survive that they do not. `Written`, the core
of the invariant `ScalarInv`, says what each format code tells of the value behind
it. The lemmas are about numbers: a value within its width is read back from its
own bytes (`TwosComplement`, `Whole`), and a byte that was cut off a value makes the
value exactly when that is not negative (`Small`).

**Composite_proofs.** For every set of values and types that is closed under
parts, every depth, both writers, and any number of cells missing at the end:

* `Sizes` (`SizesNest`) and `Windows` (`WindowsNest`), from one inductive invariant,
  `CompositeInv`. While a value is written there is one open size for each level of
  `todo` but the outermost (`Opened`), which is why `end` has an offset to take. A
  size closed ends where the output does, and so around or behind every size
  patched before (`CloseOne`); what is appended goes behind the closed and inside of
  the open ones (`Grow`, `OpenOne`). While it is read there is one window per level
  of `todo` (`Windowed`), so that the one dropped is the one made for the parts
  just read; `HeaderRead` is the arithmetic by which a header that does not panic
  leaves its window, and the parent, inside the parent's.
* `Consumed` (`ConsumedWhole`), by `WholeInv`: what is written is one value, whose
  size, if it has one, ends where the output does (`Begun`, `Complete`), and the
  outermost Deserializer passes all of it in the step that reads a scalar or enters
  a composite, whatever the nested ones do then. The type asked for may not be an
  option or a map (`TopLevelAssumption`), which no caller of `de::deserialize` asks
  for: an option is satisfied by the end of the input, and a map has no window. The
  map sections of a message are read the same way from the message's own input, and
  are not covered by this.
* `Written`: what the cells mean. `Lies` says when a stretch of cells is a value, in
  one of the formats its kind has, with its parts end to end behind the header.
  `WrittenInv` has a set of what `Lies` where, and for every composite still being
  written how many of its parts lie there and where the next begins (`Begins`).
  What lies stays when more is appended and when an open size is patched
  (`LiesStill`), since a size is open only while no value that lies includes it.
* `ReadAsWritten` (`ReadsWhatWasWritten`), by `ReadInv`. The code reads with a stack of
  windows, the reference recurs; between them, each level of `todo` has the values
  it is about to read, where each lies, and for each a result: what becomes of
  the rest, from that part on and out through the levels around it (`Level`). The
  invariant is that what was decoded, followed by the result at the front, is
  `Expected` of the whole (`ReadingAs`). A step takes one equation of `Expected`
  from the reference to the stack: a scalar adds its leaf (`Takes`), an option that
  holds something is asked for as its content (`ReadsOption`), a composite puts its
  parts on a new level (`Enters`) and a map on its parent's (`Merges`), where two
  levels are joined (`LevelJoined`), a window closed passes the parts nobody asked
  for (`ReadsCloseWindow`), and a step that fails is one whose result was that failure
  (`StopsWith`). `HeaderSpread` is where the two halves meet: behind the header of
  what lies, exactly its parts. `ExpectedDef` says that `Expected` satisfies its own
  equation, by well-founded recursion: the least height at which it would not is
  taken (`LeastNumber`), since the induction theorems of the library cannot be used
  here. Assumed besides: `HeightAssumption`.

**ReplyDecoding_proofs.** `SnapshotFromSuccess`, `WholeNeverPanics`,
`PiecesFail`: the three properties of the run, for every number of fields sent, by an
invariant that says which checks a reply at each point has passed and what its
verdict can be.

Only model-checked:

* the liveness properties, `NewSucceeds`, `CallSucceeds`, `CallReturns`,
  `EveryFrameDelivered` and the liveness half of `ImplementsService`, which need
  fairness and ENABLED.

## 5. Not modelled

* **Struct types** one by one (`amqp.rs`, `types.rs`): each is a list of fields,
  read and written as `Composite` says; of the enums all are in `EnumTypes`. That
  `Performative` has no variant for a session's end frame is in `Wire`
  (`Decodable`).
* **Error types**: conversions; every caller of the client maps them to `()`.
* **Example and tests**: callers.
* Booleans inside other values (alone they are in `Scalars`).
* The contents of strings, and the data of array elements where the code takes
  them for format codes (`garbled`).
* Of the broker: several sessions, transactions. Messages in several transfers
  are in `ReplyDecoding`, which shows that they panic, and not in `CordaRpc`.

## 6. Plan

In the order of importance:

1. `FrameCodec`, `FrameStream`, their run and proofs. *Done.*
2. `Wire`, `CordaClient`, `Broker`, `CordaRpc`, `RpcService`, three runs; the
   safety properties proved. *Done, but for the items below.*
3. `SectionReader`, `EnumTypes`, `Dispatch`, `FrameFormat`, `Scalars`,
   `Composite`, `ReplyDecoding`, their runs and proofs. *Done.*
4. `Scalars` without digits and `Composite` without RECURSIVE operators, and their
   proofs; `CompositeReading` as a recursive function, and the proof that reading
   computes it. *Done.*
5. To be composed: a reply in several transfers in `CordaRpc`, where it is several
   frames for one call.

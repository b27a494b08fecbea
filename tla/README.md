# A TLA+ model of clickhouse-arrow

clickhouse-arrow is an asynchronous ClickHouse client in Rust. A `Client` is a
handle that many tasks share; behind it a few connections to one server, each
with a task that owns the socket. What goes over the socket are packets, whose
blocks are written and read by one of two formats: native (rows of values) or
arrow (record batches). This directory models how these parts work, alone and
together, checks the models with TLC and proves the main results with TLAPS.

## 1. The system

Paths are relative to `clickhouse-arrow/src/`.

| part | state | operations | what makes it correct |
|---|---|---|---|
| client calls (`client.rs`, `client/response.rs`) | the call's oneshots and its response stream | `query_raw` and everything on top of it, `insert`, `insert_many`, `insert_rows`, `query_rows`, `health_check`, `shutdown`, drop | every call ends; a stream is the whole answer of its own query, in order, or ends with an error |
| connection handle (`client/connection.rs`) | status (an atomic), operations channel (1024) | `connect`, `send_operation`, `check_connection`, `shutdown`, `Drop` | the status of a working connection is Open; shutdown releases all callers |
| io task (`client/internal.rs`) | `pending`, `executing`, its query state | `run_inner` (`select!` of an operation and a packet), `handle_operation`, `receive_packet`, `receive_ping`, `send_query`, `send_insert` | one query at a time, FIFO; a response is credited to the query it answers |
| inner pool (`connection.rs`, weights in `internal.rs`) | 3 to 5 connections, `load_counter` | `AtomicLoad::assign`, `finish` | a lane is the load of its connection; data follows its query |
| chunked transport (`client/chunk.rs`) | writer buffer; reader state and remaining size | `poll_write`, `finish_chunk`, `poll_read` | the bytes read are the bytes written |
| builder and sockets (`client/builder.rs`, `options.rs`, `tcp.rs`) | the builder, whether it is verified | setters, `verify`, `build`, the pool's manager | what is dialled is what was asked for last |
| handshake, packets (`connection.rs`, `client/reader.rs`, `client/writer.rs`, `native/protocol.rs`, `settings.rs`, `query.rs`) | revision, chunk modes, the settings the server told | hello, addendum, query, packets of the server | both sides read each field the other writes; settings asked for are in force |
| native format (`native/`, `io.rs`, `compression.rs`, `formats/native.rs`) | the place in the stream | blocks, type names, codecs | what is written is read, in place |
| rows and values (`native/convert/`, `native/values/`, `clickhouse-arrow-derive`) | a `RawRow` | derive(Row), FromSql, ToSql, dates, decimals | a value comes back as it was, in its own field |
| arrow format (`arrow/`, `formats/arrow.rs`, `schema.rs`) | the builders of a query | type mapping, codecs, `query_rows`, DDL from a schema | a batch inserted into the table made from it comes back |
| pool (`pool.rs`), cloud wakeup, spawn | bb8's idle connections | `is_valid`, `has_broken`, backoff | a broken client is not handed out |

How they interact. A call sends `Operation::Query` with a oneshot to the io task
over a bounded channel. The io task writes the query, answers the oneshot with
the receiver of a response channel (32 blocks), and forwards the packets of the
server to it until EndOfStream or an exception. An insert sends its data as a
second operation. Rust ownership is part of the protocol: dropping a sender is
how a task that ends tells its callers.

What is hard. (1) `select!` drops the future of the branch that loses, with
whatever it has read or holds. (2) Responses carry no query id. (3) The status
is read in one step and used in another. (4) Failures happen between any two
steps: a broken connection, a fatal exception, an abort, a caller that goes away.
(5) Several lanes share one atomic counter. (6) `poll_read` sees any split of the
bytes. (7) Nothing on the wire says where a field or a packet ends: one condition
on the revision, one mask or offset too many, and everything behind it is read
wrong. (8) State outlives what it was made for: builders, told settings, a
verified destination. The list with lines is `hazards` in `PROJECT.json`.

## 2. Modules

| module | models |
|---|---|
| `ConnState` | the variables of one connection, its packets and messages, who owns which sender |
| `ClientCalls` | the callers, and the part of `connection.rs` that runs in their tasks |
| `InternalConn` | the io task, from `select!` to the end of the spawned task |
| `ClickHouseServer` | the server and the TCP connection (external) |
| `Connection` | the three composed; fairness; the properties |
| `QueryService` | the abstract specification: a first-come first-served service for one query at a time, without channels or queues |
| `ConnectionProofs`, `ServiceProofs`, `StreamProofs` | theorems about `Connection`: types and being in step; the refinement; the streams (each extends the one before) |
| `InnerPool`, `MCInnerPool`, `InnerPoolProofs` | the load balancer, its instances, its theorems |
| `ChunkIO`, `ChunkIOProofs` | the chunked transport, its theorems |
| `Wire` | the stream as cells; variable length integers, strings, compressed frames |
| `Kinds`, `ChTypes`, `ChValues` | what types, values and blocks there are; types with their names (printed and parsed) and their validation; values |
| `NativeCodec`, `NativeBlock` | each kind of type written and read, asynchronously and synchronously; blocks and `NativeFormat` |
| `BlockStream` | a stream of native blocks, its writer and its reader |
| `Convert`, `Dates`, `Numbers` | FromSql and ToSql; dates and times; decimals and 256-bit integers |
| `ValueMaker`, `ValueProofs` | a caller that makes dates, times, numbers and variable length integers, and what comes back; its theorems |
| `RowDerive`, `RowStream` | the code derive(Row) makes, and `RawRow`; `BlockStream` with a client that works with rows |
| `ArrowTypes`, `ArrowCodec`, `ArrowBlock`, `ArrowRows` | the type mapping, each codec, batches and `ArrowFormat`, batches as rows of values |
| `TableDDL`, `ArrowTable` | CREATE TABLE from a schema; a client that makes a table, inserts, selects |
| `Settings`, `Handshake`, `ServerPackets` | settings and their encoding, chunk modes and their negotiation; hello, addendum and query by revision; the packets of a server |
| `ClientSession`, `SessionProofs` | one connection byte by byte: client and server (external); its theorems |
| `ClientBuilder`, `BuilderProofs` | the builder, resolution, what is dialled, the pool's manager; its theorem |
| `Client` | builder, session, native and arrow client as tasks of one client |
| `SampleTables`, `SampleBatches`, `MCClientSession`, `MCClient` | what the runs write, ask and say |

`Connection` says when the io task may take which step and abstracts what the
bytes mean; `ClientSession` and the formats say what the bytes mean and take the
steps one after another.

### One connection

`pc[r]` is the await point call `r` has reached (the table is at the top of
`ClientCalls`); `io` is the one of the io task (top of `InternalConn`). One action
is what runs between two await points, so that every interleaving tokio can
produce is there. Details worth knowing:

* Dropped senders are not stored. `RespDropped`, `HdrDropped`, `InsDropped` and
  `StreamEnded` derive them from where the sender is: in a queued message, in
  `pending`, in `executing`, with the task.
* `RecvOperation` is the operation branch of `select!`. It is enabled both while
  the task waits for a packet and while it waits for room in a response channel;
  it tears a packet that was half read (`partial`) and forgets the item in `held`.
* `dropped` remembers, for the properties only, what the code loses without a word: the
  items of cancelled reads, and (`Rest`) that the task ended while a query was executing.
* A packet of the server carries the request it answers only for the properties;
  the client never reads that field.
* A write on a broken connection fails or disappears in a buffer
  (`WriteMayFail`).
* A torn packet is decoded from its middle: an error, an ignored packet, or, by
  accident, EndOfStream (`ReceiveTorn`).
* The environment is chosen by `Faults`, so that each run asks its question in the
  smallest environment in which it is interesting. `"abandon"` lets a call be given
  up while it waits, as `is_valid` does with a ping after two seconds.
* The server answers a query with a header block, blocks and one final packet
  (`ServerAnswers`); it may raise an exception at any point of its work instead
  (`ServerFails`). An insert reads data up to an empty block.
* Abstracted here: SQL text, settings, the content of blocks, events (a broadcast
  that never blocks), and the packets that the io task ignores. A batch of
  `insert_many` is one Data packet. The io task is assumed not to block in a write
  for ever.

### Inner pool

`load` is the packed counter with its width (`LaneSize`, `Lanes`). A call chooses
its connection from one read of the counter (`Assign`) and adds its weight in a
second step (`AddLoad`), as the code does; for the insert operation the choice does
not read the counter, and both are one step. A connection is only up or down.
What a call has added to a lane and will give back are its units (`Held`);
`LoadExact` compares the lane with their number.

### Chunked transport

Bytes are records: place and value for a header byte, a serial number for a
payload byte, so that every loss, repetition or confusion is visible. One
iteration of the loop in `poll_read` is one action. `Futures` says what the caller
does when `poll_read` returns Pending: `read_exact` keeps its buffer, the integer
futures of tokio start a new one. `turn` only makes an iteration of the endless
loop visible as a step.

### The stream

A stream is a sequence of cells `<<width, value>>` (`Wire`): a variable length
integer, a string, a number of so many bytes, or a compressed frame, whose value is
the cells in it. Reading a cell with another width is being out of place (`torn`):
nothing is decided about what such a read makes of the bytes. Results are records
`[st, v, rest]` or `[st, out]`, where `st` is `ok`, `err` (Result::Err), `panic` or
`torn`, and `out` is what a failed write has left on the stream. Values are sequences
of small integers, so that their contents are told apart and their arithmetic is
kept only where a property is about it (`Dates`, `Numbers`, index widths,
dictionary offsets). The asynchronous and the synchronous codecs of the code are
written out twice in the source; here they are one definition with a `mode` where
they differ, and the differences (readers the synchronous side leaves out, the byte
order of a default) are kept.

Type names are sequences of tokens; `Show` prints them and `FromStr` parses them
with the code's state machines for arguments and enum options, since a reader sees a
type only through its name.

A column of a batch is `[dt, nulls, x, offs, kids]`: arrow's buffers, with a slice as
arrow makes it (shared children, own offsets). `Logical` gives what a column says, row
by row, and is the reference for every arrow property; it reads nothing of the codecs.

### The session

The server of `ClientSession` reads and writes each field from the revision that
ClickHouse's protocol documents it for, by its own layouts (`ClientHelloLayout`,
`AddendumLayout`, `ClientInfoLayout`, ...), which share only the names of the
revisions with the client's. It uses the older revision, compresses as the query
asked, refuses some clients, changes its settings on SET, and answers with any
packets in any order that a header comes first in. Its profile has settings, which
newer revisions tell in the hello. Its two modes are, by the protocol and by the names
at `reader.rs:204`, those of its sending and its receiving, in this order, and it
holds what the client settled on for sending against its receiving and the other way
round (`SrvAddendum`). The client of the code pairs them the other way
(`reader.rs:217-223`): section 3, Deviations.

### Which tasks are one module

`Client` has the builder, the session and the two formats as tasks with variables of
their own; a behaviour does one of them, with the revision and the compression a
connection has. The parts do not share variables in the code either: a builder is
consumed by `build`, and what a session agrees on reaches the formats as two
numbers, all combinations of which are initial states.

## 3. Model checking

All runs set `CHECK_DEADLOCK FALSE`: the calls of a run are finite, and the system
stops when they are over. That nobody is stuck is what the liveness runs check.

Runs that pass:

| run | shows |
|---|---|
| `ConnExit` | loss, fatal exception, bad data, shutdown, abort, calls given up, and reads cancelled while a response channel is full: client and server in step (`InStep`), no query forgotten (`NotForgotten`) or run twice (`QueriesOnce`) |
| `ConnService` | with three callers, some of whom go away or fail between header and data: refinement of `QueryService` by channel, pending queue and executing query; answers credited to their query (`ResponsesBelong`) |
| `ConnTear` | with torn packets, types and channel bounds hold and the status is not Closed while the connection works |
| `ConnLive` | answers of up to three blocks for a channel of one, with every failure but torn packets: streams in order (`StreamInOrder`), without holes but those of cancelled reads (`NoGap`), whole if they end without an error and the task did not end under them (`AnswerWhole`); every call ends unless it hangs in one of two named ways (`EveryCallEnds`) |
| `PoolLoad` | lanes are exact (`LoadExact`), in flight and leaked load together, with lanes of 3 bits so that they overflow; data follows its query (`InsertFollowsQuery`); no call looks up a connection that is not there (`IndexInBounds`) |
| `ChunkWhole` | when headers arrive whole, what is read and what is still to come are the bytes written (`ReadIsPrefix`, `NothingLost`), the reader stays in frame (`Aligned`), and reads return |
| `Client` | builder: `DialsAsGiven`. Session: `ServerReads`, `PacketsRead` (each side reads what the other writes, at the revisions that add a field), `FramingAgrees` (servers with modes of their own for each direction included), `SettingsInEffect`. Native: `BlocksInOrder`, `Readable`, `FramesOnly`; rows and values: `RowsReadBack`, `RowsReadable`, `RawRowIsMap`, `DatesMean`, `NumbersExact`, `UintsReadBack`. Arrow: `ReadsBack`, `Reinsertable`, `NativeReads`, `BuildersFit`, `RowsAsSaid`, `FirstTaken`, `SchemaTold` |

Runs that show a disagreement between the code and what the repository says of it
(each is a finding in `PROJECT.json` with the quotation):

| run | shows |
|---|---|
| `ConnGap` | a block is lost from the middle of a stream: the read that waits for room in the channel is cancelled by another call's operation |
| `ConnTruncated` | a broken connection ends a stream like a complete answer |
| `ConnForeignData` | data of a rejected insert is stored by the next one |
| `ChunkHeaderSplit` | a header in two pieces puts the reader out of frame |
| `ParamsUnsent` | a query with parameters never reaches the server: the conversion of its parameters calls itself |

Bounds. Two or three calls are enough for one to execute, one to be queued and one
to interfere; a response channel of capacity 1 is full after one block, as one of
32 is after 32; `MaxBlocks` 3 gives a first, a middle and a last block, of which one is
in the channel, one waits for room and one is behind it. `ConnExit` and `ConnService`
ask nothing of blocks and have one, which fills the channel, or none;
`OpsCap` 1 or 2 makes senders wait. `LaneSize` 8 overflows with two inserts as 256
does with fifty-two. A header of 2 bytes can be split like one of 4; `MaxChunk` 3 lets
chunks below, at and above the limit occur. The theorems remove these bounds for
what they cover. In `Client`, `MaxBlocks` 2 is a block and one behind it, which is what
losing one's place shows in; a table is made twice (`MaxTables`) on one connection, so
that what a query leaves behind meets another type; two queries (`MaxAsks`) are a
setting changed between them; three packets (`MaxSaid`) are one before the header, the
header and one after it; three setters (`MaxCalls`) come before and after `verify`. Samples
have every kind of type that has a codec of its own, alone and inside each container
that treats it differently, with no rows, with nulls, and with the values at which an
index or an offset changes width or a check refuses. Revisions are one before and one
after each field that a block has, and for a session those from the first that knows
chunking to the newest, each that adds a field to a hello or a query. Days and instants surround 1970
and the ends of their integers.

Fairness. `FairSpec` of `Connection` has weak fairness for each call, for the io
task, for a shutdown that has begun, and for the server's answers: the runtime polls
what is ready, and a server that can send the next packet of an answer does. The choice
between the branches of `select!` is not assumed fair (tokio picks at random; nothing
depends on it). No fault is obliged to happen, and no exception (`ServerFails` has no
fairness): a server that waits for the data of an insert waits for ever, and
`EveryCallEnds` says so (`DataNeverComes`). The other way to hang that it names is
`ExceptionLost`, which the channel of one reaches. Without either of the two exceptions
the property fails; with them it says that there is no third one.
`FairSpec` of `ChunkIO` has it for the reading task and for delivery. `Client` has
safety properties only.

### Deviations

What the models contain, or the code does where a sample or a constant of a run stays
clear of it, and no run is spent on. Each was met while translating the lines named.

Connection, pool, transport:

* `receive_packet` is not safe to cancel: with split packets `InStep` fails
  (`internal.rs:231`); a read cancelled while the response channel is full loses its
  block (`internal.rs:362`, run `ConnGap`). `NoGap` and `AnswerWhole` except exactly
  those blocks;
* a read cancelled while an exception waits for room loses it (`internal.rs:375`):
  `executing` is never taken, its caller and those of all pending queries hang
  (`ExceptionLost`);
* an insert whose call fails between header and data (`insert_rows`), or whose caller
  goes away, leaves the server waiting for data; `send_cancel` is never used, so that the
  connection is stuck (`DataNeverComes`);
* with a ping, `ClosedMeansDead` fails: a health check on a busy connection marks it
  Closed (`internal.rs:272`, `connection.rs:387`);
* with `insert_rows` or `query_rows` among the calls, `LoadExact` fails: they give
  back 1 of 5, and 6 of 1 (`client.rs:1147`, `client.rs:1649`);
* `Extra` connections are opened after the first, one more than `options.rs:178` and
  `connection.rs:158` say (three for two, five for four); the balancer uses two. Nothing is
  claimed of the number but that it covers the lanes (`IndexInBounds`); `status` and `check_channel` look at the first only
  (`connection.rs:484`);
* with `Futures = {"int"}`, `ReadIsPrefix` fails: `poll_read` returns Pending after a
  partial fill (`chunk.rs:172`); with `MayClose`, a read at the end of file between two
  chunks spins (`HeaderAtEof`, `chunk.rs:142`);
* `next_backoff` of `pool.rs:277` is not the sum its comments promise, starts at 10 ms
  where they say 100 ms, and overflows at attempt 72; nothing uses it.

Handshake and session:

* below revision 54470 nothing is negotiated and the default modes count as chunked:
  the client frames what an old server does not (`protocol.rs:215`);
* the client negotiates what it sends with the server's *sending* mode and what it receives
  with the server's receiving (`reader.rs:204`, `:217-223`). With a server that insists on
  different modes for the two, it gives up although the modes suit, or settles on framings
  that this server does not use and then refuses. `FramingAgrees` excepts such servers
  (`server.send # server.recv`) only from its last conjunct, that both meet;
* a setting is left out when the hello told the same value, also after a SET
  (`settings.rs:461`); at revision 54429 the comparison is off by one; text and float
  settings fail at older revisions, when half of the packet is in the buffer, and
  negative integers there exceed nine octets (`io.rs:18`);
* TimezoneUpdate, SSHChallenge and MergeTree packets are recognised and their bodies are
  not read; a Log or ProfileEvents packet before the header fails the query
  (`reader.rs:58`);
* one frame is taken for a block (`formats/native.rs:41`): a server that splits a
  large block would be read wrong; `DecompressionReader` is used by tests only.

Builder:

* setters called after `verify` that it depends on (`with_destination`, `with_tls`,
  `with_options`, `with_ipv4_only`) leave the old domain or an unfiltered address;
* only the first address is dialled; the endpoint `[::1]:9000` has domain `[`
  (`tcp.rs:53`); the file of `with_cafile` is never used; `connection_identifier` joins its
  parts without a separator.

Native format:

* a block with columns and no rows lacks the byte for custom serialization
  (`native/block.rs`); `BlockInfo` writes 2 for no overflow and reads it as overflow;
* `Display` doubles quotes in enum names where the parser takes backslashes; an escaped
  backslash before a quote confuses `ArgsIterator`; `Decimal(P, 0)` is refused, and
  `DateTime64(0)` is parsed and refused by `validate`; Date32 is missing as a map key;
* the synchronous readers of tuples, maps and dictionaries are unimplemented, the one
  of arrays panics without rows; a fixed binary is written with its length and read
  without; a null enum is written as index 0;
* `write_default` writes `precision` bytes for DateTime64, and Enum16 big-endian when it
  is synchronous; the sized writer takes the width of the value, not of the type.

Rows and values:

* Date32 counts from 1900 here and from 1970 in the arrow format and on servers;
  `Date32::from_millis` subtracts where its doc adds (`date.rs:99`); the millisecond
  constructors divide towards zero; a NaiveDate before 1970 wraps; more than nine digits
  of DateTime64 underflow; serde keeps neither the zone nor digits beyond six;
* `FixedPoint256::from_parts` takes the exponent as the number of digits after the point,
  as `from_decimal` needs it; its documentation (`fixed_point.rs:169-170`) has the opposite
  sign, (123, −2) for 1.23. `NumbersExact` goes by the code; when `from_parts` has to cut off more than 38 digits,
  `10i128.pow` overflows (`fixed_point.rs:191`): a panic, or a wrong number in a build
  without checks;
* `0 * n` of i256 is −2^128 for a negative n; parts with a scale beyond 38 are cut;
  decimals are written with up to 38 digits and read with 28, and unscaled when their
  scale is below the column's; `Display` of a decimal with fewer digits than its scale
  misplaces the point; objects are equal whatever they contain;
* `RawRow::try_get` with the index one behind the end panics (`raw_row.rs:49`), and so
  does setting the empty name after a fetch;
* `derive(Row)`: `into` does not compile, `deny_unknown_fields` has no effect beside
  `flatten`, a column that no field has falls back to its position (`row.rs:507`), so that a
  field whose own column was not selected can take its value (`Strays` in `RowsReadBack`)
  and a row whose own columns all were selected can fail, nested rows are
  serialized with the outer hints, and a nested field without columns whose fields all
  have defaults does not end; `from_rows` takes rows of different lengths and the
  writer panics.

Arrow format:

* `Time`, `Duration`, `Interval` and `Date64` are mapped to columns that the writers
  refuse; IPv4 is written reversed and the halves of a UUID swapped; geo columns panic
  when read; Int64 to Int256 has the wrong byte order;
* slices of lists and maps are written with the offsets of the whole (`SliceCol` and
  the samples that stay clear of it), list views by offsets they need not have,
  dictionaries of nullable strings only if the null is entry 0, arrays of dictionaries
  or tuples not when all are empty; times before 1970 and invalid UTF-8 are replaced;
* a map with text keys cannot be read with `strings_as_strings` off;
* enum columns can be inserted again only if all names occur in order;
* `query_rows` gives decimals the precision as scale (`utils.rs:182`), enums inside
  containers as strings, and panics for dates outside u16 days (`utils.rs:213`);
* a Memory table gets `ORDER BY tuple()` (`schema.rs`).

## 4. Proofs

Every theorem is about all sets of calls, capacities, sizes and numbers of blocks.
What a theorem assumes of the environment is in its ASSUME and below; in each case
TLC shows in a run or a variant of one (section 3, Deviations) that the property
fails without it (`DelimiterReads` is not about the environment: it says what the
parameters of a module are). The other assumptions are those named in `ConnState`, `InnerPool`,
`ChunkIO`, `ClientBuilder`, `Dates`, `Numbers`, `ValueMaker` and `ClientSession`.

### Types and being in step (`ConnectionProofs`)

* `TypeCorrect`: `Spec => []TypeOK`. The bounds of the channels need the guards of
  the sends; that `executing` is a call while the task waits for room is part of the
  invariant.
* `AlwaysInStep`, `ResponsesAlwaysBelong`: under the assumption that
  packets arrive whole (`"split" \notin Faults`; without it a cancelled read tears
  one). `ResponsesBelong` is not inductive: that the packets read belong
  to the executing query follows only if no second request is on its way when a
  final packet arrives. `InStep` says so: at most one Query or Ping is between
  client and server, it is the current one, it is in exactly one place (on its way,
  with the server, being answered), a final packet is the last one, and an exception
  that waits for room leaves nothing behind it. With `TypeOK` and `Whole` (no packet
  is half read) it is inductive. The proof has a lemma for what each group of
  actions does to the wire, one for the start of a query on a quiet wire
  (`StartInStep`), and one per group of actions for the invariant.

### One query at a time (`ServiceProofs`)

With every fault, torn packets included:

* `AlwaysOnce`: `QueriesOnce`, which ties the oneshot of a query to its place: a query
  not sent yet is new, one in the channel or in `pending` is there once and unanswered,
  one that executes is answered. It is inductive with `TypeOK`.
* `NeverForgotten` and `ServiceProvided` rest on one lemma about steps: every step of a
  connection is a `LineStep` (one query joins the line, the first leaves it to run, or
  the task ends and the line is given up from some place on). The line is `pending`
  followed by the queries of the channel; `AlwaysClosedEmpty` (a closed channel
  is empty) is needed for the last. Each kind of step then maps to an action of
  `QueryService` or a stutter.
* `ClosedIsDead` needs `Pings = {}`. Its inductive form, `OpenWhileOpen`, says that the
  status is Open while the channel is; the health check is the code that breaks it.

### Streams (`StreamProofs`)

When packets arrive whole:

* `AlwaysInOrder`. The stream of the executing query, the item in `held`, the packets on
  the wire and what the server has made must fit together: `Fitting`, that is `Shape`
  (the blocks on the wire are the last ones made, numbered without a gap, the end or
  the error behind them) and `Behind` (what was yielded was made before what is on the
  wire). A query that has not run has no stream yet (`Fresh`). `InStep` is what makes
  "the" executing query well defined, and `QueriesOnce` that a stream is started once.
* `NeverGap`, for every capacity, length of answer and fault. `Gapless` says of the
  executing query that each block the server has made is yielded, held, on the wire, or
  thrown away by a cancelled read (`Kept`, `OnTheWay`), so that the next block to be
  yielded leaves none behind.
* `AlwaysWhole`, likewise: an EndOfStream on the wire stands behind the whole answer of a
  server that has finished (`Kept`); a stream that the task no longer feeds is complete, has
  an error item, or was cut short by the end of the task (`Settled`, `HowEnded`); and a call
  that is done has read its channel empty (`Answered`). The exceptions are in the
  property and are what the code does: blocks of cancelled reads (`ConnGap`) and answers
  whose query was executing when the task ended (`ConnTruncated`).

### Inner pool (`InnerPoolProofs`)

* `InsertAlwaysFollows`: `Pinned` is the inductive form: operations addressed by key
  stay with their key, and from the send on a call's index is the one of its latest
  operation.
* `AlwaysInBounds`, under `MaxConns <= Extra + 1`: the number of lanes and the number of
  connections are computed in two places (`AtomicLoad::new` and the loop of `connect`), and
  an index that one gives is looked up in the other. The assumption holds in the code for
  any `fast_mode_size`; four lanes, which the note at `AtomicLoad` allows, would need more
  than the default.
* `UnitAssumption` states the facts about `^` that the provers lack; TLC evaluates it.
* `AlwaysExact`: a lane is the load of its connection, for any number of calls in
  flight, any interleaving of choosing and adding, failures and overflow. `Balanced`
  leaves out `insert_rows` and `query_rows`, which give back another weight than they took.
  A lane alone is not inductive, as a lane that overflows carries into the next one.
  `LoadSum` is: the counter is the sum over all lanes of load times unit, modulo the
  word. When no load exceeds a lane, the loads are the digits of that sum (`Digits`,
  `LanesRead`); so lanes are exact again as soon as an overflow has drained.

### Chunked transport (`ChunkIOProofs`)

For any length of header, maximal chunk, partition of the bytes and sequence of reads,
under two assumptions: a header is delivered whole (`~SplitHeaders`; `ChunkHeaderSplit`
shows the contrary), and reads keep their buffer (`"int" \notin Futures`).

* `ReaderInductive`: `Inductive` says of the bytes between writer and reader that
  each header begins a whole chunk (`WholeChunks` in `Framed`), that the reader is at a header or inside the payload that the last one
  announced (`InPlace`), that the payload bytes ahead are numbered from the one
  after the last that was taken to the last that was sent (`NothingLost`), that the
  buffer of the writer is the rest of what was written (`Buffered`), and that what is
  being read is what was taken (`Reads`).
* `AlwaysTyped`, `AlwaysPrefix`, `AlwaysAligned` and `NeverLost` follow from it.
  `WidthAssumption` (a size is read from its header as it was written) is arithmetic on
  `Base` and `HdrLen` that TLC evaluates.

### The builder (`BuilderProofs`)

`AlwaysAsGiven`: `DialsAsGiven` for any destinations, options, number of setters and
verifications. What a client dials says nothing inductive; what is known of the builder
does (`KnownOf`):

* `ToldTo`: the options that a verification leaves alone are the ones given last;
* `ResolvedFrom`: a destination that is not the one given holds addresses of it, and of
  version 4 if that was asked for and no setter of it came too late;
* `NamedFrom`, `NamedWhenVerified`: the domain is the one given, or the one that a
  verification took from the destination as it was given, and a verified builder has
  one under TLS. That a builder verified twice does not take its domain
  from an address needs the last: the second time there already is one.

It is a predicate on a builder and what its caller asked for, so that the same lemmas
(`VerifyKeeps`, `ConnectAsGiven`) serve a verification in `verify`, in the
manager of a pool, and inside `build`, where the verified builder is no state of the
model. `OptionAssumption` and `AddrAssumption` say that options are a struct and
addresses a `Vec`. That the filter for version 4 (`OnlyV4`) returns
addresses of the list is a counting argument (`Ranked`, by the pigeonhole theorem).

### Values (`ValueProofs`)

The values that a caller makes, one after another (`ValueMaker`), for every width of the
integers (`U16`, `U32`, `WORD`, ...: constants, which a run makes small), every day, instant,
scale, exponent and mantissa:

* `DatesMeanAlways`, under `"millis32" \notin DateMakers`: the constructor of a Date32 from
  milliseconds is off by 70 years (section 3, Deviations). A count of ticks has no width
  in the model: which instants fit into an `i64` is said by `Times`.
* `NumbersExactAlways`: from parts, as a product, and the integer and the fraction of a
  fixed point number, for exponents of either sign and in builds with and without overflow
  checks. Excepted in the property: the product of zero and a negative number, and parts of
  which more digits are cut off than a power of ten in an i128 has.
* `UintsReadBackAlways`: the reader takes exactly the octets that were written, whatever
  follows, and gives the first nine digits. So integers below 2^63 are read as they were
  written, and larger ones lose their highest bit without losing the place in the stream
  (`io.rs:18`).

What is known of the last value is `NumberInv` and `DateInv`: it holds what its constructor
should have put in it (`Made`, `NumberHeld`, `FixedHeld`, `DatesHeld`), and a trip through
serde keeps that. The trip is a step of its own and can follow another, which is why the
properties are about an invariant and not only about the constructors. Powers
of ten and the loop of the integers are recursive functions. The induction theorems of the
library take an operator, which the provers cannot instantiate; `LeastNot` and `Inductive`
say the same of a set, from the well-foundedness of `<`, and `Recursion` derives from
it that a recursive definition over the natural numbers has the value that it says.

### The session (`SessionProofs`)

For every pair of modes on either side, revision that knows chunking, compression, list of
settings on either side, and any number of queries:

* `AlwaysFramed` (`FramingAgrees`). The server pairs its modes by their names, the client
  by the code, and what makes them agree is that the addendum is checked. A second
  invariant, `Reasons`, says why a handshake can fail at all: the server refuses, or its
  modes differ, or nothing suits (`Unsettled`). The first is `Meeting`: until the server has read
  the client's hello, that is all there is on the stream (`Apart`); until the client has
  read the answer, that is what the server gives (`Answered`); a client that has not met a
  server asks nothing (`Unmet`); and one that has, has settled on modes that the negotiation
  gives, with the addendum first on the stream until the server has read it (`Met`).
* `AlwaysReads` (`ServerReads`). `Reading` adds that the queries not yet run are exactly what
  is on the stream, one behind another, behind the addendum if that is still there
  (`Unread`), except a last one that the client failed to write, which also ends the
  connection; that those run are the first of those asked (`InOrder`); and that the
  server's settings never name a compression (`Learned`, with what the server knows of
  the client), since how a query is compressed is
  said with the query.
* `AlwaysInEffect` (`SettingsInEffect`). `Effective` adds that a client knows of the server's
  settings what the hello said (`Telling`), and that without a SET these are in force. A
  setting that `encode_with_ignore` leaves out was then told with that value
  (`SettingsTaken`); that the client parses the server's text to a value that means
  the text again is `ParseMeans`.

Below the invariants are lemmas about each packet. A packet is a concatenation of spans, a
span has the widths of a part of a layout (`Widths`), and reading a layout gives the
values of its span and leaves what follows (`SpanReads`). The two sides' layouts are
written separately, so this is where a condition on the revision that differs would show:
each field is there on both sides for every revision, or on neither. Lists of settings have
no bound: their writers (`Puts`) and readers (`CollectRun`) are followed step by step,
by induction over the steps.

What is assumed:

* `PeerAssumption`: revisions from the one that knows chunking; a profile names a setting
  once; how packets are compressed is said by the options alone, so that no list of settings
  names it (`compression_settings` makes those settings of `ClientOptions::compression`);
  a server writes a Bool as 0 or 1, as ClickHouse does. Of a server that wrote `true` the
  same text would be in force where the property names the `1` it means.
* `AskAssumption`: settings have names, and a query names one once (`Settings` replaces a
  setting that is added again; the list is its `Vec`).
* `WriterAssumption`: what the writer of blocks leaves on the stream is a sequence.
* `DelimiterReads`, a hypothesis of the last two theorems: the empty block behind a query is
  read as one, and what follows is left. The reader and the writer of blocks are parameters
  of `ClientSession`. For `NativeBlock`, which the runs use, TLC evaluates it for each
  revision and method on samples of what follows (`DelimiterAssumption` in
  `MCClientSession`); for all that may follow it would need an induction over the
  recursive codecs.

### Only model-checked

* Liveness (`EveryCallEnds`, `ReadsAreServed`): no prover here handles fairness.
* `PacketsRead`: what a server says contains blocks with columns, which the recursive codecs
  read.
* The formats, and rows (`BlocksInOrder`, `Readable`, `FramesOnly`, `RowsReadBack`,
  `RowsReadable`, `RawRowIsMap`, `ReadsBack`, `Reinsertable`, `NativeReads`, `BuildersFit`,
  `RowsAsSaid`, `FirstTaken`, `SchemaTold`). Types and columns are trees of any
  depth, which the codecs walk with RECURSIVE operators; a module that reaches one cannot
  be proved about. Inductions over numbers and lists are proved (above), with
  recursive functions.

## 5. Not modelled, and plan

Not modelled:

* bb8, and `is_valid` as its hook: the pool is a dependency. Its effects on a
  connection are (`PoolNew`, `PoolConnect`, the abandoned ping);
* `DecompressionReader` and the synchronous decompression that only tests call;
* the cloud wakeup, one HTTP request raced against a timeout, and `spawn.rs`;
* the text of statements (database DDL, `fetch_tables`, formatting of values), telemetry
  and logging;
* the libraries: tokio, arrow, lz4, zstd, rustls, the resolver. What the code asks of
  arrow (slices, empty columns, `RecordBatch::try_new`) is in `ArrowBlock` as external.

What could be proved next: `PacketsRead` for the packets without blocks, with the lemmas about
layouts; `DelimiterReads` and the round trips of blocks, if the codecs are written as functions
over the depth of a type.

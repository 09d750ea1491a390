# TLA+ models and proofs of the Qualisys Go SDK

The Go package at the root of this repository is a client of the real-time
protocol (RT protocol) of Qualisys Track Manager, QTM: it connects over TCP,
negotiates a protocol version, sends commands, and receives events, parameters,
files and streamed frames of motion capture data. This directory holds TLA+
modules of that client, the TLC configurations that check them on small
instances, and TLAPS proofs of what matters most for every instance.

All line numbers refer to the Go sources of the commit beside this directory.

## 1. Inventory

| Component | State it keeps | Operations | What is hard about it |
| --- | --- | --- | --- |
| TCP packet framing (`protocol.go:336-445`) | `rt.conn`, `rt.buffer`, `lastEvent`, `state`, the place in the byte stream | `Receive`, `ReceiveTimeout`, `setReadDeadline` | deadlines, closes and resets between any two bytes; a size field that may be garbage; one buffer for all packets |
| Packet types (`packet.go:35-95, 438-470`) | none | `Packet.UnmarshalBinary` | packets without payload never reach it; data frames may fail to decode |
| Handshake (`protocol.go:211-306`, `commands.go:61-127`) | `rt.conn`, the negotiated version | `Connect`, `versionCandidates`, `SetVersion`, `GetState`, `Disconnect` | replies that come after their call timed out; events between a command and its reply; one step of several failing |
| Command session (`commands.go`, `parameters.go`) | the connection and what is unread on it | every public command, `receiveSkippingEvents`, `sendAndWaitForResponse`, `getCapture`, `Calibrate`, `GetParameters` | replies name no command; QTM's work goes on after its acknowledgement; streamed frames share the connection |
| Data frame decoder (`packet.go:50-317`) | `DataPacket.Components`, the receive buffer | `DataPacket.UnmarshalBinary`, `Component`, `UnknownComponentData`, `UnknownComponentTypes`, typed accessors | counts and sizes in the packet are not to be trusted; the buffer is overwritten by the next frame |
| Component parsers (`pkg/packets`) | a cursor per payload | 19 `UnmarshalBinary` methods, `cursor.need`, `checkCount` | counts of 32 bits against payloads of a few bytes; optional fields; byte order |
| UDP stream (`commands.go:261-405`) | `rt.udpConn`, `rt.udpBuffer`, the sockets of the system | `EnableUDPStream`, `UDPServerPort`, `StreamFramesUDP`, `StreamFramesStop`, `ReceiveUDP`, and `Connect` and `Disconnect`, which close the socket | the socket is read by one goroutine and closed or replaced by another; the network loses, repeats and reorders |
| Discovery (`pkg/discover`) | a socket, a list of responses | `getBroadcastAddresses`, `Discover`, reply parsing | one deadline for any number of replies; malformed, repeated and late replies; every step may fail |
| Programs (`cmd/streaming`, `cmd/settings`, `cmd/discover`) | none of their own | connect, take control, stream, log | interrupts, broken streams and QTM's shutdown at any moment; cleanup on every way out |
| Timecode conversion (`pkg/packets/timecode.go`) | none | `Convert`, `Duration`, `NormalizedSubFrame` | bit fields of one word; overflow |
| Formatting and settings (`commands.go`, `parameters.go`, `pkg/settings`) | none | component and parameter names, XML | text only |

### How the components interact

The application calls `Protocol` from one goroutine (the type is documented as
not safe for concurrent use), except that frames over UDP are commonly received
by a second one (`protocol.go:105-108`). `Connect` dials, reads the welcome, walks the
version ladder with `SetVersion`, and primes `State` with `GetState`. Every
command is a write on the TCP connection followed by one of three waits:
`receiveSkippingEvents`, a loop of the command's own over `ReceiveTimeout`, or
nothing. All of them end in `ReceiveTimeout`, which fills the one receive
buffer, and for data frames calls `DataPacket.UnmarshalBinary`, which cuts the
payload up and calls a component parser for each slice. QTM answers commands in
order, but pushes events, and streams frames, at any time on the same
connection.

### What makes them correct

* Framing: a caller that was not told of a broken stream reads QTM's packets
  whole, each once, and in order; the buffer stays within its limit whatever a
  size field says; a call with a deadline returns.
* Handshake: the version the client reports is the one QTM speaks, whatever
  replies were late; the newest candidate QTM accepts is the one taken; a failed
  `Connect` leaves nothing behind; every call comes back.
* Session: a call gets its own answer and leaves nothing behind for the next.
* Data frames: components get disjoint slices of their own packet, the work is
  bounded by the bytes present, and a packet the application keeps does not
  change when the next one arrives.
* UDP: no socket is left open that nobody can close, each path decodes what it
  read itself, and `ReceiveUDP` comes back.
* The streaming program: it ends when it is told to, reads the socket that QTM
  streams to, and leaves nothing open.
* Discovery: every network is asked, a good reply is listed once and as it was
  sent, a bad one hides none, and the call returns with its socket closed.
* Parsers: exactly the payloads that hold what they declare are accepted, and
  no allocation exceeds what the payload backs.

`PROJECT.json` lists the hazards, each at its line, with the properties that
cover it.

## 2. Modules

| Module | Role |
| --- | --- |
| `Packets` | the vocabulary of a received packet: types, results, `Answer`, `StateAfter` |
| `PacketStream` | abstract: what `Receive` and `ReceiveTimeout` promise, packet by packet |
| `PacketFraming` | detailed: `ReceiveTimeout` byte by byte; implements `PacketStream` |
| `Connection` | abstract: what `Connect`, `SetVersion`, `GetState` and `Disconnect` promise about the connection and its version |
| `Handshake` | detailed: `Connect`, the version ladder, `SetVersion`, `GetState` against QTM; implements `Connection` |
| `CommandSession` | the commands of an established connection |
| `DataFrame` | the component loop of a data frame, the reuse of the buffer, the look-ups |
| `ComponentFormats`, `ComponentDecoder` | the formats of the 19 parsers, and the machine that runs any of them |
| `UdpStream` | frames over UDP: two goroutines, the sockets, a lossy network |
| `StreamingClient` | the program `cmd/streaming`, composed with `UdpStream` |
| `Discovery` | `Discover` and the hosts that answer it |
| `Timecode` | the timecode conversions as functions of words |
| `MC...` | instances for TLC |
| `..._proof` | theorems and their proofs: of `PacketFraming`, `Handshake`, `CommandSession`, `ComponentDecoder`, `DataFrame`, `UdpStream` (with `StreamingClient`), `Discovery`, `Timecode` |

The detailed `PacketFraming` implements `PacketStream` (`INSTANCE PacketStream
WITH open <- conn, queue <- wire, broken <- told`). `Handshake` implements
`Connection`, where a call is a step that begins it and one that ends it: `Phase`
says which call is under way, `Shown` hides the version of client and QTM while
`Connect` has not returned, and the messages, the ladder and `GetState`'s
clock are not seen. What the promise adds to `VersionAgreement` is each step: a
`SetVersion` that QTM refused or did not answer leaves the version the client
reports unchanged, and QTM changes its own only while one is under way or after
one was left unanswered. `Handshake` and `CommandSession` build on the promise of `PacketStream`: a packet arrives whole and in order, a
deadline is "no more data", and a broken stream is an error. `StreamingClient`
EXTENDS `UdpStream`: each step of the program that calls the SDK is the program's
guard and next place joined with the SDK's action (`StartConnect` with
`Connect`, `UDPOpened` with `Listen`, `PollContext` with `StreamFramesStop`,
`ReceivingUDP` with the steps of `ReceiveUDP`), so that the sockets, the network
and QTM's target are those of `UdpStream`. `DataFrame` hands
each parser of `ComponentDecoder` the slice that is a payload there.

### Correspondence of state and actions

*PacketFraming.* `conn`, `state` and `lastEvent` are the fields of `Protocol`;
`cap` is `cap(rt.buffer)`. `wire` is the sequence of packets that QTM has
written and the client has not read completely, `off` the bytes consumed of its
head; `synced` says whether those bytes were read from a boundary. `pc`, `got`
and `size` are the position inside `ReceiveTimeout`: reading the header, reading
the body, or outside. Each `io.ReadFull` is one action per byte, so that a
deadline (`HeaderTimeout`, `BodyTimeout`) or an error (`HeaderReadFails`,
`BodyReadFails`) can fall between any two bytes. `RejectHeader`, `HeaderOnly`,
`StartBody` and `FinishBody` are the branches on the decoded header and the
end of the body with its call of `UnmarshalBinary`, the `lastEvent` and `state`
updates and the `Error` packet turned into an error. `told` is a ghost: the
caller was given an error that means reconnect. When the stream is read off its
boundaries, a header may be any packet of the constant `Misread`. `ZeroEvent` is
the zero value of `Packet.Event`, which a packet bears that carries no event
number; it is no event of QTM's, and not `EventTypeNone`.

*Handshake.* `pc` is the place in `Connect`, `SetVersion` or `GetState`, `i`
the candidate being tried, `goal` the version asked for, `late` whether the
deadline of the running loop has passed. `c2s` and `s2c` are what is in flight.
QTM's actions (`QTMSetsVersion`, `QTMRejectsVersion`, ...) take the oldest
command and append a reply; QTM may always be slow, push events, or close. An
answer that arrives after its `SetVersion` timed out is still in `s2c` when the
next one waits, which is the case the model is about. `GetState` is kept in its
three steps, because the code reads the clock twice (`commands.go:118-119`):
`StateCheck` reads the first, `StateArm` the second, and `ClockPasses` may fall
between. `CannotSend` is a `SetVersion` or `GetState` of the application that
writes nothing, for want of a connection or because the write failed
(`commands.go:18-31`). The connect timeout is taken to be positive, as the default
is: with 0 the welcome would be awaited without a deadline.

*CommandSession.* `loop` names the wait a call is in: skipping events for a
reply, for a file, or a polling loop. Packets and commands carry an `id`, a
ghost that says which call they belong to; the client never reads it. `jobs`
holds work that QTM acknowledged and finishes later (a capture transfer, a
calibration). `doubt` is a ghost: a call on this connection ended before its
answer was read, or frames were asked for on it. `Connect` ignores whether its own
`GetState` was answered (`protocol.go:275`), so a session begins with or without that
command still at QTM (`FromConnect`, id 0), and with `doubt` if it is.
`TakeControl` stands for the
commands that differ from it in their texts only.

*UdpStream.* `port` is the sequence of sockets ever opened, with their ports;
`live` the ones that are open, `armed` those with a deadline, `inbox` what the
system keeps for each. `udpConn` is `rt.udpConn`, as the number of a socket. The
control goroutine (`cpc`, `cop`) takes closing, clearing and opening as separate
steps, as the code does; the receiver (`rpc`, `sock`) reads `rt.udpConn` once in
each of `ReceiveUDP`, `SetDeadline` and `StartRead` (`commands.go:376, 380,
390`). The Go memory model promises nothing for these unsynchronised accesses of
one word; the model lets each read return the latest write. A nil socket at
the second or third read is the step to `"panic"`, after which nothing happens.
`buffers` holds what `rt.buffer` and `rt.udpBuffer` contain; `taken` is a ghost:
what the running call of each path read. `swapped` is a ghost too: a socket was
opened after the deadline was set on its predecessor. `Deliver` may keep the
datagram (a repetition), choose any one (reordering), and reaches whichever
socket has the port by then; `StrangerSends` puts a datagram that is no frame
into any socket: a short one, or one that is undecodable or another packet. The errors of
`StreamFramesUDP` other than a bad port (an address too long, no components, a
failed write) change no state and have no action of their own.

*StreamingClient.* `prog` is the place in `run`. `s2c` are the TCP packets under
way; `stalled` says that QTM stopped in the middle of one, which the program
receives as `ErrTruncated`. `VersionFails` covers the command's timeout and a
broken connection. `Leave` is a return of `run`: the deferred `Disconnect`
follows (`StartDisconnect`, `Disconnected`). A datagram that is neither short nor a
frame may end `run` (it does not decode, or is QTMShuttingDown) or not (another event,
an error, a reply), because `ReceiveUDP` hands over whatever decodes.

*Discovery.* `machine` is what `net.Interfaces` returns; `left` and `addrs` are
what remains of the two loops, `ips` the broadcast addresses, first collected,
then sent to one by one. `late` says that the deadline has passed, `inbox` what
the socket has received. `asked` outlives a call, so that a host may answer a
request of the call before; `begun` is a ghost: the networks asked in this one.
`heard` is a ghost too: the good replies that reached the socket of this call.
An anycast address stands for a `*net.IPAddr`.

*Timecode.* Masks are remainders and shifts are quotients by powers of two.

*DataFrame.* `Receive` takes a new frame of any length, count and content into
the buffer; `HeaderPastEnd`, `InvalidSize`, `Decode` and `ComponentFails` are
the paths of the loop body, `Return` its end. `packet` is what the application
holds; the `bytes` of an object name the frame they were copied from, or say
that the object refers to the buffer (`Keep`: the copy that `UnknownComponent` makes; those
of `cursor.Bytes` inside the other parsers are not modelled one by one).

*ComponentDecoder.* A payload is any sequence of bytes, hence a count is any
word of `Words` at the moment it is read. `getComponentObject` gives each type
its format: bytes before the count, per group, per record and so on;
`ReadCount`, `FlatGroup`, `CountedGroup`, `AnalogGroup`, `Record` and the two
`EndOf...` actions run it over `need` and `checkCount` as the code does.
`declared`, `slots` and `made` are ghosts: the bytes that the counts read so far
call for, the slice elements allocated for groups, and those for records.
`AllocationBacked` bounds the two separately, because the code tests them
separately: `checkCount` holds the groups against what is left at the beginning,
and the records of each group against what is left then.

## 3. Runs

Every passing run checks the type invariant and the properties below; bounds
are constants of the cfg, and guards on the environment's actions only.

| Run | Checks | Bounds, and why they are enough |
| --- | --- | --- |
| `framing` | `Synchronised`, `StreamSpec` (refinement of `PacketStream`) | header of 3 bytes, buffer of 4, limit of 5, packets of 3 to 6 bytes, events and errors with a payload and without, two packets queued: every way a close, a reset or a deadline splits a header or a body, sizes below, at and above each limit |
| `framing_any_deadline` | `BufferBounded`, `ReceiveReturns` | the same packets, one queued; deadlines anywhere, so that the stream is also read off its boundaries |
| `framing_desync` | violates `Synchronised` | as above |
| `handshake` | `VersionAgreement`, `FailedConnectCloses`, `FirstAccepted`, `ConnectionSpec` (refinement of `Connection`), `HangsOnlyInGetState` | a ladder of three versions (the seven of the code behave alike), requests for the newest, an older and an unknown version, every subset of versions accepted by QTM, three messages in flight: enough for the replies of two late tries and an event |
| `handshake_hang` | violates `CallsReturn` | one message in flight |
| `session` | `OwnAnswer`, `NothingLeftBehind`, `RepliesAwaitedReturn` | two calls of every kind in every order on a connection, after a `Connect` whose `GetState` was answered or not, two packets in flight: a reply can only be mistaken for that of a neighbouring call |
| `decoder` | `ParsesWhatIsDeclared`, `AllocationBacked` | all 19 parsers, payloads of 0 to 112 bytes, counts 0, 1, 2, 3 and 8: accepted, too short by any number of bytes, too long, nested counts |
| `decoder_big_endian` | violates `CountAsSent` | words of two digits of base 4, so that the byte order matters |
| `frame` | `OwnSlices`, `WorkBounded`, `PacketsStayIntact`, `FoundByType` | frames that end before, on and after every boundary of three components; claimed sizes of 0, one short of a header, a bare header and more; two neighbouring known types and an unknown one; two frames sharing the buffer. The full tables of types are compared by an assumption of `MCDataFrame`, and by the theorem `TablesInverse` |
| `udp` | `OneSocket`, `WholePackets`, `ReceiveUDPReturns` | two ports and two sockets, so that a socket is replaced on the same port or another; one frame, which may arrive twice or after the replacement; calls of `Connect`, `Disconnect`, `StreamFramesUDP` without bound |
| `streaming` | `EndsDisconnected`, `ReadsItsStream`, `ReadsUntilDeadline`, `InterruptEnds`, `ShutdownEnds` | the program opens one socket; two frames over UDP, two packets pending over TCP, so that a shutdown is queued behind another packet |
| `discovery` | `EachAsSent`, `NoDuplicates`, `EveryNetAsked`, `SocketClosed`, `NoneHidden`, `DiscoverReturns` | four machines (loopback and down interfaces first, IPv6 before IPv4, a network twice, an anycast address), a host on two networks and one on one of them whose count may be unreadable, two replies waiting, two calls so that replies of the first meet the second, receive ports 0 and 4545 |

`udp`, `streaming` and `discovery` switch the deadlock check off: after a panic
and after the program's end nothing happens any more, and `MaxCalls` stops
`discovery`. The liveness properties say what must happen before.

`framing` assumes that a deadline does not pass inside a header
(`HeaderAtomic`), which the code does not guarantee; `framing_desync` drops the
assumption and shows what happens then.

For every property the module holds a mutant: an operator named after the
definition it replaces (`SkipEventNot` for `SkipEvent`, `PayloadToBufferEnd` for
`PayloadEnd`), which a plausible mistake in that code would be, and with which
the property fails. `PROJECT.json` pairs them.

### Fairness

`FairSpec` assumes only that the client's goroutine keeps running: a step of a
call that stays possible is taken, a read deadline that was set passes, and the
clock advances. Nothing is assumed of QTM, which may fall silent, push events
for ever, or close in the middle of a packet. The Go runtime schedules a
runnable goroutine, and a `net.Conn` deadline always fires, so this is what the
code has. In `UdpStream` it is the receiver that keeps running, and nothing is
assumed of the control goroutine, QTM or the network; `ReceiveUDPReturns` does
not even need a datagram. In `StreamingClient` it is the program, and
`VersionFails` has a fairness of its own: events without end can keep
`GetQTMVersion` busy, but not beyond its absolute deadline, which the run
`session` shows. In `Discovery` the goroutine and the clock are fair and the hosts
are not.

## 4. What is proved

The theorems hold for every value of the constants that satisfies the named
assumptions of the modules (`SizeAssumption`, `WireAssumption`, ... : sizes are
natural numbers in the order the code's constants have, packets are packets,
versions are versions). No bound of a run enters: `MaxQueue` and `MaxPending`
are arbitrary.

*PacketFraming_proof.* `Invariance` shows `IInv`: `Position` (the offset lies
inside the packet at the head of the wire), `Progress` (how far each read can
be), and `Aligned`: while the caller has not been told otherwise, the bytes read
are exactly the bytes consumed of the packet at the head of the wire.
`Synchronised` alone is not inductive, because it says nothing in the middle of
a call. `BoundaryKept` and `KeepsPromise` follow for `HeaderAtomic`:
`KeepsPromise` shows that each byte-wise step is a step of `PacketStream` or a
stutter. `BufferTheorem` needs no assumption about deadlines.

*Handshake_proof.* `LadderComplete` says what `versionCandidates` returns.
`TypeCorrect`, `FailureCloses` and `Agreement` rest on `IInv`: `Running` (what
is true at each place of the code), `Greeting` (nothing is in flight before the
welcome), `Laddered` (what is in flight while `Connect` walks the ladder belongs
to candidates already tried) and `Agreeing`. The argument of the last: QTM
answers in order, and `SetVersion` accepts only the reply that names its own
version, so the reply that `SetVersion` takes for its own is the last of its
kind under way and no earlier command can change QTM's version after it.
`LastCommand` and `LastAnswer` say that of the queues. `FirstAccepted` does not
mention the ladder: the version taken is the requested one, or the newest that
QTM accepts of `Fallback`, the older versions of the default major as a set.
`LadderIsFallback` shows that the ladder the code walks is this set, newest
first. `FirstIsTaken` adds
`Punctually`: as long as no wait timed out, one command or one answer of the
ladder is under way at most, it is about the candidate at hand (`Alone`), and so
every candidate before it was refused by QTM (`Walked`). The premise is needed:
after a timeout the candidate that QTM would accept is skipped.
`KeepsPromise` shows the refinement of `Connection` step by step, one lemma per
group of actions. The steps that end a call need `Agreeing`: the answer that
ends a `SetVersion` says what QTM speaks when it is read, although QTM may
have sent it long before, and a `Connect` that returns hands over versions that
agree. The steps of a `Connect` under way are `Hidden`, since `Phase` and the
shown versions stay what they are, and so is every step of QTM that is not
`QTMSetsVersion`; that one changes a shown version only when a `SetVersion` is
under way or was left unanswered, because otherwise no version command is in
flight (`Settled`).

*CommandSession_proof.* `AnswersMatch` and `CallsEndClean` from `Shape` (which
wait goes with which command, and that QTM keeps no work for a connection that
is closed) and `Undisturbed`. The argument of the latter: as long as no call
ended unanswered on this connection, one thing of the running call is under way
at most, its command, its work in QTM or its answer (`OneUnderWay`), and nothing
between calls (`Clean`). Replies name no command, so this is all that makes an
answer the call's own. `OwnAnswer` alone says nothing while a call waits. The
number of calls and of packets in flight is arbitrary.

*ComponentDecoder_proof.* `DeclaredParsed` and `MadeIsBacked`, for payloads of
any size and counts up to any width. `Accounted` is the invariant: while the
cursor has not failed, the bytes read and those that the counts read so far
still call for add up to `declared`; once it has, more was declared than there
is. `Formats` says of each of the 19 formats that what `checkCount` tests is what
the records take. The attempt to prove an earlier `AllocationBacked`, that
groups and records together are not more than the payload has bytes, failed for
a good reason: the groups of an image component may claim nearly all bytes
(36 each), and the data of the first of them the same bytes again. It was false
for payloads above 1444 bytes, which the run's 112 never reached; the property
now says what the code's tests guarantee.

*DataFrame_proof.* `SlicesAreDisjoint`, `BytesBoundTheLoop` and
`HeldPacketsAreCopies` from `LoopInv` (the slices cut so far tile the consumed
part of the frame, their number is bounded by the position) and `HeldInv` (the
packet the application holds contains copies of one frame). `LookUpsFind` rests
on `TablesInverse`, the two tables of 19 types compared entry by entry, and on
`Typed`: an object that was decoded is of the type its wire type stands for.

*UdpStream_proof.* `TypeCorrect`, `SocketsOwned` and `PathsSeparate` from `IInv`,
which adds `NoneOpen` to the properties: between closing a socket and opening
the next, none is open. Without it `OneSocket` could be broken by `ClearUDP`,
which forgets `udpConn` in a state where a socket might still be live. The type
invariant is in four parts, and the `...Kept` lemmas say that a step which leaves
the variables of a part alone keeps it.

The module holds the theorems of `StreamingClient` too, whose calls are steps of
`UdpStream`, so that `ControlInv`, `ReceiverInv` and `NetworkInv` apply to them.
`ClientInv` adds where the SDK is when the program is at a given place: which
call is under way (`Place`), that there is no socket before `EnableUDPStream`
returned and no stream before it was asked for (`Opened`), and that a read is
under way within `ReceiveUDP` only, of the socket whose deadline was set
(`Receiving`). None of the three properties is inductive without it:
`EndsDisconnected` needs `NoneOpen` when `Disconnect` hangs up, and
`ReadsUntilDeadline` is what one goroutine makes of the races that
`ReceiveUDPReturns` excludes.

*Discovery_proof.* All six invariants of the run. `ListsTruly` needs
`AnswersTrue` (what waits in the socket comes from hosts that were asked) and
`AskedGrows`; `AsksAll` needs `NetInv`: the interfaces not yet looked at are a
suffix of the machine's, and every IPv4 network of those before it is asked, to
be asked, or among the addresses of the current interface. `ClosesSocket` needs
only where the code is. `HidesNone` rests on `HiddenStep`: a step of a call that
has not failed takes a reply out of the socket only in `ReadReply`, which lists it
(`ReadIsListed`: as a new response or because an equal one is there), or in
`ReadMalformed`, whose reply was not good; no response is ever removed while the
call goes on, and the call leaves replies unread only when its deadline passed.

*Timecode_proof.* Integer arithmetic on words of 32 and 64 bits, which TLC cannot
represent, so there is no run: `IrigReadBack` and `SmpteReadBack` say that
`Convert` reads back what was packed, `CameraTimeInjective` that no camera time is
confused with another, `DurationExact` that `Duration` is exact up to 2^63
nanoseconds (292 years), and `NormalizedDefined` that the guard of
`NormalizedSubFrame` excludes a division by zero.

Beyond the prover: liveness under fairness and `ENABLED`, and what a recursive
definition computes for every input; no module here needs a recursive operator.
Only model-checked: liveness (`ReceiveReturns`, `HangsOnlyInGetState`,
`RepliesAwaitedReturn`, `ReceiveUDPReturns`, `InterruptEnds`, `ShutdownEnds`,
`DiscoverReturns`), which this prover cannot establish. Every
invariant of every passing run, and the refinements `StreamSpec` and
`ConnectionSpec`, is a theorem.
`First` of `DataFrame` takes the least element of a set of positions; that a set
of naturals has one is induction, and `LookUpsFind` does not need it, since it
compares what two searches find.

## 5. Where code and documentation disagree

Shown by a run:

* A deadline that passes after 1 to 7 bytes of a header is reported as "no more
  data" and the bytes are lost (`protocol.go:381`); the comment at
  `protocol.go:413-416` explains why the same must not happen in a body.
  Run `framing_desync`.
* `GetState` reads the clock again after its loop condition; when the deadline
  passes in between, the non-positive timeout means "block indefinitely"
  (`commands.go:119`, `protocol.go:366-367`). `GetParameters`
  (`parameters.go:100`) and `Calibrate` (`commands.go:590`) have the same loop.
  Run `handshake_hang`.
* Components are read little-endian on a big-endian connection
  (`pkg/packets/cursor.go:95`). Run `decoder_big_endian`.

Met while modelling; the models follow the code:

* `SendCommand` returns an empty string and no error when the next packet is not
  a response, a streamed frame for instance (`commands.go:58` against
  `commands.go:48`).
* The analog parser's bound is a product that is zero for zero samples, wraps at
  64 bits, and is not tested after a short read (`pkg/packets/analog.go:61`
  against `pkg/packets/cursor.go:139-141`); `AllocationBacked` leaves it out.
* `Protocol` "is not safe for concurrent use by multiple goroutines"
  (`protocol.go:98-99`), yet "the two paths are commonly driven from different
  goroutines" (`protocol.go:106-108`), and `rt.udpConn` is not locked: closing
  while receiving may dereference nil.
* `cmd/streaming` logs "reconnecting" and returns (`cmd/streaming/main.go:127`).
* `ReceiveUDP` does not turn an `Error` packet into an error and does not update
  `State`, as `ReceiveTimeout` does (`commands.go:400-404`, `protocol.go:428-445`).
* `Discover` with receive port 0 listens on a port of the system's choice, but
  asks for answers to port 0 (`pkg/discover/discover.go:136, 148`).
* An anycast address on Windows panics (`pkg/discover/discover.go:78`), although
  the type switch above it provides for it.

* `Connect` reports `ErrVersionNotSupported` for any failure of the ladder, also
  for timeouts (`protocol.go:283` against `protocol.go:91-92`).
* `GetState` returns any event, also one pushed before QTM saw the command
  (`commands.go:123` against `commands.go:105`).
* `IsConnected` stays true after the connection was found closed
  (`protocol.go:290` against `protocol.go:288`).
* `State` leaves out camera settings changes, and `lastEvent` is never read
  (`protocol.go:433-440` against `protocol.go:331-332`).
* A packet of header size only is never unmarshalled: an empty event is event 0
  and an empty error is a success (`protocol.go:402-406`).
* The error branch of `sendAndWaitForResponse` (`commands.go:655`) is dead,
  since `ReceiveTimeout` has turned the packet into an error already.

## 6. Not modelled, and why

The text of commands, parameters and settings XML (no state, no order); the
values of component fields other than timecodes; file system output (`file.go`);
`dialer.go`, which is commented out, and the generated stringers. `cmd/settings`
and `cmd/discover` are straight-line uses of the SDK. `UDPServerPort` only
reads. The branch of `EnableUDPStream` for a socket whose local address is no
`*net.UDPAddr` (`commands.go:348-351`) is left out: `ListenUDP` returns none. Errors of `SetReadDeadline` on a TCP connection closed by this side cannot
happen in sequential use; on a UDP socket they can, and are modelled. Concurrent
use of a `Protocol` is excluded by its documentation, except around UDP.

What is known of the code and cannot be a property, because the code does
otherwise, is listed in section 5. In `UdpStream` two races are outside
`ReceiveUDPReturns`: the nil dereference, and a socket opened between
`SetReadDeadline` and the read, which then waits without a deadline. In
`StreamingClient`, `ShutdownEnds` is stated for TCP, since with `-udp` nothing
reads the TCP connection, and for the loop, since `GetQTMVersion` skips a shutdown
that arrives before its answer.

## 7. Plan

Done, in this order: `Packets`, `PacketStream`, `PacketFraming`; `Connection`, `Handshake`;
`CommandSession`; `ComponentFormats` and `ComponentDecoder`; `DataFrame`;
`UdpStream`; `StreamingClient`; `Discovery`; `Timecode`; and for each of them the
proofs of all its invariants.

Left:

1. A safety property under each liveness property, that a measure of the work
   left decreases with every step of the goroutine, and its proof: that is what
   remains of liveness without fairness.
2. That `Handshake` and `CommandSession` read their packets as `PacketStream`
   promises them, as a refinement instead of the remark in section 2.

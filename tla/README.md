# A TLA+ verification of mxtr-proxy

mxtr-proxy is an obfuscating relay for Matrix clients: `mxtr-server` accepts TLS
connections, authenticates a client by a pre-shared key (PSK), and carries many TCP
streams over the one connection in padded, encrypted frames. This directory models
its core in TLA+, checks the models with TLC on small instances, and proves the
central invariants with TLAPS for every instance. Everything here is translated from
the Go code; `PROJECT.json` maps definitions to lines.

    tlc -workers 2 -config MCStreamMux_one.cfg MCStreamMux   # a run
    tlapm StreamMuxProofs.tla                                # the proofs of a module

## 1. Inventory

| part | state | operations | talks to |
|---|---|---|---|
| stream multiplexer (`session_v2.go`) | per session: map of streams, OPEN semaphore, `closed`, `buffered`; per stream: `closed`, upstream socket, queue, `qbytes`; process: `v2GlobalBuffered` | read loop (OPEN, DATA, CLOSE), `handleOpen`, upstream reader, pump, `closeStream`, `closeAll` | peer by frames, targets by TCP, reaper by the closed connection |
| upload flow control (`session_v2.go`, test client) | client: `sendWindow`, `closed`; server: queue, `credited`; frames in flight | `acquireWindow`, DATA, pump, WINDOW_UPDATE, CLOSE | both ends of a session |
| heartbeat, PONG, reaper (`session_v2.go`, `psk_config.go`) | `lastWriteAt`, `lastActivity`, timers, `done` | PING, PONG, `touch`, a round of `reapV2Sessions` | every writer of the session, by the stamps |
| frame layer (`main.go`) | `seqWrite`, `seqRead`, `writeMu`, bytes on the wire | `writeStreamFrame`, `writeFrame`, `readFrame`, the pad ladder | all goroutines of a session |
| persisted identity (`main.go`) | files of PSK, cloak family, CN; what clients were given | startup resolution, `atomicReplaceSecure` | clients, by the share-string |
| target allowlist (`allowlist.go`) and target parsing (`main.go`) | `allowedDomains` | `parseTarget`, `parseAllowList`, `isTargetAllowed` | `handleOpen` |
| listener and gate (`main.go`) | `gate`, sockets | accept, TLS handshake, close, release | the session handler |
| mxtr handshake (`main.go`, `session_v2.go`) | deadlines, nonces | `readClientHandshake`, `writeServerHandshake`, `dialSession` | client, camouflage |
| camouflage (`main.go`) | pinned family, the drain's automaton | `drainHTTPRequest`, pages | probes |
| test client session (`mxtr-testclient-v2`) | per stream: `incoming` channel, `closed`, window; map of streams | `open`, `readLoop`, `deliver`, `markClosed`, `session.close`, the SOCKS5 bridge | server, local applications |
| share-string (`share_string.go`, test client) | none | `buildShareString`, `parseShareString` | operator, clients |
| certificates, logger, `O_NOFOLLOW` | none | formatting, output | |

Hard behaviours. Five kinds of goroutine of a session, and the sessions of a process,
share state with a mixture of atomics, a `sync.Map`, a mutex per stream and a
condition variable, and `closeStream` and `closeAll` are each several steps that no
one lock covers. Nothing bounds a write on the session's connection, so whoever writes
may wait until the reaper comes. Flow control spreads one quantity over four
goroutines of two processes. Identity files are replaced while the process may be
killed. The client's read loop hands data to all streams of a session, one after the
other, and waits for the slowest. Before there is a session, four deadlines follow one
another while a probe sends what it likes, byte by byte. `PROJECT.json` lists these as hazards, at their lines, with the properties
that would catch each of them going wrong.

What makes each part correct: the byte counters equal the queues and come back to
zero; a closed session leaves no goroutine, socket or map entry; a peer learns that a
stream failed (multiplexer). Credit is conserved, uploads are delivered whole and in
order, and no writer hangs (flow control). Silence is bounded, only stalled sessions
are reaped, and those in time (timers). Frames stay whole and nonces fresh (frame
layer). What clients were given stays valid (identity). The target that was asked for is
dialled, exactly if it is listed (parsing, allowlist). Sockets and slots come back in
bounded time, and a client that dials gets an answer (listener, handshake). Downloads
arrive whole, and nobody waits on a stream that has ended (client).

## 2. Modules

| module | models |
|---|---|
| `Totals` | sums over the values of a function, used by the budgets |
| `StreamMux`, `MCStreamMux` | the multiplexer: any number of sessions, OPENs and ids |
| `Upload` | abstract: what windowed flow control promises of an upload |
| `FlowControl`, `MCFlowControl` | both ends of one session, shown to implement `Upload` |
| `Heartbeat` | the timers of one session, in discrete time |
| `PskConfig` | the knobs derived from a PSK and their clamping |
| `MCHeartbeat` | both of these for TLC, with PSKs at the ends of the knobs' ranges |
| `FrameChannel` | one direction of a connection, with the code's sizes |
| `Identity` | startup after startup on one state directory |
| `Connection` | the gate, TLS and mxtr handshakes, HTTP drain and page, and the client that dials |
| `ClientSession`, `MCClientSession` | downloads: the server's reader, the connection, the client's read loop and bridge |
| `Allowlist` | target of an OPEN and the list, as parsed and matched, with a reference on labels |
| `ShareString` | the share-string as built and parsed |
| `Parsing`, `MCParsing` | calls of these two, for TLC |
| `TotalsProofs` | lemmas on sums, for the two modules with budgets |
| `StreamMuxProofs` | proofs: the multiplexer's control, byte budgets, caps and OPEN semaphore, and how its streams and sessions end |
| `FlowControlProofs` | proofs: windows, caps and the refinement of `Upload` |
| `HeartbeatProofs`, `ConnectionProofs`, `ClientSessionProofs`, `FrameChannelProofs`, `IdentityProofs` | proofs about these modules |

`StreamMux`, `Heartbeat`, `FrameChannel`, `FlowControl` and `ClientSession` are views of
the same session: the goroutines with their locks, the timers, the bytes, and the two
directions of a stream with both ends. `Connection` is what comes before, with a session
as one of its states.

### StreamMux

A member of `Opens` stands for an OPEN frame, its `handleOpen` goroutine and the
`v2Stream` this may create, with its reader and pump. `pc` says where each goroutine
is: labels `cs_*` are inside `closeStream`, `ca_*` inside `closeAll`, and the rest are
the blocking points of the code. A step ends where another goroutine could see the
difference: at a map operation, a compare-and-swap, or a section under `st.mu`. So the
read loop loads a stream and compares the budgets in one step and queues in another
(two atomics and a map load are joined to one step; the other goroutines only lower a
session's counter meanwhile, and other sessions raise the global one between the two
steps as they can in the code). `sync.Map.Range` in `closeAll` visits each key at most
once; what was in the map when it began is visited unless deleted first, what was
added later may or may not be. A write on the session's connection succeeds, or fails
if the connection is broken or closed; a read yields any frame the peer may send.
`told` and `peerClosed` are history for the properties.

The peer is arbitrary unless `EarlyData` is `FALSE`, in which case it sends DATA only
for streams whose OPEN_OK was written. `CloseLog` is whether `told` keeps CLOSE frames,
which only `FailsLoudly` looks at; without them there are fewer states. `Faulty` and `PeerReads` say what may befall the
connection. PING, PONG and unknown frames change nothing here. When a WINDOW_UPDATE is
due belongs to `FlowControl`.

### FlowControl and Upload

Chunks are numbered, with the lengths of `Plan`. The client's `markClosed` is two
steps, because it sets `closed` outside `winMu`, where a writer may be between its look
at the flag and its `Wait`. `closeStream` is two steps, as its stream leaves the map
before its bytes leave the budgets (`LeaveMap`, `Reclaim`): one that is `dropping` or
`closing` takes no more DATA, still counts, and its pump may still take and write. The
session counter is the sum of the queues, for which `BudgetExact` of `StreamMux` is the
license. `others` is what the other sessions hold of the process-wide budget; it takes any
value of `OtherBytes` at any time. The uploads of `HalfClose` are written by the SOCKS5
bridge, which ends with CLOSE, the others by `streamWriter`, which does not. `Upload` says that chunks arrive in order,
once each, without a gap, that bytes handed over and not delivered stay within the
window, and that nothing arrives after the end. `RefinesUpload` maps `over` to the
streams the server has closed.

### Heartbeat and PskConfig

Ages replace time stamps. `Tick` is allowed only when every goroutine waits, for a
timer, a frame, or a write that makes no progress: code runs in no time compared with
a tick. `blocked` is a connection that takes no bytes. A PONG's delay of at most 15 ms
is less than a tick. `TimingAssumption` asks that the longest silence
(`idleThresholdMs` plus the longest jitter) fits the reaper's timeout; `PskConfig`
shows this for every PSK.

### FrameChannel

Frames have the code's lengths, so the 16-bit fields, the last rung of the ladder and
the largest payload meet as they do in the code. A ciphertext opens only under the
nonce it was sealed with; that much is assumed of the AEAD. `TooLarge` is the check of
`writeStreamFrame`; the one in `writeFrame` (`main.go:237`) is never reached behind it. `countFirst` chooses
between the server, which counts before it writes, and the test client, which counts
after.

### Identity

The three files are resolved in the order of `main`. Drawn values are numbered, so no
two are alike. `disk` is what a path holds, `durable` what it holds after a loss of
power: contents are synced before the rename, the directory never is. `lost` records
the files that could not be read, or whose rename was undone, since clients last got a
share-string. `Invalid` covers
content that does not parse; for the PSK this ends the process (the test comes after
the resolution in the code, and is `PskIsBad` here, as nothing lies between).

### Connection

A member of `Conns` is a connection that is made, served and made again. `pc` is where
its goroutine is: `backlog` and `accepted` before it has a slot, then the TLS handshake,
the four bytes that tell a probe, the rest of the hello, `drain` and `page` of the
camouflage, `welcome`, `session`, and after them `ending` (before the deferred `Close`)
and `closed` (before the deferred `<-gate`). `left` is the deadline set on the socket and
`age` a clock for `SlotBound`. As in `Heartbeat`, a tick passes only while every
connection waits, and an operation whose deadline has come fails, or is just done in
time. Probes send what they like, or nothing, or leave; clients are in `dialSession`,
with the server's PSK or another, and their nonce may by chance begin like a method.

A session ends because the connection cannot be read, because the reaper closed it, or
because a frame is refused (`FrameRefused`: it does not decrypt, is shorter than its
header, or carries less than it says); `ended` keeps that the server, and not the peer,
ended it.

A request is a sequence of symbols: the method's bytes, then CR, LF and other text in any
order. Which page answers it depends on the text of the request line
(`httpRequestPath`, `camouflageForPath`), and is left out.
`Step` is the closure of `drainHTTPRequest`; `BlankLineAt`, and `InLine` and `Rank` (the
places of the request line and their number in it), are the reference it is compared with,
on the text as a whole.

### ClientSession

Downloads have no window: the only limit is the connection, which holds `WireCap`
frames each way, so a read loop that waits stops the server's readers. `incoming` is a
channel of `ChanCap` chunks. `deliver` holds `closeMu` while it waits; as the only other
user of the lock is `markClosed`, called by the same goroutine, the lock itself is not a
variable (the mutant `CopyUnderLock` is what would happen if `Read` took it). `copier` is
`handleSocks5` in `open` and then `io.Copy`, `bridge` the goroutine that reads the local
application, of which the wait for the window and the CLOSE at the end are kept.
`session.close` visits streams one by one, and streams stored meanwhile perhaps. A
stream not in `Fresh` is open from the start. The server may give up a stream of
`MayFail` in the middle of its download: the pump's write to the upstream fails, or the
read loop sheds the upload, and both write CLOSE and close the stream, while the reader
may have a chunk in hand that it writes behind that CLOSE. `failed` keeps the streams
given up. The pump and the shed are joined to one step from the write of CLOSE to
`closeStream`; between `Shed` and `ShedClose` the server's read loop reads nothing.

### Allowlist, ShareString, Parsing

Text is a sequence over a small alphabet with upper case, dot, hyphen, star, colon and
brackets, and with tokens for IP literals and ports. A payload of OPEN is its type, the
length byte and the bytes that follow. `handleOpen` of `Allowlist` is the code up to the
dial, including what `net.Dial` makes of an address it cannot split. `Lists` is the
reference of the list, on labels instead of characters and with addresses as sets of
spellings, `Encodes` that of a payload. Hosts may carry brackets, matching or not, and an
address has a second spelling (an IPv4 address mapped to IPv6, zeros written out).
In `ShareString` bytes keep their 8 bits and base58 its 58 digits; keys are shorter
(`KeyLen`).

## 3. Runs

Passing runs, with their distinct states:

| run | states | shows |
|---|---|---|
| `mux_one` | 1.9 M | two streams of one session, well-behaved ids: counters exact, budgets return, the semaphore holds, failures are announced, nothing is orphaned |
| `mux_two` | 2.1 M | two sessions that share a process-wide budget too small for both: caps hold, the global one but for a chunk of the other session |
| `mux_live` | 152 k | a reused id and early DATA: no orphaned socket; a broken or reaped connection ends all goroutines but a displaced stream's, closed streams end, OPENs are answered unless their id is in use |
| `flow_uploads` | 292 k | credit conserved, refinement of `Upload`, shedding only if one of the caps is crowded, chunks arrive, no writer hangs |
| `hb_beats` | 1.9 M | silence bounded, reaper right and in time, goroutines released, knobs at the ends of their ranges |
| `frames` | 30 k | frames whole, in order; nonces fresh |
| `id_restart` | 2.7 M | a persisted PSK or CN changes only if its file was lost; paths are replaced whole |
| `parsing` | 337 k | what was asked for is dialled, exactly if it is listed; share-strings lead to their server |
| `client` | 330 k | downloads arrive whole and in the end unless the server gave them up, the bridge's goroutines end with the stream and with the session |
| `conn` | 193 k | sockets and slots bounded, one request drained, a client let in has a session that only the reaper or a refused frame ends, dials return |

Runs that show a disagreement between the code and what its comments say (`findings`
in `PROJECT.json` quotes the line):

| run | what TLC shows |
|---|---|
| `mux_leak` | `handleOpen`'s undo leaves early DATA in `v2GlobalBuffered` for good |
| `client_stall` | an application that leaves with its channel full stops the client's read loop for good: writers of other streams hang when the session ends |

Bounds. Two streams or two sessions are enough for every pair of goroutines to meet
(loop, opener, reader, pump of one stream; two streams for ids; two sessions, in
`mux_two`, whose caps are each as large as the global one), and two DATA frames for a queue that fills up and
overflows; `MaxOpens = 1` fills the semaphore. Chunks of one byte against caps of one
or two reach each side of every comparison. In `mux_two` both loops may pass the
comparison with one byte left, and one session fails while the other lives. The
cap of `flow_uploads` is exactly one window, where an off-by-one shows, and other sessions
leave it that window or one byte less. The uploads have a chunk of the whole window behind a small one, and one that crosses the
threshold twice. In `Heartbeat` the constants keep the order they have in the code
(threshold < minimum < maximum, a reaper round shorter than the timeout, and several
heartbeats to a timeout), and `Horizon` lies past anything a property compares;
the proofs cover all others. `FrameChannel` tries a payload that fills a rung, the
largest and one too many. `Identity` draws five values: a first start takes up to three, and a rotation or a
loss two more. In `Connection` a probe and a client compete for one slot, a tick is the
whole of each timeout (the proofs cover all others), and six symbols hold a blank line
with a symbol out of place before it or a request cut off by the limit. `ClientSession`
has a channel and a connection of one frame each, so that each of them fills up; one
stream is open and one is opened, and it is the latter that the server may give up. `MCParsing` has entries of up to four
characters against hosts of up to five, addresses in each spelling, hosts in brackets,
and payloads too short and too long. Symmetry is used over `Opens` in safety runs only.

Deadlock is checked except where a system may really stop: `mux_live` (with a reused
id a pump may stay parked, see section 5), `frames` (its frames
are bounded) and the two runs of `ClientSession` (a session that is over is not begun
again). A finished state of `StreamMux` and a quiet one of `FlowControl` are
stuttering steps with guards, so a deadlock elsewhere would show.

Fairness. Every goroutine that can run does (weak fairness per goroutine: Go's
scheduler is preemptive). What waits for the environment is left without it: the read
loop for a frame, a reader or pump for an open upstream and, unless `PeerReads`, each
writer of a connection that is up, as no write deadline is set. A dial ends by
`dialTimeout`. A connection that broke makes `readFrame` fail after finitely many more
frames: strong fairness, since frames still buffered may be read in between. In
`FlowControl` an open upstream takes bytes in the end, without which no upload
arrives, and whoever is in `closeStream` goes on (`Reclaim`); nothing is asked of other
sessions. In `ClientSession` local applications and upstreams need neither send nor end;
one that has been closed is noticed. There a server that sheds while the connection is full
may wait to write CLOSE, and the client to write PONG, each for the other to read
(`MutualWait`): no write of a session has a deadline, and only the reaper ends it, which
`Heartbeat` shows to come in time, hence `WF(MutualWait /\ Cut)`. Without it
`CopierReleased` is violated. In `Connection` the server's goroutines run and
time passes although connections keep coming (strong fairness of `Tick`, as every new
connection makes a goroutine run first), and the backlog is a queue, so a connection is
accepted though others come (strong fairness of `Accept`). Nothing is assumed of
probes. Safety runs use no fairness.

Every property has a mutant: a definition changed as a plausible bug would change it
(a dropped check under the lock, a reclaim forgotten, a token kept), under which TLC
must find the property violated.

## 4. Proofs

All for arbitrary values of the constants, from the assumptions named in the modules:
`MuxAssumption` (finite sets of sessions and OPENs, lengths bounded by `MaxChunk`, ids
assigned in any way), `FlowAssumption` (finitely many uploads, chunks no larger than the
window), `TimingAssumption`, `ConnAssumption` (finitely many connections, naturals, and a limit of
the drain that leaves room for more than the method), `ClientAssumption` (any streams and
lengths, capacities above zero), `ChannelAssumption` and `IdentityAssumption`. TLC evaluates them on its instances, and
checked the inductive invariants there, apart from types over infinite sets, before they
were proved.

- `StreamMuxProofs!ShapeHolds`: the inductive core, which speaks of control only: at
  which label which goroutine has loaded a stream, that this stream belongs to its
  session, that map entries are stored under their own id and have a `handleOpen`
  behind them, that a reader and a pump exist only after it ended. One lemma per
  action.
- `StreamMuxProofs!BudgetExactHolds`: `BudgetExact` is inductive relative to `Shape`.
  The point is that each change of a queue is made together with the same change of
  three counters, and that each reclaim takes out what one stream holds; the lemmas of
  `TotalsProofs` say what a sum becomes when one or two values change.
- `StreamMuxProofs!CapsHoldAlways`: a loop that has compared and not yet added holds a
  reservation. `CapInv` says that the session counter plus the session's reservation
  stays within the session cap, and that the global counter plus all reservations but
  one stays within the global cap plus what those reservations can be; hence the
  overshoot of one chunk per other session.
- `StreamMuxProofs!SemaphoreExactHolds`, `TypeCorrect`: `SemInv` counts the
  `handleOpen` goroutines in flight by a cardinality. Type correctness, whose content is
  the range of the semaphore and of the byte counters, follows from the others.
- `StreamMuxProofs!ClosedIsReclaimedHolds`: for any ids, reused ones too. Six kinds of
  step can close a stream, change its bytes or move the goroutine that is about to reclaim
  them (`ReclaimSteps`); the invariant is inductive relative to `Shape` and the order in
  which a stream's goroutines start.
- `StreamMuxProofs!NoOrphanHolds`: for any ids. Once `closeAll` has begun, a stream in the
  map is one whose `handleOpen` has still to look at `closed`, or one that Range has still
  to visit or is about to delete (`MapSwept`); an open upstream has a `handleOpen` or a
  reader that will close it (`OwnedUpstream`).
- `StreamMuxProofs!OpenAnsweredHolds`: for any ids. An OPEN that was refused for its id met
  a stream whose `handleOpen` had dialled, and a stream that was dialled once stays so.
- `StreamMuxProofs!FailsLoudlyHolds`: under `DistinctIds`, and with CLOSE frames kept
  (`CloseLog`). Whoever is in `closeStream`
  while the connection is up has told the peer, or was told by it (`LoudClosers`). With a
  reused id TLC finds a counterexample: CLOSE was written for the other stream of the id.
- `StreamMuxProofs!GlobalReclaimedHolds`: under `DistinctIds` and for peers that wait for
  OPEN_OK (`EarlyData = FALSE`): a stream the peer was told of is closed, in its map, or
  held by a goroutine about to close it (`Reachable`), and only such streams have bytes
  queued (`QueuedConfirmed`). Both conditions are hypotheses of the theorem, not assumptions
  of the module; without the second the property is false, which `mux_leak` shows.
- `FlowControlProofs!WindowConservedHolds`, `ShedOnlyIfCrowdedHolds`: for any number of
  uploads, any plan and any window. `WindowInv` adds to the window's equation why none of its
  terms can vanish: a credit finds the stream in the client's map, a DATA frame finds it
  open, and OPEN_OK comes once. A queue and the DATA on its way then never exceed a window,
  also that of a stream which is being closed and is still counted (`QueueBound`), so the
  sum of the queues stays within the windows of the streams that are open or closing, and a
  cap is passed only if these windows pass it, with what others hold for the process-wide
  one.
- `FlowControlProofs!RefinesUploadHolds`: `FlowControl` implements `Upload`, action by
  action: the client's write of a chunk is a `Send`, the pump's write a `Deliver`, what
  closes a stream an `End`, and everything else stutters.
  `UploadInv` adds that chunks keep their order from writer to upstream, and a ledger of
  bytes that, unlike the equation, also holds of a stream that was closed with credit still
  under way.
- `HeartbeatProofs`: one inductive invariant, `HbInv`. While the heartbeat sleeps, the
  silence so far and what is left of its timer stay within `MaxSilence`; activity is
  never older than the last write; an age above the timeout and the time to the next
  round of the reaper stay within the timeout plus a round; a session that is done has
  no sleeping heartbeat once time passes. It gives the silence bound, both properties
  of the reaper and the prompt release.
- `HeartbeatProofs!PskCadence`, `PskPads`: for every output of HKDF, the knobs fulfil
  `TimingAssumption`, leave the client's read timeout 6.75 s to spare, and never let
  `mrand.IntN` panic, also where the minimum derived exceeds the maximum. `KnobsFitHolds` says so of every state of a session, of
  which TLC checks the ends of the ranges.
- `ConnectionProofs!SocketsBoundedHolds`, `SlotBoundHolds`, `SessionSharedHolds`: from
  one inductive invariant, `ConnInv`. The gate holds as many tokens as there are
  goroutines between `TakeSlot` and `Release` (a cardinality), and an open socket belongs
  to one of them before its `Close`, or to the accept loop. Age and what is left of the
  deadline add up, in each phase, to no more than the timeouts up to this phase: a tick
  moves one to the other, and only the next phase sets a new deadline. A session has no
  deadline, which is what `SharedInv` needs; it says what the two ends know of each other:
  nobody is answered before `page` or `welcome`, hello goes only to a client that waits and
  holds the PSK, and only the reaper closes a session's socket. None of the bounds is inductive without the phase it is for.
- `ConnectionProofs!DrainsOneRequestHolds`: for requests of every length. `ReqInv` says
  that the state of the closure is the length of the longest beginning of CR LF CR LF that
  ends what was read (so a CR out of place counts as a first one, and any other symbol out
  of place as none), that no blank line lies further back, and that the line kept
  holds, at the rank of each of its places, the symbol read there. The reference sees the
  text at once, so the proof is about places, not an induction over the text.
- `ClientSessionProofs!WholeAtEofHolds`: for any number of streams, lengths and capacities.
  `SessionInv` says where each chunk is (`Flow`): with the application, in the channel, in
  the read loop's hand, on the connection, in this order and without a gap up to the last
  one written. `WholeAtEof` is not inductive without what keeps a chunk from being passed
  over: CLOSE is behind the last chunk (`Behind`), a stream leaves the map or is marked
  closed only when none is under way (`Unlisted`), an id is opened once and has no chunks
  before (`Opening`), and a server's reader ends with the upstream, because the
  application ended the stream, or because the server gave it up (`Ended`). Of a stream that was given up this is said until the
  client has marked it closed, and after that only that nothing is put into its channel
  (`Listening`).
- `ClientSessionProofs!NothingThrownAway`: an action property, from the same invariant:
  where `readLoop` and `deliver` discard a chunk, nobody is left to read it, or the server
  gave the stream up before the chunk was written.
- `FrameChannelProofs!NonceFreshHolds`, `IntactHolds`: for any number of writers and any
  lengths. `ChanInv` says that `writeMu` excludes; that, while the connection works,
  `seqWrite` is the number of frames begun and one more, ahead by one while the server (and
  not the client) has a frame in hand; that frame *i* in the order of the mutex carries *i*;
  and that the wire is what the reader has not taken of length, body, length, body. Once
  the connection is broken nothing is said of `seqWrite`, which no longer matters: a client
  whose write failed seals the next frame under the same nonce, but writes none of it. Two
  lemmas about sizes (`RungFits`, `SealedFits`) say that what passes `writeStreamFrame`'s
  check fits its rung and both 2-byte fields.
- `IdentityProofs!PskStableHolds`, `CnStableHolds`, `NeverTornHolds`: for any number of
  starts, kills, losses of power and values drawn. `IdInv` says that the path of a value a
  client was given still holds it, so that `main()` never gets beyond reading that file and
  resolves the same value, unless the file is `lost` (or, for the CN, rotated); for that,
  that the path of a file saved by this process holds its value, which is why the temporary
  file must hold that value when it is renamed.

Only model-checked:

- all liveness properties (`TornDown`, `StreamEnds`, `UploadArrives`,
  `NoStuckWriter`, `Delivered`, `DownloadArrives`, `CopierReleased`, `EndsWithSession`,
  `DialReturns`), as fairness and ENABLED are out of the prover's reach;
- the properties of the parsers. The references of `RelaysExactlyListed` and
  `SharesTheServer` sort the dots of a name and fold digits to a number, and what these
  compute for every text needs induction over the text. `DialsWhatWasAsked` needs none, and
  has not been proved: TLC takes every short payload, with lengths that do not fit.

## 5. Not modelled

The test client's SOCKS5 negotiation and its one-shot HTTP modes use a stream as the
bridge does. The text of pages, certificates and logs is not a subject for a model, and the
strength of the cryptography is assumed. The Android client is not in this repository.
Sequence numbers are 64 bits wide and do not overflow in the life of a connection, and
the byte counters are bounded by the caps, so neither is modelled with its width.

What the properties state with a condition that a comment or a document leaves out:

- `CapsHold`: the global cap may be overshot by a chunk per other session
  (`session_v2.go:70` calls it "the hard host-memory ceiling").
- `ShedOnlyIfCrowded`: the session cap is 32 windows, and nothing limits the number of
  streams; and the process-wide cap may be held by other sessions, in which case a client
  with one stream that keeps to its window is shed (`docs/PROTOCOL.md:184-186`: a
  flow-controlled client does not reach the caps).
- `OpenAnswered`: an OPEN whose id is in use is refused without an OPEN_ERR
  (`session_v2.go:332-335`); the peer, who reused it, learns nothing.
- `WholeAtEof`, `NothingThrownAway`: a server that cannot write to the upstream, or sheds
  the upload, closes the stream in both directions (`session_v2.go:415-418`, `:566-567`):
  the download ends early, and the application sees the same EOF as at its end.
- `DownloadArrives`, `CopierReleased`: with both read loops waiting to write
  (`session_v2.go:566`, `mxtr-testclient-v2/main.go:554`) nothing moves until the reaper
  closes the connection. A pump that fails on a stream already closed sends one more CLOSE,
  which finds no stream at the client and is left out.
- `SessionShared`: the server may end the session of a client that is there, by the reaper,
  and at once at a frame it refuses (`docs/PROTOCOL.md:121-122`).
- `SilenceBound`: silence may last idle threshold plus longest jitter
  (`docs/PROTOCOL.md:203-205` has a PING after at most `heartbeatMaxMs`).
- `PskStable`: any error of `os.ReadFile` leads to a new PSK, which replaces the file,
  and the directory is not synced after the rename (`main.go:1148`, "if missing", and
  `main.go:1194`, "stable across reboots").
- `TornDown` leaves out a stream that was displaced. `handleOpen` undoes its store by id,
  not by stream: with a reused id it may delete the entry of another stream, which
  `closeAll` then misses and whose pump stays parked (`session_v2.go:341`, `:255`).
- `RelaysExactlyListed` speaks of lists with an entry in force. If all entries of `-allow`
  are refused at parse time, the list is empty and everything is allowed
  (`allowlist.go:89`, against `allowlist.go:3-4`).
- `SharesTheServer` asks for an address with brackets if it is IPv6, a listen address
  `:N` and a PSK of 32 bytes. `main` also accepts IPv6 without brackets
  (`isPublicIPLiteral`), `ip:N`, and PSKs from 16 bytes on (`main.go:1229`), and prints
  strings that the client refuses
  (`main.go:1302-1303`, "we'd otherwise emit a dead share-string").
- `DialsWhatWasAsked` is about what is dialled. The client sends an IPv6 literal of SOCKS5
  as a domain (`mxtr-testclient-v2/main.go:577`); the server builds an address without
  brackets from it, and the dial fails.
- `CopierReleased` leaves out a reader that finds its stream closed between two reads. It
  ends without a CLOSE (`session_v2.go:366`), and the client's `io.Copy` waits until the
  session ends.
- `DownloadArrives` and `EndsWithSession` are checked with applications that leave while
  their channel is not full; `client_stall` is the other case.
- `SocketsBounded`: a slot is held for the whole session, not only for handshakes
  (`main.go:1022`), so as many sessions as the gate holds keep everyone else out.

What the models do as the code does, and a comment says otherwise: a CLOSE that is read
while `handleOpen` still dials finds no stream and is lost, and the stream is opened
(`session_v2.go:275`, against `:9`, "either side: close stream"); a CLOSE drops what the
pump has not written, so the SOCKS5 bridge, which ends with CLOSE, may lose the tail of an
upload (`session_v2.go:291`, against `:53`, "we NEVER drop a byte").

Other disagreements met while reading: the CN is kept across
restarts (`CnStable`; the help of `-cert`, `main.go:1151`, has it rotate); sequence
numbers start at 1 (`docs/PROTOCOL.md:83` has 0); the handshake jitter is 1-15 ms
(`docs/PROTOCOL.md:275` has 5-50); PONG echoes the payload of PING and PING's padding
comes from the PSK (`docs/PROTOCOL.md:205-206`).

## 6. Plan

Done: the multiplexer first, as the part with the most concurrency, then flow control,
timers, frames and identity, then what surrounds a session: connection, handshake and
drain, the client's receiving side, and the parsers of both programs; the proofs of the
multiplexer's counters and of how it ends, of flow control and its refinement, of the
timers, the connection gate and the drain, the frame layer, the persisted identity and
the client's downloads: every invariant of the runs but those of the parsers.

Left: a client that ignores its window next to one that does not, in `FlowControl`; and a
proof of `DialsWhatWasAsked` for payloads of every length.

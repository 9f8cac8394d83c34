# A TLA+ model of CoherenceLab

CoherenceLab (`src/`) records what a client looks like on the wire (its TLS
ClientHello, its first HTTP/2 flight, its QUIC Initials, its HTTP headers) and
checks whether the surfaces agree with each other and with a profile. This
directory holds TLA+ modules that model the program, TLC configurations that
check them on small instances, and proofs for TLAPS.

    tlc -workers 2 -config ProbeServerFlights.cfg MCProbeServer
    tlapm ProbeServerProofs.tla      # and the other *Proofs modules

## 1. The system

Paths are relative to `src/internal/`. The program is one Go process per command
(`serve`, `fingerprint --serve`, `scan`, `compare`, `lab ...`, `ui`). All of its
concurrency is in the probe server and, on a small scale, in the parrot client;
the rest is sequential algorithms over bytes and records.

| Component | State it keeps | Operations | Hard about it |
|---|---|---|---|
| **Probe server**, `probe/server.go`, `probe/capture_api.go` | `Server`: `helloByAddr`, `lastHello`, `h2ByAddr`, `lastH2Raw`, `logs`, `lastCapture`, all under `mu`; files in `CaptureDir` | `Accept`, `storeHello`, `takeHello`, `storeH2`, `takeH2`, `persistH2Raw`, handlers `/probe`, `/api/capture`, `/clienthello`, `h2TrackedConn.Close` | a goroutine per connection and per h2 request; tables keyed by a reusable address; files written after the unlock; clients that leave at any point |
| **ClientHello capture**, `probe/hello_conn.go` | `prefix`, `hello`, `capErr`, `once` per connection | `ensure`, `Read`, `ClientHello` | partial reads, a deadline in the middle of the record |
| **HTTP/2 capture**, `h2wire/` | `writeBuf`, `readBuf`, `obs`, `raw`, `rawFromWrite` per connection | `Read`, `Write`, `Observation`, `RawClientFlight` | frames split over reads, two directions, a flight that is cut again at every read |
| **QUIC Initial capture**, `probe/quic_capture.go` | `initialTeeConn.seen`, `quicFlights` | `maybeTee`, `persistQUICInitial` | a goroutine per datagram, reordering, repetition, fragments that parse too early |
| **HTTP/3 streams**, `probe/quic_capture.go` | one buffer per control stream | `quicAcceptLoop`, `captureH3ControlStream`, `serveH3Requests` | three clocks, ever longer files |
| **Root CA**, `probe/cert.go` | PEM pairs in the durable and the capture directories; `cachedCertPEM`, `cachedKeyPEM` | `buildCerts`, `loadCertPEMs`, `mirrorCachedPEMs`, `WriteCertPEMs` | two files per pair, rewritten in place, by several processes, killed at any time |
| **Dissection**, `dissect/` | HPACK dynamic table, else none | `ParseClientHello`, JA3/JA4, `ParseH2`, HPACK, QPACK, QUIC headers and frames, flights | lengths and indices at boundaries |
| **Fingerprint**, `dissect/fingerprint.go`, `cmd` | files of a capture directory | `LoadCaptureDir`, `FingerprintCapture`, `captureViaProbe` | reads a directory that is being written, by "newest" |
| **Coherence**, `rules/`, `score/`, `scan/`, `compare/` | none | 24 rules, score and grade, mutations, comparison | skipped against failed, thresholds |
| **Client**, `client/` | `DialResult` | `BuildTransport`, `Probe` | several dials, one result |
| **Profiles and what becomes of them**, `profile/`, `capture/`, `adapters/`, `signal/` | the directory of profiles | `LoadDir`, `FindByID`, `ToProfile`, `LoadSnapshot`, `ScanExport` | one unreadable file, inferred names, what a capture expects of the next visit |
| **Commands**, `cmd/coherencelab`, `ui/` | the profiles and the corpus, which some of them write | `scan`, `compare`, `capture`, `profiles`, `fingerprint`, `demo`, `lab ...`, `POST /api/scan` | what one command leaves for the next |

How they interact. `Start` wraps the TCP listener in `helloCaptureListener`; the
TLS stack reads through `helloTrackedConn`, which calls `storeHello` on its way
back. For ALPN `h2`, `installH2CaptureHandler` puts a `CaptureConn` on top of TLS
and an `h2TrackedConn` in the request's context. Handlers take what the
connection stored, by remote address, from the tables of `Server`, or read the
`CaptureConn` directly. Both `handleProbe` and `h2TrackedConn.Close` offer the
flight to `persistH2Raw`. The UDP side shares only `CaptureDir` with the TCP
side. `fingerprint --serve` runs a server, polls `LastClientHello`, sleeps and
reads the directory back with `LoadCaptureDir`, which takes the newest file of
each kind. What makes each part correct:

- *Server*: a request gets its own or a newer hello, never an older one; nothing
  stored is handed out twice; the longest flight is kept and on disk; the log is
  the newest `maxLogs` observations; `lastCapture` has its files; hellos and
  flights survive clients that leave; every request ends.
- *ClientHello capture*: TLS sees the client's bytes unchanged; the hello is the
  first record, stored once, before TLS runs.
- *HTTP/2 capture*: the flight is the client's, ends at a frame, holds all up to
  the first body or the next request, one header block, and only grows.
- *QUIC capture*: one parsing flight per connection, no datagram twice.
- *HTTP/3*: whatever ends the reading of a control stream, what has been read is
  in the newest file unless the last write failed; a late PRIORITY_UPDATE gets
  there; requests are answered.
- *Root CA*: a served certificate has its key; one root over all runs; a kill
  loses at most one copy.
- *Fingerprint*: no client is accused of being two for a stale, missing or
  half-written file; files of two clients that change the verdict are reported.
- *Coherence*: what is captured can be loaded and has no critical failure against
  the browser it came from; what is mutated has one; `compare` and `scan` agree.
- *Dissection*: identities that must not depend on order or GREASE do not; the
  dynamic table holds the newest fields that fit.

## 2. The modules

| Module | Models | Its state and actions |
|---|---|---|
| `ProbeServer` | the TCP side of `probe` | the fields of `Server` under their names; `pc` for every connection goroutine and every handler; one action per stretch between two points where another goroutine can run: a lock released, a blocking read, a file, the sleep of `handleProbe` |
| `MCProbeServer` | instances of it | two connections from one port |
| `ProbeServerProofs`, `HelloCaptureProofs`, `H2CaptureProofs`, `QuicCaptureProofs`, `H3ControlProofs`, `ProbeCertProofs`, `LabProofs`, `CommandLineProofs` | theorems about the module each is named after | see section 6 |
| `HelloCapture` | `HelloCaptureConn`, `readFirstTLSRecord`, `helloTrackedConn` | bytes on the wire, the buffer of `io.ReadFull`, `prefix`, `hello`, `capErr` |
| `ReplayedStream` | what that connection promises | bytes sent, bytes delivered |
| `H2Capture` | `CaptureConn`, `tryParseClientSettings`, `truncateThroughControlFlight` | two directions of frames; a buffer is a length in half frames |
| `QuicCapture`, `MCQuicCapture` | `maybeTee`, `persistQUICInitial`, and of the dissection what decides whether CRYPTO data parses | a goroutine per datagram, `seen`, `quicFlights` |
| `H3Control`, `MCH3Control` | `handleH3ConnManual`, `captureH3ControlStream`, `serveH3Requests` | per connection the reader of the control stream and the goroutine of a request, where they stand, the clocks that may run out, and how much of the stream is read and written |
| `Hello`, `H2Wire`, `H3Wire`, `QuicWire` | `dissect/`: the parsers, JA3 and JA4, HPACK and QPACK, transport parameters, the diffs and the cross-layer reports | operators over wire records; no state |
| `Fingerprint` | `FingerprintCapture` | operators |
| `CaptureSession` | `captureViaProbe`, `LoadCaptureDir` | the command's progress; of each kind of file the newest; the server's goroutines by the files they write |
| `Coherence` | `rules/`, `score/` | one operator per rule; a finding is its weight, severity and outcome |
| `Scan` | `profile/`, `client/`, `capture/`, `scan/`, `compare/`, `adapters/` | operators over profiles and snapshots |
| `Lab` | the `lab` commands | an operator each: refused, or the answer |
| `CommandLine`, `MCCommandLine`, `MCCorpus` | `cmd/coherencelab` and `ui/` | what has been captured and ingested, the command that ran last and its answer; an action per command; `fingerprint --serve` is an instance of `CaptureSession` |
| `ProbeCert`, `MCProbeCert` | `cert.go` and the part of `Start` that uses it | the content of every PEM file, a process's progress through load, mint, mirror and copy |

Payloads are abstract. In `ProbeServer` a hello or an observation is the
connection it was read on, and a flight is its connection and its length, for
that is all `persistH2Raw` compares. In `HelloCapture` a byte is its position,
except for the record type and the length; the header has two bytes instead of
five. In `H2Capture` a frame is its type, its END_HEADERS flag and two halves.
In `QuicCapture` the hello is counted in units of four bytes, of which the
instance says where extensions start; what was not received reads as zeros, which
inside an extension are content like any other and at the place of one an empty
extension. In the instance a hole is always inside an extension. In `ProbeCert` a file's content is the pair it
belongs to, or nothing.

`Hello`, `H2Wire`, `H3Wire` and `QuicWire` take wire bytes as records: of a hello its
lists, of a flight its frames and where it is cut, of a QUIC file its datagrams
and whether each decrypts. Numbers that are only compared keep their values
(extension types, SETTINGS, transport parameter ids), and what the parsers reject
is a field of the record. A User-Agent is the set of its words with their
versions, so that `strings.Contains` is membership; a profile's id is the
sequence of its parts. `MCCorpus` has the captures under `dissect/testdata` in this
form, and `MCCommandLine` all profiles under `src/profiles`. The modules compose
downwards: `CommandLine` extends `Lab`, which extends `Fingerprint` (over
`QuicWire`, `H3Wire`, `H2Wire` and `Hello`) and `Scan` (over `Coherence`).

`HelloCapture`, `H2Capture` and `QuicCapture` are the parts `ProbeServer` treats
as one step each: `StoreHello` there is the moment `Return` stores in
`HelloCapture`, which shows that it happens once and before TLS reads;
`ReadFrames` is `Capture` of `H2Capture`, which shows that the flight only grows,
as `ProbeServer` has it.

### Details worth knowing

- `Accept` needs no earlier connection *in use* from the same address, but its
  goroutine may still be running, or its handlers: that is how a port is reused.
- `http2` runs handlers in goroutines that outlive `ServeConn`; its frame reader
  is another one. `ReadFrames` is therefore allowed after the connection ended,
  and `EndServing` does not wait for requests on h2, but does on HTTP/1.1.
- A failing `os.WriteFile` is a choice (`DiskMayFail`, `WritesFail`); it is off
  in the runs where every write is supposed to succeed. A failed write of
  `H3Control` (`WriteFails`) leaves no new file or an empty or a partial one, which
  is the newest then.
- `/api/capture` reads the body of its request before it takes anything. The step
  `body` of `ProbeServer` ends with the body (`BodyArrives`, valid JSON or not) or
  with an error (`BodyReadFails`), which needs the connection gone or the clock of
  `ReadTimeout` run out; a request that errs, or has another method, takes no hello
  and no observation.
- `ProbeCert`, `H3Control` and `CaptureSession` split `os.WriteFile` into truncating
  and writing, because a kill or a reader can come in between. In `ProbeServer` and
  `QuicCapture` a write is one step: nobody reads those files there.
- `CaptureSession` says by kind which files the server's goroutines write and in
  which order, as `ProbeServer`, `H3Control` and `QuicCapture` have it, and lets any of
  them be late. `Touch` chooses whether a file gets a later modification time than
  the newest one: with a coarse clock `LoadCaptureDir` keeps the first of a tick.
- In `H3Control` a read of the control stream ends in the middle of a frame as often
  as at its end; what has been read is written after every read, errors are
  ignored, and only a parsed PRIORITY_UPDATE, an error that is no timeout (the
  client has ended or reset the stream, or closed the connection), or a clock ends
  the loop.
- In `CommandLine` a killed `capture` leaves an unreadable file (`Written`), and
  `fingerprint --serve` runs in steps beside nothing else: one shell. Every other
  command is one step, since it shares nothing with another process while it runs.
- The number of shuffles a uTLS hello may come in (`Parrots`) is a set of outcomes;
  `lab permute` chooses one per sample.
- In `HelloCapture` a short header is dropped and a short fragment is padded with
  zeros to its full length, because `frag` has that length whatever was read.
  The comment on `HelloCaptureConn` says "transparently"; `ReplayedStream` has the
  exception as an action of its own, so that it is visible.

## 3. The runs

| Run (cfg) | Question | Bounds |
|---|---|---|
| `ProbeServerFlights` | who keeps which flight, in memory and on disk; the log | 2 connections, 2 `/probe` requests, flights of length 0..2, `maxLogs` 1 |
| `ProbeServerHandlers` | what requests get, and captures whose files fail | 2 connections, 2 requests to `/api/capture` or `/clienthello`, failing writes |
| `ProbeServerLive` | what must happen in the end | 2 connections, 1 request of any kind, no failing writes |
| `HelloCapture` | transparency, and what is stored | records of up to 4 bytes, 8 bytes sent |
| `H2Capture` | what the flight holds | 6 items of the client, 1 of the server, at most 2 unread |
| `QuicCapture` | flights per connection | 2 connections, of 2 and 3 Initials, 1 that does not decrypt |
| `H3Control` | what reaches the files, and who is answered | 1 connection, 2 frames on its control stream in halves, 1 request with the hold set, 1 failing write |
| `CommandLine` | the commands over what earlier ones wrote | 18 shipped profiles, 21 fixtures, 25 sessions, 8 exports, 512 HPACK blocks of 3 representations, 1 file written; under `--serve` 2 visitors and the files of 2 earlier clients |
| `ProbeCert` | which root is served | 2 processes, 2 directories and the durable one, 3 starts, 1 kill, 2 roots |

Why these bounds are enough to be interesting. Two connections from one port are
the least with which an entry can be stale, and two requests the least that can
take the same entry or offer different flights; two lengths tell a longer flight
from a shorter one, and `maxLogs` 1 makes the second observation trim. Six items
let the client send preface, SETTINGS, HEADERS, CONTINUATION and two more frames
of any type, in particular PRIORITY_UPDATE before DATA or a second request. Three
Initials are the least with a first and a last fragment and one missing. Three
starts let a run mint, a second one be killed while mirroring and a third one find
what is left. In `H3Control` two frames are a SETTINGS and the late PRIORITY_UPDATE;
connections do not interact, so that one is enough; the failing write may be one that
a later write makes good or the last (the theorem has any number of them). In
`CommandLine`
one file written is enough for every command to run on a directory it did not
expect (a captured profile before or after the shipped ones, or with a shipped
id; a foreign hello under a family's name); each representation of a block
inserts, evicts, refers to an entry or resizes, so that three reach an insertion
after an eviction. Commands that read neither directory run only before anything
is written, and no command reads both in a changed state (`Fresh`, `Profiles`,
`Corpus`). `MaxFiles`, `MaxFailures`, `MaxStarts`, `MaxKills`, `MaxItems`, `MaxAnswer`, `MaxUnread`,
`MaxRecord`, `MaxSent` and `MaxFlight` are bounds of the models, not of the code;
`maxLogs` is the code's field, 200 there.

Symmetry is used over connections and requests in the safety runs of
`ProbeServer` and over processes, directories and roots in `ProbeCert`; no run
with a liveness property uses it.

Deadlock is checked in the `ProbeServer` runs, whose `Quiescent` step says when
there is nothing left to do, and in `CommandLine`, where a prompt always comes back. The other modules simply stop (a client that says no
more, all starts used up), and their configurations say so.

What they show:

- `NoOlderHello`, `TakenOnce`: although the tables are keyed by an address that is
  used again, although handlers run concurrently and although the fallback takes
  whatever hello came last, no request is answered with a hello from before its
  connection. It follows that `/clienthello` cannot answer 404 to a client that
  reached it over TLS.
- `FlightKept`, `KeptFlightOnDisk`: the choice under the lock is sound and the
  kept flight gets to a file; which of the files is newest is another matter
  (section 4).
- `LogsAreNewest` and `CaptureComplete`: trimming, and the order of files and
  `lastCapture`, hold with interleaved handlers and failing writes.
- `HelloReachesDisk`, `FlightOutlivesClient`, `RequestsFinish`: with clients that
  abort the handshake or leave during a request. A client may also stay and never
  send the body that it announced to `/api/capture`; `RequestsFinish` holds for
  that because of `ReadTimeout` and of nothing else.
- `RefinesReplayedStream`, `NothingLost`, `StoredIsFirstRecord`,
  `HelloReachesTLS`: the connection under the TLS stack is a transparent stream.
- `FlightIsClients`, `FlightIsComplete`, `OneHeaderBlock`, `FlightOnlyGrows`:
  however the frames are cut into reads. The comment "skip PING noise after
  headers" is true of a PING at the end only; one before a later frame stays in
  the flight, which the property states.
- `FlightsAreSound`, `FlightsAreMinimal`, `HelloIsCaptured`: for every order of
  arrival and of goroutines, with repetitions.
- `ControlFileIsWhole`, `LateUpdateIsKept`, `RequestIsAnswered`: the newest file,
  the one `LoadCaptureDir` takes, has all that was read unless the very last write
  failed: then it may be empty or a part, and nothing makes that good. The last write
  after the loop is what makes a failure before it good. A PRIORITY_UPDATE ends the
  reader without that write, so that the first part of the property is all that holds
  then. Retrying after a read deadline keeps the capture open for Firefox's late
  PRIORITY_UPDATE, and a request that its client never ends is answered all the same.
- `NoFalseConflict`, `MixUpIsReported`: `LoadCaptureDir` mixes files of different
  clients and visits freely, and half-written ones are empty. In no such mix is a
  client whose hello and HTTP/2 flight are of one engine accused of a conflict,
  and every mix that changes the verdict to the other engine is reported. The
  first is checked for `fingerprint` over files as well, also after hellos of
  others were ingested; there a wrong hello under a family's name is the exception.
- `CaptureIsCoherent`: the profile captured from any shipped profile's browser
  passes its own scan and that browser's visit without a critical failure;
  Chrome for iOS is the case that makes the preset's special treatment necessary.
- `MutationsAreCaught`: over all shipped profiles and mutations. `Unnoticed` names
  the ones that are not caught (section 4); one of them contradicts a document, and
  that the mutations of the navigator are caught where the profile has no `js_runtime`
  contradicts another (both in section 4).
- `CompareFlagsAreCritical`: what `compare` calls a contradiction within one session
  is a critical failure of a scan against every shipped profile, but for Chrome's
  hello from Firefox (`MissedByScan`). For `webdriver` that needs the rule to look at
  sessions of profiles without `js_runtime` (section 4).
- `TableIsNewestThatFit`: for every block the dynamic table is a prefix of the
  insertions, newest first, within the size last set.
- `SignaturesIgnoreOrder`: JA4 and the set signature of all hellos of one preset
  agree; JA3 differs exactly when the order of extensions does, which the program's
  own report denies (section 4).
- `ServesMatchingPair`, `OneRootWhenCalm`, `OneKillKeepsRoot`: the first with any
  interleaving of two processes, failing writes and a kill; the other two say
  under which circumstances one root lasts.

## 4. Where the code and its comments part

- `NewestFlightIsLongest` (`probe/server.go:269`): "Prefer the longest client
  flight". The file is named and written after the unlock, so that of two
  goroutines the one with the shorter flight may write last; `LoadCaptureDir`
  takes the newest file.
- `MintsOnlyTheFirstRoot` (`probe/cert.go:42-44`, `docs/live-capture.md:9-10`):
  "Switching `--capture-dir` no longer mints a new Root CA". The run finds: a process
  without `--capture-dir` mints a root and serves it; one with directory `d1` loads it
  from the durable directory, mirrors it to `d1`, and is killed when it has truncated
  the durable certificate to write it again; one switched to `d2` finds a pair neither
  there nor in the durable directory, and mints, although `d1` still has the root that
  was served. (Where no capture directory has a copy, as when all runs were without
  `--capture-dir`, the property asks nothing: nothing was switched.)
- `FlightHoldsWholeHello` (`dissect/quic_flight.go:87-88`): "merges CRYPTO frames
  so fragmented ClientHellos (Firefox) reassemble". The parser tolerates a hello that
  is cut and notices the cut only inside an extension. In the instance fragments 1 and
  2 of 3, in order, end with an extension: they parse, and the flight is written
  without fragment 3 and never reopened. Fragments 1 and 3 parse too: fragment 2,
  which is missing, is inside an extension whose type and length fragment 1 has, and
  the zeros in its place are read as the content.

Each of these has a run that must find the violation. In three more places a document,
or what the program prints, says the opposite of what the code does; the modules have
the code's behaviour, and the properties named hold of it, not of the document:

- Rules on the JavaScript runtime. `docs/adapters/js-runtime.md:14`: "Rules **skip** when
  the profile has no `js_runtime` — existing profiles stay Grade A". The code skips
  `js.navigator_webdriver` there only if the session's `webdriver` is false; if it is
  true that is a critical failure (`rules/js.go:65-71`, whose comment wants it so: "No
  profile expectation: real browsers must not leak webdriver=true"), and
  `cross.js_ua_platform` does not ask whether the profile has a `js_runtime`
  (`rules/js.go:107-124`). So an export with `webdriver` true, imported against a profile
  without `js_runtime` (that of Brave, say), gets grade F, and so do the mutations
  `js-webdriver` and `js-wrong-platform`. `MutationsAreCaught` and `CompareFlagsAreCritical`
  state this reading, the one of the comment in the code: with the document's neither
  holds.
- Chrome for iOS. `docs/blog/identity-coherence.md:74-76`: a CriOS User-Agent with a Chrome
  hello "is a **critical coherence failure**"; "if the UA contains `CriOS/`, the TLS
  preset must be iOS/Safari". `crossLayerChromeRule` is content if the *profile's* preset
  or the session's is (`rules/rules.go:453`), and that of the Chrome for iOS profile always
  is: `scan --mutate tls-mismatch`, which gives the session a Firefox preset, has no
  critical failure there and grade A. `Unnoticed` lists it with the mutations that are
  not caught.
- JA3 and the order of extensions. `lab permute` prints "JA3 cannot see permutation" for
  one JA3 and "investigate GREASE stripping in JA3Raw" for several
  (`dissect/entropy.go:132-136`), `docs/labs/04-extension-permutation.md:5-6` and `:21` expect
  one, and `entropy.go:13-15` calls "many distinct orders with a stable non-GREASE
  skeleton" Chrome-like. `JA3Raw` strips GREASE and lists the other extensions in their
  order (`dissect/tls_ja.go:21`): a preset that permutes them has several JA3, nothing is
  wrong with the stripping, and its skeleton is not stable. `docs/labs/06-corpus-diff.md:50`
  says so ("JA3 also moves when order is shuffled"), and `SignaturesIgnoreOrder` states
  it.

Other things that came up while the modules were written from the code; the models
have the behaviour, and no run is spent on them:

- `dissect/qpack_static.go` leaves out `set-cookie`, so that the indices after it are
  one less than RFC 9204's; `qpackStatic` has the code's.
- `cmd/coherencelab/main.go`, `lab ingest-hello`: the record is written over the
  fixture before it is parsed (`IngestClientHello`, `labIngest`).
- `dissect/hpack.go:180`: an integer of more than 63 bits wraps (not modelled).
- `scan --mutate automation-leak` is critical only for the two Windows profiles
  that forbid `x-coherencelab-test`; `wrong-browser` changes nothing that a Firefox
  profile checks, and `tls-mismatch` nothing that a Firefox profile does (for Chrome
  for iOS see above).
- A profile captured from an automated browser expects `webdriver` to be true.
- `normalizeQuotes` has removed the outer quotes of `Sec-CH-UA` before
  `extractBrandCore` looks for the first quoted piece, so that piece is the `;v=`
  between a brand and its version: outside chrome, edge and opera the rule passes
  for any hint that lists a brand.
- `capture.InferFromUA` takes ChromeOS for Windows.
- `adapters.ScanExport` makes playwright's snapshot with the preset of the inferred
  profile even if `--profile` names another.
- The key `chrome-131` of httpcloak's map cannot be looked up: keys are compared
  after hyphens have been removed.
- Without `X-Header-Order` the captured header order is that of a Go map
  (`probe/server.go:455-464`).
- One unreadable YAML file makes every command that reads profiles fail
  (`LoadDir`).
- A required header with an empty value is never sent (`ApplyProfileHeaders`).
- A live scan of a Firefox or Safari profile sends MAX_HEADER_LIST_SIZE always, so
  that `http2.settings` cannot pass there.
- `lab quic --header-only` refuses a file of several Initials.
- `compare` takes a User-Agent or a `Sec-CH-UA` by any browser's word in it, the rules
  of a scan by the profile's: a session with the words of two browsers, or an Opera
  whose hint lists no Chromium, is a contradiction to `compare` that a scan may pass
  (`NamesOneBrowser` excludes them).
- A hello of Chrome without pre_shared_key and 0xca34 has Edge's set of extensions,
  so that the best family of a first visit may be Edge; the engine is right.

## 5. Fairness

`ProbeServer`: every goroutine that can take a step takes one (`WF` of `ConnStep`
and `ReqStep`), which is Go's scheduling together with `ReadTimeout: 15s` for a
handshake that stalls; the same clock for a request body that stalls (`WF` of
`ReadTimeout`): on HTTP/1.1 it is the read deadline of the connection, on HTTP/2
the stream's, which `ServeConn` takes from its `BaseConfig` (both are in the libraries,
and modelled as what they do); and a connection whose client has left stops being served,
because its next read returns an error. Nothing makes a client connect, send or
leave, and nothing makes a connection end while its client stays.

`HelloCapture`: reading goes on while something can be read (`Capture`, `Return`),
and `crypto/tls` keeps reading until it has the first record; it is not assumed to
read on after that, nor is the deadline assumed to pass.

`H3Control`: the reader of the control stream, the goroutine of a request and the
accept loop for requests take the steps they can (`WF` of `ReaderStep`, `RequestStep`
and `AcceptRequest`): reads have deadlines and the rest is local. Neither the
client nor a clock must ever do anything, and a write need not fail.
`CommandLine`: no fairness, no liveness.

`QuicCapture`: a goroutine started by `maybeTee` runs to its end; datagrams need not
arrive. `ProbeCert`, `H2Capture`: no fairness, no liveness.

## 6. What is proved

Every invariant and every action property of the components of the probe, for
all values of the constants, and the refinement; every invariant of the command line,
for data of which the assumptions below say what the theorems need. Each `*Proofs` module extends the
module it is about, where the strengthening stands that makes the properties
inductive. A theorem has the name of its property with `Holds` after it, but for
type correctness. The assumptions are those named in the modules: constants have
their types, sets that must be disjoint are, bounds are natural numbers.

`ProbeServerProofs`, for all sets of connections, requests and addresses, every
assignment of addresses, every `maxLogs` above 0 and every bound on flights:

- `TypeCorrect`: `Spec => []TypeOK`. The type invariant is a conjunction of seven
  named groups so that a step is checked against the groups it touches; besides
  types it says that a started request has a connection and that the log is no
  longer than `maxLogs`.
- `NoOlderHelloHolds`. The property alone is not inductive: one must know that the
  fallback is the newest hello, that a table entry is the newest of its address,
  that a connection has stored its hello before it is served, and that a request
  starts on a connection that is served. `HelloInv` says this, with `helloSeq`
  numbering the hellos as they are stored.
- `FlightKeptHolds`. `FlightInv`: only a goroutine at the lock can hold a flight
  longer than the one kept.
- `KeptFlightOnDiskHolds`, from the same `FlightInv`: whoever replaces the flight
  kept is at `writeFlight` with the flight it brought, and no goroutine there has a
  longer one than the one kept.
- `TakenOnceHolds`. `TakenInv`: what was taken is in no table any more and cannot be
  stored again, because a hello is stored before its connection handshakes and an
  observation when it ends.
- `LogsAreNewestHolds` is inductive with the types. It rests on the lemma
  `TrimAppend`: trimming after each append keeps what trimming the whole would.
- `CaptureCompleteHolds`. `CaptureInv`: a handler that is about to become
  `LastCapture` has written its files, and afterwards it writes nothing.

`HelloCaptureProofs`, for every length of record and stream and every content:

- `HelloTypeCorrect`, `NothingLostHolds` and `StoredIsFirstRecordHolds`, all from
  `StreamInv`: what the client sent is what was delivered, what is held in one buffer
  or the other, and what is on the wire, in this order (`NothingLost` itself); while
  the record is read nothing has been delivered (`ReadingInv`); what is stored is the
  beginning of what was sent (`StoredInv`); after a failure nothing can be read any
  more (`FailedInv`), which is why the zeros of a broken record do no harm to a
  stream that goes on.
- `RefinementHolds`: `Spec => RefinesReplayedStream`. Initial states map to initial
  states; a send, an end and a return map to the steps of `ReplayedStream`; all
  reading below and all buffering map to stuttering.

`H2CaptureProofs`, for streams of any length in either direction:

- `H2TypeCorrect`, `FlightIsClientsHolds`, `FlightIsCompleteHolds`,
  `OneHeaderBlockHolds`, and the action property `FlightOnlyGrowsHolds`, from
  `CaptureInv`: the streams are framed as HTTP/2 frames them, the observation is the
  first SETTINGS received, and the flight is what the code's loop keeps of all that
  was received, since it is cut again from the beginning at every read.
- That reduces them to facts about the loop of `truncateThroughControlFlight`, which
  are facts by induction over the frames. The library's induction theorems cannot be
  used (no prover here instantiates an operator), so the induction is done with sets:
  a set of naturals has a least element (`LeastNat`, from the well-foundedness of
  `<`), and the least item at which something fails follows one at which it does not.
  In this way `ScanExists` shows that the recursive function `Scans` exists and
  obeys its equation, `ScanAll` what the loop knows after each item (`ScanInv`), and
  `KeptItems` says without the loop what is kept: up to the last item where a cut is
  allowed (`Cut`), nothing from where the flight is over (`Ends`). `KeptHoldsAll`,
  `KeptGrows` and `SettingsKeep` are what the theorems need of it. The last one shows
  that the code's answer for a flight with nothing to keep is never used.

`QuicCaptureProofs`, for any datagrams, DCIDs and contents, whatever parses:

- `QuicTypeCorrect`, `FlightsAreSoundHolds` and `FlightsAreMinimalHolds`.
  `HandedOnce`: what is in a flight is in it once, because `seen` lets one goroutine
  have the datagram and it adds it as it returns. `Written`: a connection is done
  exactly if its flight parses, and what is on disk is the flight of a connection
  that is done. Nothing is used of how data parses, but that no data does not.

`H3ControlProofs`, for all sets of connections, whatever frames their control streams
and requests carry, with the hold or without, and for every number of failing writes:

- `H3TypeCorrect`, in four named groups. `UnitTypes` is more than types: the reader
  is never ahead of what has arrived, nor any of its files ahead of it.
- `ControlFileIsWholeHolds`. `FileInv` is the strengthening, per connection (`FileOf`):
  a reader is at its last write only while it creates or fills a file; between two
  writes the newest file is all that was read or the last write failed; and while no
  write has failed, only a reader that is about to write has more than the files, and
  then it is not its last write. So the last write, the only one with no other after
  it, starts from a whole file, and a failure there leaves that one whole although it
  is not the newest any more. The assumption is that a control stream has a length,
  which `ControlFramesType` says; what its frames are does not matter, only that what a
  reader sees in them depends on what it has read.

`ProbeCertProofs`, for all sets of processes and directories, and every number of
starts and kills:

- `CertTypeCorrect` and `ServesMatchingPairHolds`, with processes that overlap, writes
  that fail and kills at any step. `RunInv`: what a run has still to read or to write
  is the end of its list of directories, and past loading it holds one root twice. The
  files are not in it: they may be anything, since a pair that does not match is
  never taken from them.
- `OneKillKeepsRootHolds`. `QuietInv`, for runs that follow one another and of which
  one may be killed: a run that has yet to serve has its pair in the directories it
  is done with, one that has served has it in the durable directory unless it is
  writing there again; with no run about, one directory has both files of the root
  served last. A run that is killed has two directories (the property excludes the
  others) and writes to one at a time, so that the other has that root.
- `OneRootWhenCalmHolds`. `CalmInv`, when none is killed: there is but one root, any
  directory has it, or nothing, or is halfway through being given it. So what the
  next run finds is that root.

`LabProofs`, for blocks of any length, and for any profile and snapshot:

- `DecodedTableIsNewest`: when a block decodes, its dynamic table is the newest of
  its insertions, and they fit in the size set last. By induction over the
  representations, with the least counterexample as in `H2CaptureProofs`
  (`LeastNumber`, `LoopsExist`). Before each representation the table is `Newest`: a prefix
  of the insertions so far (`Holds`), which adding at the front, evicting at the end
  and resizing keep; that what `evict` keeps does fit rests on an empty table having
  size 0.
- Lemmas on the rules: which findings can be critical (`CriticalsOf`), what each of
  their rules asks of a snapshot, and that a scan has no critical failure exactly if
  all of it holds (`CoherentMeans`, with `Coherent` a conjunction with one conjunct per
  rule); the count in the report is of a finite set, `EvaluateIsFinite`. And lemmas on
  what is first said in a User-Agent (`FirstIsSaid`), which the inference of browsers
  goes by.
- Lemmas on lists of any length, by induction over how much has been read, each
  with the least counterexample: what filtering keeps (`Only`) has the members that
  it should, each where it stood in the order and none twice if none was twice before;
  two lists of the same members sort to the same list, for the n-th in order depends on
  the members and their number only.
- Lemmas on `FingerprintCapture`: the ranking is a permutation of the families by
  score, and what `BestBy` and `Certain` take from it.

`CommandLineProofs`, for any profiles, corpus, clients, sessions, parrots and blocks that
the assumptions below allow:

- `TableIsNewestThatFitHolds`: only `lab headers` prints a table (`StepKinds`), and it
  prints that of its block (`HeadersPrint`).
- `CompareFlagsAreCriticalHolds`, from `ContradictionFails`: each of the five things that
  `crossLayerNote` calls a contradiction breaks a rule of every profile that is of one
  browser, by cases on the browser of the profile.
- `MutationsAreCaughtHolds`. `MutatedSignals` says what a mutation changes and what it
  leaves, `MutationFails` which rule that breaks; the profile found by `FindByID` is the
  shipped one because ids differ.
- `CaptureIsCoherentHolds`. `CapturedFields`: those of the profile that `ToProfile` makes of a visit
  (the browser, platform and pattern it infers, its preset, its navigator) are those of
  the shipped profile the visit is of, for each browser, so that the profile is again
  of one browser; then its own scan and the visit keep every critical rule.
- `NoFalseConflictHolds` and `MixUpIsReportedHolds`, from `JudgeInv`: a whole file of the
  directory, and what was read of one, has the content of a file of its owner
  (`FilesInv`); what `fingerprint` last said of files accuses only those of two engines
  (`FilesVerdict`); and what was ingested is a hello under the name of a hello
  (`IngestedOK`). The rest is about one verdict, which depends on the engines of the hello's
  and of the flight's owner. If they are one (`NoConflictOfOneEngine`), the family whose
  hello fits best is of that engine, and so is any whose flight fits in full: no conflict. If
  the best family is not of the hello's engine (`ConflictOfTwoEngines`), the flight did it:
  the hello weighs 50 and is more than half apart, which the 30 of HTTP/3 and QUIC, at most
  three quarters apart, cannot make up for without the 25 of HTTP/2. So the flight fits the
  other engine better, hence in full, and that is the conflict reported.
- `SignaturesIgnoreOrderHolds`, from `PermuteSays`, for hellos of any length and as many
  samples as are asked for. JA4 has the ciphers and the extensions that are not GREASE
  sorted, and the signature algorithms, which are the content of one extension; the set
  signature is their set. JA3 lists the extensions as they come, and two hellos that differ
  in order only have one JA3 exactly if they have one order.
- `CommandLineTypeCorrect`, which says that no capture leaves a profile that does not
  validate unless it is killed (`DirsOK`), and from `CaptureSession`'s `SessionInv`
  that a writer is never past its last file: what has been created is one of the
  visitor's files, and the visitor stays the same.

Their assumptions: a block is a sequence of the four representations and sets sizes
that are naturals (`IsBlock`), and what a writer of the server writes is a sequence of
files of its kinds (`TrafficAssumption`). Three assumptions are about data, and TLC evaluates
them on the repository's. `ProfilesAssumption`, on all profiles under `src/profiles`, is what
the theorems on comparison, mutations and captures need: that each
profile is of one browser on one platform (`OneBrowser`: which products and platforms its
User-Agent names, that its hints and preset are of that browser, that it requires no
automation header), that ids are unique, that a genuine session is what the probe sees
of a profile's browser (`IsVisitOf`), and that an export names one browser
(`NamesOneBrowser`). It speaks of one profile or session at a time and of no rule, no
score and no comparison: these are what the theorems are about.
`CorpusAssumption`, on the captures under `dissect/testdata`, is what the two theorems on
verdicts need of one layer at a time (`FitsItsEngine`): a hello agrees with its own family by
more than half beyond any family of another engine; the other layers agree alike with all
families of one engine; a flight agrees in full with no engine but its own, and with its
own in full or as with any other; and HTTP/3 and QUIC layers agree with no family more than
three quarters beyond another. It speaks of the scores of single layers, because which
captures are alike is a fact about the corpus, but of no mean, no ranking, no verdict and no
mix of files. A capture added to the corpus that breaks it would show there first.
`ParrotsAssumption`, on the uTLS hellos: those of one preset are one
but for the order of their extensions and for GREASE (`SameButOrder`), have no extension
twice, and each shipped profile names a preset.

Only model-checked is liveness, which is beyond the prover (it cannot reason about
`ENABLED`): `HelloReachesDisk`, `RequestsFinish`, `FlightOutlivesClient`, `HelloReachesTLS`,
`HelloIsCaptured`, `LateUpdateIsKept`, `RequestIsAnswered`. And the assumptions on data are
checked, not proved: that the profiles, the captures and the parrots of the repository satisfy
them is evaluated by TLC.

## 7. Plan

Order of work: what runs concurrently and touches shared state came first, because
tests reach it least; then the HTTP/3 side, and the algorithms together with the
commands that use them. What is left:

1. The codings below the wire records: HPACK integers with their width, QUIC
   varints at their limits, encode against decode.
2. `H2Capture` with `ClientDir = "write"`.

## 8. Not modelled, and why

- `Server.Stop`, the page and the read-only handlers: they change no state that the
  properties speak of (`Stop` ends what the process end would end).
- Cryptography (TLS, AEAD, key generation, hashes): libraries; a decryption is a
  datagram that decrypts or one that does not.
- Text and JSON output but for the closing line and the exit code, the web page,
  the version command and the corpus generator: conversions without state.
- The coding of HPACK and QUIC integers, Huffman strings, YAML and JSON: the models
  take what they decode to, or that they do not decode.
- Findings that only explain (annotations of frames and extensions): nothing
  depends on them. Findings a report is about are sets of names.
- The adapters' own `ScanExport` functions, `hello_write.go`, `quic_craft.go` and
  `cert_synth.go`: unused by the commands, or makers of test inputs.
- The memory growth of `seen` and `quicFlights`: the code has no bound to state.

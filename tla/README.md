# A TLA+ model of DEEP

DEEP is a small protocol for named resources over TLS 1.3, implemented in Go: a
server that admits connections and serves files or a local application, a client
library whose sessions several goroutines may share, adapters that turn a DEEP
address into an endpoint, and the command `deep`. This directory models the parts
in which several actors meet (goroutines, contexts and their callbacks, two ends
of a connection, processes on one file), checks them with TLC on small instances,
and proves all the safety properties the passing runs check for all parameters with TLAPS.

    tlc -workers 2 -config MCAdmission.cfg MCAdmission     # a run
    tlapm AdmissionProofs.tla                              # the proofs of a module

`PROJECT.json` lists components, runs, hazards, theorems and, under `map`, the
source lines each definition stands for.

## 1. The system

| Part | State it keeps | Operations | What is hard |
|---|---|---|---|
| Admission: `limits.go`, `Serve` of `server.go` | a table of per-peer budgets (active connections, one-minute window, counters), the `capacity` channel, the wait group | accept, `acquire`, start a worker or give up, `allowRequest`, `release`, shutdown | an accept goroutine and all workers share the table; the time is read before the mutex is taken; the table is bounded and pruned |
| Limits of the server: `cmd/deep/config.go`, `limits.go` | the nine limits | `loadServerConfig`, then `configured` | two layers with different bounds and defaults; defaults that depend on each other |
| Session: `client.go`, `serveConnection`/`transfer` of `server.go` | client: mutex, `closed`, `nextID`, the connection; server: last ID, request count, current request | `Dial`, `Fetch`, `Close`; handshake, request, transfer, errors | `TryLock`, `Close` during `Fetch`, `context.AfterFunc` callbacks that close the connection, IDs that wrap, broken connections |
| Application profile: `application.go`, `cmd/deep/request.go` | the phase of the exchange on each side | `Exchange`, `exchange`, `sendBody`, `receiveBody`, fallback to FETCH | lost answers after the handler ran, truncated uploads, a second request after an error |
| Local application: `http_upstream.go` | the `slots` channel, a `heldBody` with a `sync.Once` per answer | `Exchange`, `Open`, `Close` | two goroutines close one body, late and in either order, while the slot moves on |
| Resolution: `adapters.go`, `proxy.go`, first half of `Dial` | the registry (networks, proxy), per dial two connections with timers, or the process of an exec adapter | `Register`, `SetProxy`, `Resolve`, `DialProxy`, `proxyHandshake`, `ExecAdapter.Resolve` | the registry changes under a dial; timers race with success; an external proxy or command that answers anything or nothing |
| Nodes: `cmd/deep/identity.go`, `cmd/deep/config.go`, `LoadClientConfig` of `adapters.go` | a directory of keys, certificates, configurations and content | `init`, `client-init`; `serve` up to its open port; loading a client | two runs on one directory, kills and failures between and within files, a load during a creation |
| `deep proxy`: `cmd/deep/proxy_settings.go` | the configuration file, a temporary file, a backup | `set`, `unset`, `status` | other editors, other programs, kills between any two file operations |
| Files: `resources.go`, `resource_open_unix.go` | the open root | `FileHandler.Open` | the tree changes between check and open; escapes are decoded after they were checked; a directory has two index files |
| URI syntax: `uri.go` | none (pure) | `ParseURI`, `ValidateAuthority`, `ValidateResource` | escapes at the end of a text, separators, lengths; client and server check apart |
| `deep fetch --output`: `cmd/deep/main.go` | a temporary file, the output | `fetchFile` | kills, power failures, two downloads of one name |
| Viewer settings: `cmd/deep/viewer_settings.go` | `viewer.json`, a temporary file | `enable`, `disable`, `status`, the check of `browse` | interrupted and overlapping toggles, readers between them |
| TLS profile, certificates: `security.go` | the pins of a server's clients | generate, validate, verify | each side verifies the other at its own time; cryptography |
| Frame codec: `protocol.go` | none (pure) | frame and metadata checks | boundaries |
| Viewer, demo, preview, interoperability probe, release script | UI, scripts | | no part of the protocol |

How they interact. `Serve` accepts a connection, asks the limiter, takes a slot and
starts a worker; the worker runs the server's half of Session and asks the limiter
again for each request. A request is answered by `transfer` (FETCH) or `exchange`
(EXCHANGE), either of which may read from `HTTPHandler`, whose slot lives until
they close its body. On the other side `Client.Dial` resolves the authority through
the Registry, perhaps over a proxy, checks the server's key against the resolved
pin and then holds the client's half of Session. `deep request` calls
`Session.Exchange` and, for one error, falls back to `Session.Fetch`. `deep init`
creates the directory that `deep serve` and the clients load, and `deep proxy` edits
the file the Registry is loaded from. The URI that the client parsed becomes the path
that the server checks again and hands to `FileHandler.Open`.

What makes each part correct:

- admission: counters equal the goroutines they count, limits hold of the
  goroutines themselves, the rate limits survive eviction and stale times, nobody
  is refused without a reason, shutdown drains and terminates;
- session: a successful Fetch delivered exactly its own resource; nothing is left
  on a connection that will be used again; calls return;
- exchange: a write is executed at most once, on a complete upload; success is only
  reported for what was served;
- local application: slots are exact, so load is bounded and nothing is stranded;
- resolution: no fallback past the chosen proxy, one server per dial, no stream that
  is closed behind its owner's back, no leaked connection;
- configuration: never torn, nothing lost without a backup;
- nodes: the files of two runs are never mixed, a created node stays whole, and what
  is loaded belongs together;
- files: what is served is a regular file that the path led to, whatever is swapped in;
  a URI means the same on both sides;
- published files: whole and on disk under their names, never overwritten, and
  reported truthfully;
- limits: what `server.json` settles is what the server runs with.

## 2. The modules

Each module's header says what it abstracts. Common conventions: a `pc` variable
holds where a goroutine is; one step is what runs between two points at which
another actor can interfere (a mutex section, one read or write of the connection,
one access to a file); variables commented "history" are read by properties only.
Definitions commented as "As X, but ..." or "Faulty variant" are plausible bugs, kept beside
the definition they change; no specification uses them, `PROJECT.json` names the
property each one breaks.

**Admission** (`limits.go`, accept loop and workers of `server.go`).
`pc[c]` follows a connection from the accept loop (`accepted`, `admitted`) into its
worker (between requests, about to call `allowRequest`, transferring) and through
the deferred slot release and `peers.release`. `tracked` and `budget` are
`peerLimiter.peers`, `capacity` the channel's length. Reading the clock (`at`) is a
step of its own, because `Serve` and `serveConnection` call `time.Now()` before the
limiter's mutex is taken. `AcquireGrant`/`AcquireRefuse` are the whole of `acquire`
with pruning and reset; `AllowRequest`/`RateLimited` the whole of `allowRequest`.
The history variable `ledger` counts, for each peer, what was granted in a minute
separated independently of `budget`, and so survives eviction. Shutdown is
`Cancel`, `CloseListener`, `AcceptFails`, `ServeReturns`.

**ConnectionPolicy** is the abstract promise: a set of live connections, a subset
that is served, both within the limits; a connection is admitted, served, dropped;
the policy ends when nothing is live. Admission implements it under
`live <- Live, served <- InSlots, open <- serve # "returned"`.

**ServerLimits**: `loadServerConfig` and `configured`, one step each, from what was
given to a verdict; a Server of the library takes only the second.

**NodeFiles**: `init`, `client-init`, `serve` and `LoadClientConfig`, one file operation
at a time. A file is known by the run that wrote it and by whether it is whole; a
write of a file is two steps, so that loads and kills can come between. `Plan` is the
order in which the files are written. If the directory cannot be protected it is
removed, which may fail as well and leave it behind.

**Session**: the callers' `Fetch` and `Close`, `Dial`, and one server session, joined
by two FIFO queues. A context has a `done` flag; its `AfterFunc` is a `hook`, and
once it runs and has not yet closed the connection it is a `straggler`, which may
outlive the call. Content is abstract: unit k of the answer to request id is
`<<id, k>>`, so mixing or truncation is visible, and a digest is the content. IDs
wrap modulo `IdSpace` (2^32 in the code). The server's limit of requests is chosen
in `Init` from `SessionLimits`.

**Exchange**: `deep request` from its call to its end, against an application, a
file server or a server without app/1. Headers are left out; the 405 answer with its
notice body is kept because it is an answer no handler gave. The limit of a call is a
chain of steps, as in the code: the context ends (`CallExpires`), its `AfterFunc` closes
the connection (`CallbackCloses`), and the read or write the call is in fails
(`ClientFails`). A context that has ended also fails the call where the code asks it.
The fallback is a call on a new connection with a limit and a callback of its own.

**UpstreamSlots**: `HTTPHandler.Exchange` and `Open`, the `heldBody` and its two
closers, the deferred `Close` and the `AfterFunc` of `exchange`/`transfer`.

**ProxyDial**: `Resolve`, both `proxyHandshake`s with their connections and timers;
for an exec adapter, its process and `command.Run`. A static or exec adapter may name a
direct endpoint or a proxy of its own (`Named`). Proxies and commands are external and
answer anything or nothing. The pin is the one of the resolution; the answer to
`connect` has to repeat it, and is then discarded, as `DialProxy` does. The process of
an exec adapter may exit, run over its time and be killed, and a process it started may
keep the pipes open (`held`) until `WaitDelay` closes them. Then TLS: the client presents
the identity that was assigned to it, after checking it itself, or none; the stream ends
at one of `Servers`, right or wrong in key, role, name or validity, public or private.
`Authentic` is the client's `VerifyConnection`, `Admits` the server's, which asks for
role and validity of the client's certificate as well as its pin. With TLS 1.3 the
client is through with its handshake first (`HandshakeTLS`); what the server decided
shows in its answer to HELLO (`Welcome`).

**ConfigEdit**: `configureProxy` one file operation at a time. A file has an identity
(for `os.SameFile`) and content; `wish` is the proxy to set.

**UriSyntax**: `uri.go` as operators on sequences of symbols, one symbol for each class
of characters that the code tells apart; the digits of an escape come in both cases, and
the scheme is one symbol, which stands for `deep://` at the start of a text only (inside
a path the same characters are letters and separators). `ParseURI` and its helpers
follow the code;
`Component`, `Label`, `IsSplitAt` and `Meaning` define the URIs and their parts without
a parser, and `ParsesExactly` compares the two. `Fits` is the size of the request after
`json.Marshal`.

**FileHandler**: `FileHandler.Open`, one `Lstat`, open or check at a time, on a tree of
inodes that the operator changes. `os.Root` and `url.PathUnescape` are external:
`Lookup` follows links inside the root, `Decoded` decodes escapes. The inner calls of
`Open` for `index.html` and `index.txt` are the same steps with another `attempt`. The
histories `bound` and `plain` hold what the path led to during the call, with and
without following links. `Lstat`, open and `Stat` may fail at any time for a reason of
the operating system, a lack of rights or of descriptors (`SystemError`); the code takes
each for NOT_FOUND, and the history `faults` remembers in which attempt it happened. The
path comes from `ParseURI`, as in `Session.Fetch`, or is
any path, as `Open` is exported.

**PublishedFiles**: `fetchFile`, `writeViewerPreferences`, `readViewerPreferences`, one
file operation at a time, by processes that are killed, with power failures. A file is
named after the process that made it and holds part of its data, all of it, or all of
it on disk. A removal may fail unnoticed, and `--info` may fail to print after the
download is published (`unprinted`). A power failure loses data that was not synced, never names: directories
are assumed to be kept in order by the file system, as neither command syncs them.

**\*Proofs** modules hold the theorems (section 4), each about the module it is named
after, and three about two modules: AppProofs about Exchange and UpstreamSlots,
NodeProofs about NodeFiles and ServerLimits, FileHandlerProofs about FileHandler and
UriSyntax.

**MC\*** modules hold only the values of constants and the symmetry sets.

## 3. The runs

| Run | States | Shows |
|---|---|---|
| `admission` | 462 k | budgets are exact, rates and table are kept, refusals have reasons; Admission implements ConnectionPolicy; `Serve` returns after a cancel |
| `session` | 498 k | delivery, order, rest, for two goroutines on one session; calls return; the server follows |
| `session_reuse` | violation | finding 1 |
| `exchange` | 11 k | one request of every kind, and its end |
| `upstream` | 190 k | slots are sound, and all are free in the end |
| `server_limits` | 8.1 k | pairs of limits at their boundaries, in the file and in the library |
| `proxy` | 1.1 M | two dialers, two proxies, exec adapters and what they leave running, right and wrong servers and clients, a changing registry; a dial ends |
| `node_files` | 3.9 M | two creators, a server and a client on one directory |
| `config_edit` | 2.9 M | two editors, two outside writes, kills |
| `config_backup` | violation | finding 2 |
| `published_files` | 4.8 M | three processes on one output and one settings file, kills, power failures |
| `file_handler` | 223 k | every short URI and path; six paths on every tree, and on a tree that changes three times; errors of the system anywhere |

A property of a run is worth a mutant; the types, the connection limits of the
goroutines (`ConnectionLimits`) and `ReturnedMeansDrained` follow from others or hold of
the goroutines what `ImplementsPolicy` says of the policy: they are proved for Admission
(section 4) and not run again. `SlotsSound` and `ConfiguredWell` are conjunctions of
named parts, each proved by itself. `TypeOK` of Exchange and Session is proved and not
run.

**Bounds and why they are enough.** Admission: two
connections of one peer and one each of two others compete for a table of two entries
and a server with one slot; a peer may have one connection, and one connection and
request per minute. So a full table, eviction and re-entry of a peer, the full server
and each limit are reached, in every state of the shutdown. A minute is one tick and the
clock reaches one: a window is reset with a fresh time and then meets one that was read
before. Times within a minute, longer histories and larger limits are left to the
theorems. A closed connection is dialled again, so the number of connections over time
is unbounded. Session: two callers, three
calls, a limit of one or two requests, three IDs (0 is invalid, so the wrap-around happens after two requests),
resources that are empty, one and two chunks, shrunk, grown, and above either side's
limit; a third caller adds nothing, as a caller that does not hold the mutex only
fails. Exchange: GET, HEAD and one write, uploads of zero to two chunks and the same
kinds of answers. UpstreamSlots: four requests for two slots, so that a late close
can meet a slot owned by another request while a third waits; the theorems lift it.
ProxyDial: two dialers, two proxies, two keys and two changes of the registry, more
than a dial has steps that read it; the servers are right, or wrong in each respect; the
clients' identities are two that are valid, one expired and none. ConfigEdit: two editors that run once each and two
outside writes; a window needs one of either. NodeFiles: two creators, of a private node
with files, a public one with an application or a client, and one server and one
client; mixing needs two writers, and loaders do not affect each other. The operator
may remove the directory, but only while nothing is at work on it.
PublishedFiles: three processes, one to write, one to interfere and one to read, each
running any command; other programs act any number of times. FileHandler: every text of
up to four symbols after the root of a path, the scheme, or a good authority, which is
enough for an escape in every position including the cut ones, and for each separator
before and after each other; every combination of what may be at the four places of the
tree; three changes, one more than the steps between the first look at a name and the
check of the descriptor. `MaxLabel` is small so that the short texts exceed it. For
`MaxURILength` there are longer texts after a good authority, whose lengths go up to the
limit, to it and beyond; and `MaxMetadataSize` has the room that 8192 bytes leave.
`CHECK_DEADLOCK FALSE` is given where the system stops: a verdict on limits, and
editors, creators and dialers that run once.

**Fairness.** `admission`: each goroutine that can run does; a cancelled context
closes listener and connections (`AfterFunc`), so accept fails and sessions end;
nothing is assumed of clients or of new connections. `session`: the client's
goroutines run and contexts expire (`Fetch` and `Dial` bound theirs with a timeout);
neither server nor network need do anything. Only `ServerFollows` has a premise about
the server, `WF(ServerProceeds)`: its goroutine takes the next step of the code, so
`Handler.Open` returns (`docs/DEEP-V2.md` demands that it respects its context), and a
read of a connection that the client has closed ends once what was sent is read
(`ServerReadsEnd`, a step of the states that read). Its timeouts and the failures of its
writes are not assumed: what is checked is that the steps lead a server that opens or
transfers back to its read. `exchange`: the context ends, a callback that is due runs,
and a read or write on a connection that was closed fails. Of the server, the network
and the client's other steps nothing is assumed, so a call may be blocked in any of its
reads and writes and ends only by this chain. `upstream`:
goroutines run, and a call to the local application returns or fails, which its
context's timeout ensures. `proxy`: goroutines and timers run, and a read from a
connection that was closed fails; the time of an exec adapter passes, its process is then
killed (`exec.CommandContext`), and pipes that are still held are closed after
`WaitDelay`; neither the proxy nor the command of an exec adapter need answer or end, nor
what it started. `file_handler`: the steps of
`Open` run, as calls on local files that wait for nobody; the open of a FIFO is such a
call only because it is non-blocking, and `OpenEnds` fails without.

## 4. What is proved

`AdmissionProofs`, for every finite set of connections and peers and all positive
limits (assumptions of module Admission):
`TypeCorrect`, `BudgetExact`, `LimitsRespected`, `PruningSafe`, `RatesRespected`,
`DrainedOnReturn` (invariants), `WindowsOnlyAdvance`, `RefusalsAreJustified` (action
properties) and `AdmissionImplementsPolicy` (refinement). All rest on
`InductiveInvariant`. None of the invariants is inductive alone; the twelve parts of
`IndInv` and why they are there:

- `TypeOK`, `BudgetMatchesConnections`, `TableSound` (includes `LivePeersTracked`):
  a release finds an entry with a positive count only because the entry of a live
  peer is never evicted and counts its connections;
- `OneAccepting`: at most one connection is in the accept loop, so a slot tested
  free is still free for it;
- `ServeStages`: what has stopped by the time `Serve` waits and returns;
- `SlotsCounted`, `SessionCounts`, `CountersBounded`: channel and counters equal, or
  stay within, what they stand for; a limit on a counter becomes one on goroutines;
- `ClockOrder`, `PastTimes`: a time that was read is not in the future, nor is a
  window; hence a stale time never looks a minute later than a newer window;
- `LedgerAgrees`: while a peer's entry is tracked within the ledger's minute its
  counters dominate the ledger's; otherwise the ledger's minute is over for every
  time still in use. This carries `RateLimitsHold` across eviction.

The refinement theorem takes one step of Admission at a time (`SimulationStep`): only
`AcquireGrant`, `StartWorker`, `NoCapacity`, `FreeCapacity`, `Release` and
`ServeReturns` are steps of the policy, the rest stutter.

`SessionProofs`, for any number of goroutines and calls, any `IdSpace` above 1, any
resources, chunk size and limits: `FetchDeliversExactly`, `ClientKeepsProtocol`,
`OneRequestAtATime`, `SessionRestsBetweenCalls` and `TypeCorrect`. The four safety
properties need each other, and what the two ends know of one another, so the invariant
follows the conversation:

- `LockInv`: the mutex is held between TryLock and Unlock, and one goroutine only gets
  past the Swap of `closed`; so the other parts may speak of the one active call;
- `DialInv`: before `Dial` returns there is no call, and HELLO and WELCOME are all that
  is exchanged;
- `RequestInv`: at most one frame of the client is unread, one the server waits for, and
  the ID of a REQUEST is above `lastID` and below `nextID`. `nextID # 0` guards each of
  these, as the wrap-around to 0 ends the use of the session;
- `ServingInv`, `EndInv`: what is sent comes from the body opened for `lastID`; END is
  the last frame of an answer and the server is between requests until it is read;
- `RestInv`: nothing is on its way before a REQUEST, after END, and between calls. A
  failed call does not keep this, it closes the connection, and a late callback of a
  context too: both make the premise `cOpen` false;
- `DeliveredInv`: what was verified belongs to an ID at or below `lastID` that is not
  about to be opened, so that no later request changes what it is compared with.

`AppProofs`. Of Exchange, for any methods, sizes of uploads and answers, and limit of the client:
`WritesNeverRepeated`, `UploadReachesHandlerWhole`, `SuccessIsServed` and `TypeCorrect`.
The invariant says that END ends an upload and an answer and carries the digest of all of
it (`UploadInv`, `EndInv`), that the server finds nothing unread once it has called the
handler (`ServerInv`: a second call would need a second request on the connection), and
that only a GET is at FETCH (`ClientInv`). Of UpstreamSlots, for every finite set of
requests and every positive number of slots: `SlotsExact`, `LoadBounded`,
`ReleaseImmediate`, together `SlotsAreSound`, from an invariant of `SlotsTypeOK`,
`SlotsMatchOwners` and `HooksOrdered` (a callback exists only for a request that has a
body, so a late `Close` finds `closed` set).

`ProxyDialProofs`, for any dialers, proxies, keys and servers and any number of changes
of the registry: `NeverFallsBack`, `StreamHandedOverOpen`, `DialLeaksNothing`,
`SessionMutuallyTrusted`. The invariant: `RouteInv` binds a dialer to the endpoint of its
resolution, which is the proxy if one was set at the lookup; `HandshakeInv` relates
the stage of a dialer to the connection and the timer of both handshakes (while one
waits, its connection is open exactly as long as its timer is pending, which is what
makes stopping the timer in time the same as having the stream); `TrustInv` says what
TLS and WELCOME have established.

`ConfigEditProofs`, for any number of editors and of writes by others, and any addresses
and configurations: `FileNeverTorn` and `LossNeedsTheWindow`. Beside the two properties
the invariant has `TempInv` (the temporary file is complete before it is compared and
published), `WindowInv` (an editor past its comparison that nobody raced is about to
replace what it read, with a backup) and `LostInv` (who replaced something is done).

`PublishedFilesProofs`, for any set of processes, with kills and power failures:
`FilesPublishedWhole`, `CommandsReportTrue` (invariants) and `OutputNeverReplaced`
(action property). The invariant: who is about to publish has synced (`Stages`); the
downloads that were ever the output are those that report success (`LinkedInv`); a file
that is or was `viewer.json` is on disk and its writer has moved on (`RenamedInv`); what
a command has seen includes the settings in force now (`SeenInv`).

`NodeProofs`. Of NodeFiles, for any number of runs of `init` and `client-init`, of
servers and of clients, any kinds of nodes, with kills, failures and removals:
`NodeNeverMixed`, `CreatedNodeKept`, `OneIdentityLoaded` and `ReadableIsLoadable`. The
invariant:

- `OwnerWorks`, `FilesOwned`: `os.Mkdir` lets in one run, which works only while the
  directory is its own, and every file is from it;
- `MakerInv`: the files of a run that has not failed are those of `Plan` up to its
  count, whole, and the one it is filling. This rests on `PlanIsSound`: no name comes
  twice in a plan, and a configuration comes after every file that its reader loads;
- `LoaderInv`: whoever has read a configuration deals with the run that wrote it, which
  had come as far as that configuration, unless the run fails and leaves the directory
  to another.

Of ServerLimits, for all integers as limits: `RunningServerSound`, `DefaultsAreSafe`,
together `ConfiguredIsWell`, and `FileIsFinal`, from an invariant that says of each
verdict what led to it: `limits` is the completion of `given`, and what comes from a file
was already in the file's bounds and complete, so that completing it again changes nothing.

`FileHandlerProofs`. Of UriSyntax, for texts of any length over the characters of
`Symbols` and any limits: `ParserExact`, that `ParseURI` returns the one reading a text
has as a URI, and refuses a text that has none. Of FileHandler, for any tree, any request,
any changes of the tree and any errors of the system: `OnlyNamedFilesServed`, `ExactAtRest` and `ParsingExact`.

What the loops of the code compute is proved by induction. The library's induction
theorems are out of reach, because they take an operator as a parameter; but that a set
of numbers has a least one can be cited (`LeastNumber`), and the least number that fails
a claim is what an induction step excludes (`Upwards`, `Downwards`). A recursive
function is the CHOOSE of a function that satisfies its equation, so for each one there
is a lemma that such a function exists (`WayExists`, `ScanExists`, `DecodingExists`).
On this stand: `ScannerExact` (`validateComponent` accepts exactly the components, escapes
at the end included), `DecodedPath` (what a path decodes to), the lemmas on `Lookup`
(with and without following links), `AuthorityExact`, `ParseIs` (`ParseURI` cuts at the
separators), `SplitGivesCuts` (a URI can be cut nowhere else), and the lengths of parts.

The invariant of FileHandler, next to types and `QuietExact` itself:

- `PartsInv`: while `Open` walks, its names are those of a well-formed path to a file;
- `HistoryInv`, `SeenInv`: the histories hold where the names lead now; the file that
  Lstat saw, and the one that was opened and is the same, are among them;
- `IndexInv`: in an inner call the path is the directory's with the name of the index file;
- `FaultsInv`: an attempt during which the system failed is over;
- `QuietInv`: on a tree at rest all that was passed is directories, so that no link was
  followed, and `index.txt` is tried only when `index.html` names no regular file or the
  system failed to read it.

The assumptions are the named ones of the modules, and no theorem adds another. Each
inductive invariant was checked with TLC on the instance of its run before it was proved.

**Model-checked only.** Everything temporal under fairness (`CancelReturns`,
`CallsReturn`, `ServerFollows`, `CommandEnds`, `AllServed`, `DialEnds`, `OpenEnds`):
liveness is beyond the prover. Every invariant and every action property of the
passing runs is proved.

## 5. Findings

1. `session_reuse`. `Fetch` checks its context, and only later does the deferred
   `stop()` disarm the callback, whose result is ignored. If the context ends in
   between, `Fetch` returns success, the session looks usable (`closed` is false)
   and its connection is closed. `client.go:164` promises reuse after a successful
   FETCH. `proxyHandshake` tests the result of `stop()`, and `HandedOverOpen` holds.
2. `config_backup`. Two overlapping runs of `deep proxy`: a configuration written
   between the comparison and the rename is replaced without a backup
   (`docs/DEEP-PROXY.md:34-35`). `LossOnlyInWindow` shows this window is the only one.
3. `file_handler`. `docs/DEEP-V2.md:199` has a directory URL resolve to `index.html`, "then
   index.txt if no HTML entry exists". The code tries `index.txt` whenever its call for
   `index.html` returns NOT_FOUND (`resources.go:57`), which it also does for an
   `index.html` that is a link, a directory or a FIFO, that is replaced by a rename during
   the call, or that the system cannot open, as for lack of rights or descriptors
   (`resources.go:85-101`). The run passes: `QuietExact` and `ServedJustified` state what
   the code does, and that these are the only cases.

Remarks without a run:

- The fallback to FETCH (`cmd/deep/request.go:69-72`) looks at the error code alone. A
  handler that returned `UNSUPPORTED_OPERATION` itself would trigger it after the
  upload, not "before upload" as the comment has it. Exchange contains that case;
  `WritesRunOnce` holds because only GET falls back, and no handler of the repository
  uses the code.
- A transfer that times out is reported as `RESOURCE_CHANGED` (`server.go:220`, `245`),
  which `docs/DEEP-V2.md:142` reserves for content of another size: the callback closes
  the body and the failing read is taken for a change. No truncated body is delivered
  (`DeliveredExactly`).
- A server that loads the configuration of an `init` which then fails, cleans up and is
  run again may take the identity of the second run. `IdentityMatches` states this
  exception; the client's pins, which belong to one run, reject such a server.

- A legal URI cannot always be requested. `docs/DEEP-V2.md:31` allows 4096 bytes, but
  `json.Marshal` writes every `&` as `\u0026`, and with some 1400 of them the metadata
  exceeds the 8192 bytes of a frame: `WriteFrame` fails, and `Fetch` closes the session.
  Nothing was sent by then, and only URIs with `&` are concerned (`ParseExact`).
- `deep fetch --output` with `--info` prints after the file is published
  (`cmd/deep/main.go:170-176`): if that fails the command reports an error although the
  download is complete under its name. `ReportsTrue` states this exception.

## 6. Not modelled

Left out for good: cryptography and certificate construction (`security.go`), text
rewriting of headers and URLs (`http_upstream.go`), the checks on the text of
configurations (`adapters.go`: exact field names, endpoint syntax), argument parsing and
output, demo, preview, scripts. The Windows viewer is a user interface over
`deep request` in another language.

The frame codec (`validateHeader`, `validateJSON`, `validateSurrogates`) is not modelled
beyond whole frames that arrive or do not: its checks are a pure function of one frame,
which the repository tests and fuzzes, and no state or order enters it.

# relay-tunnel: verification project

TLA+ models of relay-tunnel, the TLC runs that check them, and theorems about
them whose proofs TLAPS checks. The reference is the repository's code; every
modelled definition names its lines in `PROJECT.json` (`map`), and paths below
are relative to the repository.

relay-tunnel connects a *host* (`expose`) and a *client* (`connect`) that share
a session code. Both find each other at a *rendezvous server* (`server`), try to
open a direct UDP path by hole punching, fall back to relaying their datagrams
through the server, and run one QUIC connection over whichever path they got.

## 1. Inventory

| Component | Code | State | Operations |
|---|---|---|---|
| Rendezvous server, sessions | `internal/signal/server.go`, `proto.go` | `sessions` by code; per session its peers and `paired`; per WebSocket its handler, `ready` channel | register, reflected, ready, pair, paired/go, disconnect |
| Relay table | `internal/signal/server.go` | `relays`: per token the paired token, the last address, the last time it was heard | reflect, relay, wire a pair, sweep |
| Admin API | `internal/signal/api.go` | none of its own | delete a session, delete a relay pair, prune idle routes |
| Admin accounts | `internal/signal/admin.go` | browser sessions by token; the account in memory | login, logout, lookup, account change, reaping |
| Configuration file | `internal/config` | one JSON file | load, merge with flags, save the account |
| Peer side of the rendezvous | `internal/signal/client.go` | one attempt: a UDP socket and a WebSocket | `Dial` |
| Reflection, hole punching, relay socket | `internal/nat/nat.go` | candidates heard from, a deadline | `Reflect`, `Punch`, `RelayConn` |
| QUIC transport | `internal/transport/quic.go` | none of its own | `Listen` (one connection), `Dial` (pinned certificate) |
| Stream headers | `internal/mux/mux.go` | none | write and read a length-prefixed header |
| Connection manager | `internal/app/connmanager.go` | the live connection, a channel that says there is one, a backoff | `Run`, `set`, `clear`, `Conn` |
| Host streams | `internal/app/host.go`, `splice.go` | per stream | serve tcp, exec, file; dial policy; file root |
| Client actions | `internal/app/client.go`, `socks.go` | per local connection | forward, SOCKS, get, put, exec |
| Command line loops | `cmd/relay-tunnel/main.go` | one attempt at a time | `runExpose`, `runConnect`, `cmdAuto` |
| Self update | `cmd/relay-tunnel/update.go` | the binary, its staged and old copies | download, verify, replace |
| relay-sync example | `examples/relay-sync` | two directory trees | plan, push, pull, retry |
| Web interface, packaging | `web`, `internal/webui`, `packaging`, scripts | - | rendering, build |

How they interact. A peer calls `signal.Dial`, which opens a WebSocket to the
server; the server answers from a goroutine per WebSocket (`handleWS`) and a
single UDP goroutine (`serveUDP`), which share `sessions` and `relays` under one
mutex. `Dial` punches with the peer the server introduced it to, closes the
WebSocket, and returns a socket. The host accepts one QUIC connection on it and
serves its streams; the client's `ConnManager` dials one, and hands it to the
local listeners that are waiting for it. The operator's HTTP requests run
concurrently with all of this.

What is hard, and what makes each part correct:

* **Sessions and pairing.** Handlers interleave with one another, with peers
  that vanish at any moment and with admin deletes; messages are written after
  the mutex is released. One connection per role and code; nobody is introduced
  to a stranger; both peers are introduced before either starts; whoever leaves
  gives its role back.
* **Relay table.** Datagrams arrive before pairing, after deletion, and between
  two sweeps. Nothing is ever relayed outside the pair; a link that was cut
  stays cut; a linked peer can be reached.
* **Accounts and configuration.** A file, a memory copy and the set of logged-in
  browsers change one after the other. After a change only the new credentials
  work, also after a restart.
* **Hole punching.** Two loops with deadlines over a network that loses
  datagrams. Both reach the same verdict, or one waits where nobody calls.
* **Connection manager.** A connection dies under its users' feet. A waiter is
  never handed a connection that was already cleared when it asked, and never
  misses one.
* **The loops around it all.** Whatever fails, the tunnel comes back.
* **Forwarded connections.** Two sockets and a stream, in two directions that end
  independently, over a connection that may die at any moment. An end is only
  passed on behind all the data; nothing is left behind when both sides have gone.
* **Self update.** Killed or failing at any step, of a release that changes under
  it. What is installed is always a whole binary that `SHA256SUMS` vouches for, and
  the last good one is never lost.
* **relay-sync.** Interrupted at any step and run again, over files that are
  edited meanwhile. What passes for the same is the same; success means the
  source is mirrored; nothing else at the destination is touched.

`PROJECT.json` lists every hazard at its line, with the properties that cover it
or the reason why none does.

## 2. Modules

| Module | What it is |
|---|---|
| `RelayTable` | the server's relay table: what each holder of the mutex does to it |
| `Rendezvous` | the whole server and its environment: handlers, pairing, UDP loop, admin API, sweep; extends `RelayTable` |
| `Matchmaker` | the abstract specification: what the server promises its peers |
| `ConnManager` | the client's connection manager and the callers of `Conn` |
| `ConnCell` | the abstract specification: what the manager promises its callers |
| `HolePunch` | the `Punch` loops of both peers over a network that loses datagrams |
| `Tunnel` | host loop, client loops, the server reduced to one code, QUIC: a tunnel from end to end |
| `Line` | the abstract specification: what a tunnel promises its ends |
| `Accounts` | the administrator's account: requests, memory, file, signed-in browsers |
| `Administrator` | the abstract specification: what the server promises the one who administers it |
| `Forward` | a forwarded TCP connection: listener, stream, host handler, both splices; extends `ConnCell` |
| `SelfUpdate` | updating the installed binary in place |
| `Installation` | the abstract specification: what updating in place promises |
| `RelaySync` | one-way synchronisation: passes of push and pull, and the retry around them |
| `RendezvousProofs`, `ConnManagerProofs`, `HolePunchProofs`, `TunnelProofs`, `AccountsProofs`, `ForwardProofs`, `SelfUpdateProofs`, `RelaySyncProofs` | theorems about each, among them that `Rendezvous` implements `Matchmaker`, `ConnManager` and `Forward` implement `ConnCell`, `Tunnel` implements `Line`, `Accounts` implements `Administrator`, and `SelfUpdate` implements `Installation` |
| `MCRendezvous`, `MCConnManager`, `MCHolePunch`, `MCTunnel`, `MCAccounts`, `MCForward`, `MCSelfUpdate`, `MCRelaySync` | instances for TLC |

`Forward` composes with the connection manager through its abstract
specification: what it takes from `ConnCell` - connections that are published and
withdrawn, calls that are answered or given up - is what `ConnManager` is proved
to provide (`ManagerImplementsCell`), so `Forward` need not repeat `Run` and
`Conn`; and it is proved to use the cell no other way (`ForwardUsesCell`).

Some definitions are headed "Faulty variant": they are the code with a plausible
mistake put in, and no specification uses them. Put in place of the definition
they stand before, each makes one property fail (`mutants` in `PROJECT.json`),
which shows that the property depends on that line of the code.

### Rendezvous

One process per WebSocket connection, `stage[c]` being where its goroutine is in
`handleWS`:

| Step | Code |
|---|---|
| `RefuseHello`, `RefuseRole`, `Register` | the hello, up to the first `Unlock`: a bad hello, a role that is taken, a role that is free |
| `SendReflected` | the token and UDP address go out |
| `ReadReady` | the read loop gets `ready` and closes the ready channel |
| `TryPair`, `TryPairReturns` | `tryPair` while it holds the mutex, with its two `pairLocked` calls |
| `TellHost`, `TellClient`, `GoHost`, `GoClient` | the four messages, after the mutex |
| `ReadError`, `Cleanup` | the loop ends; the deferred function |
| `Drop`, `ReflectProbe`, `RelayDatagram` | what the peers do to the server |
| `DeleteSession`, `CloseConn`, `AdminDeleteRelay`, `AdminPrune` | the admin API |
| `Sweep`, `ClockTick` | `gcRelay`, and time passing |

What is under the mutex is one step; every write to a socket is a step of its
own. State that the handlers keep in locals across an `Unlock` (the peers that
`tryPair` read, the peers an admin delete collected) is kept in the model too
(`pairOf`, `closing`), so a step acts on what its goroutine saw and not on what
has become of it.

What is abstracted:

* A session object is named by the connection that created it, and a relay token
  by the connection it was issued to; tokens are drawn at random and never
  collide in the model.
* A route's address is whether the server knows it; its time stamp is how many
  clock ticks ago it was written, counted up to `MaxIdle`.
* Error messages are left out, since the handler returns after each; so are
  packet counters, names, labels, and requests that an unauthenticated operator
  makes, which change nothing.
* A peer says it is ready once, and probes for its address until it is answered,
  as `Dial` does.
* A message to a connection that is down is lost without an error, as `send`
  ignores it. A message to one that is up counts as told when it is written.

`Matchmaker` says the same without sessions, handlers or tables: connections are
matched at most once, introduced to their partner, told to go after that, and
carried over a link that opens with the match and never opens again.

### ConnManager

| Step | Code |
|---|---|
| `Loop`, `DialSucceeds`, `DialFails`, `Retry`, `RetryCancelled` | `Run`: the loop condition, the dial, the backoff |
| `Set`, `Clear` (in `LinkLost`, `HoldCancelled`), `Close` | what `Run` does with a connection |
| `ReadConn`, `Sleep`, `Wake`, `GiveUp` | `Conn`: the locked section, the select |
| `Ask`, `OpenStream` | the local listener around it (`openTCP`) |
| `LinkDies`, `Cancel` | the connection's own context, and the caller's |

A ready channel is named by the connection whose loss made it, and closing it a
second time is modelled as the panic it is in Go. `Conn` reads the connection and
the channel in one locked step and sleeps afterwards, so a `set` or a `clear` may
fall in between. `ConnCell` keeps one cell and the set of calls under way: a call
is answered with what is in the cell at some moment while it runs.

### HolePunch

| Step | Code |
|---|---|
| `Go` | `Dial` after go: `RT_FORCE_RELAY`, or `Punch` |
| `SendRound` | the head of the loop: a hello on every path, an ack on those heard from |
| `ReadNothing`, `ReadHello`, `ReadAck` | the read with its 200 ms deadline, and its two kinds of datagram |
| `Expire` | the deadline, looked at between rounds |
| `Lose`, `ShutOut` | the network, and the NAT of a peer that has not sent yet |

A path is a pair of matching candidates; datagrams from elsewhere are strays that
`matchCandidate` drops. Timing is one guard, `TimeoutCoversRounds`: six seconds
are thirty rounds, so a deadline does not pass while the other peer still sends
or something that will arrive is on its way. `InFlight` makes the queue of one
kind on one path saturate: more copies than that are a loss nobody notices, for a
saturated queue still holds as many as `Punch` ever sends at once.

### Tunnel

| Step | Code |
|---|---|
| `Dial`, `DialFails`, `SendReady`, `TakeGo`, `PunchEnds` | `signal.Dial` and what the server does with each message |
| `Cleanup` | the deferred function of `handleWS` |
| `Meet`, `HandshakeFails`, `LinkLost`, `Notice` | QUIC: `Listen` and `Dial`, the idle timeout, the return of `ServeHost` and of the wait in `Run` |
| `Crash`, `ServerStops`, `ServerStarts` | processes |

The host's `Accept` has no timeout and the client's handshake has one; that
asymmetry is the point of the module. Every fault counts against `MaxFaults`: a
failed reflection, a broken network, a crash, a handshake that fails although the
host is on its way (which is also what a punch with two verdicts looks like from
here). The variable `smooth` is chosen at the start and never changes. In smooth
behaviours crashes spare introductions (`Spared`), a handshake succeeds when both
are on their way, and the server has noticed a closed WebSocket before the next
message comes (`Noticed`). In the others anything goes. What `smooth` does not rule
out is another client's hello between the two departures from a paired session:
`InTurn` says that there is none, and `ReconnectsIfSpared` names it as a second
assumption.

`Line` says what the ends may rely on, without loops, server or handshakes: the
host is on the line with one client at a time, both come onto it in one step,
and each leaves it only when it has broken. `peer` is mapped to the mates of
those who are joined (`Believed`), and `line` to the connections that live.

### Accounts

One process per HTTP request; a step is what happens under one lock, or one
operation on the file.

| Step | Code |
|---|---|
| `Login`, `Change` | a request arrives; a change reads its browser's session |
| `CheckName`, `CheckPassword` | `checkAdminPassword`, which locks twice |
| `CheckRenaming`, `CheckFirstBoot` | the refusals of `handleAuthAccount` |
| `ReadFile`, `ReplaceFile`, `SaveFails` | `SaveAdmin`: read, edit in memory, rename over the file |
| `Update`, `TakeName`, `Issue`, `Rename` | memory, then the sessions |
| `SignOut` | logout, or a session that has expired |
| `Restart` | the process dies and is started from its file |

A password stands for its hash too. A session also records which password
admitted it, which the code does not, so that a property can speak of it. The
variable `single`, fixed at the start, says that requests come one after the
other, which is what one operator with one browser does.

`Administrator` has one account and the browsers signed in under it, and changes
both in one step. The step is mapped to the replacement of the file: `account` is
what the file says, and once a change has replaced it, and until it has signed the
others out, only its own browser counts as signed in (`Browsers`). Of requests at
once it says nothing: `LostChange.cfg` shows what may become of them.

### Forward

| Step | Code |
|---|---|
| `Connect`, `Withdraw`, `LinkDies` | what `Run` does with connections, and their death, which it notices later |
| `Accept` | a listener of `LocalForward` or `SOCKS` gets a connection and calls `openTCP` |
| `Answer`, `AcceptTimesOut`, `Open` | `openTCP`: `Conn`, its timeout, the stream and its header |
| `HostAccepts`, `HostDials`, `HostRefuses` | `ServeHost`, `handleStream` and `hostTCP` with `dialAllowed` |
| `CopyOut`, `CopyOutEnds`, `CopyOutFails` | the copy from a socket to the stream, and the `Close` behind it |
| `CopyIn`, `CopyInEnds`, `CopyInFails` | the copy from the stream to a socket, and the `CloseWrite` behind it |
| `NearDone`, `FarDone` | `wg.Wait`, `c.Close`, and what the callers have deferred |
| `Write`, `Shut`, `Leave` | the application and the service |

The same two loops run at either end, so a direction (`there`, `back`) has a first
loop and a second, and the model says each once. Data is counted: TCP and QUIC
keep it whole and in order, and the question is only what is told behind it. A
stream holds `Window` data before its writer has to wait. A connection of the
proxy differs from a listener's in that it is told of its success before
anything is dialled, which no step depends on.

### SelfUpdate

| Step | Code |
|---|---|
| `Begin`, `Ask` | `selfUpdate`, `latestRelease` |
| `FetchSums`, `FetchAsset`, `FetchFails` | `downloadAndReplace` up to the comparison of checksums |
| `Stage` | `CreateTemp`, `Write`, `Chmod` |
| `ClearBackup`, `MoveAside`, `MoveIn`, `RemoveBackup` | the rest of `replaceExecutable` |
| `MoveInFails`, `Undo` | the second rename fails, the first is undone |
| `CallFails`, `Kill` | any other call fails; the process dies |
| `Republish`, `Upload` | the release workflow, file by file |

A binary is the version it is of, and so is its checksum. A file is a content,
whether it is all there, and whether it may be run. `alone` and `fresh` record
what the properties assume: that no two updates have run at once, and that the
release was complete and unchanged while one ran.

`Installation` has one version installed, which an update replaces in one step or
leaves as it is. The step is mapped to the second rename, since until then the old
binary is there, at its path or as `.old` (`InForce`). Once two updates have run at
once it promises nothing more: the version is unknown to it from then on.

### RelaySync

| Step | Code |
|---|---|
| `Start`, `Dial`, `Retry`, `GiveUp` | `cmdSync`, `dialClient`, `runWithRetry` |
| `ScanSource`, `Plan` | both manifests (`buildManifest`, `loadIgnoreRules`, `isIgnored`), which may fail, and `planSync` |
| `Open`, `CopyHalf`, `CopyRest`, `Stamp`, `StampFails` | one file: `putFile` and `hostPut`, or `hostGet` and `getFile` |
| `Delete`, `Finish` | `hostDelete` or `os.RemoveAll`, and the end of the pass |
| `Cut`, `Edit` | a connection, disk or process fails; somebody saves a file of the source |

Push and pull are the same steps with the sides swapped, but for the modification
time a copy gets: push takes it from the file as it is opened, pull from the
manifest (`StampOf`). A version of a file stands for its content and its time, and
all versions have one size, which is the worst case for a comparison by size and
time. A file is copied in two halves, each read from the source as it then is.
The directories above a path are given by `Above`; a `.gitignore` at the root is
a file like others, and `Masked` says what each of its versions masks. If it is a
directory, and `--gitignore` is on, the scan fails, and so does every pass
(`Readable`).

What the module takes as given: later versions have later times, to the second;
files are edited in place and neither appear nor vanish at the source; nobody
else writes to the destination; both roots exist; below the root, a `.gitignore` is
a file without rules; a connection has a stream for every request of a pass, though
the host does not read a stream to its end and so may not give it back; and what a
lost connection leaves running at the host has ended before the next pass begins.

## 3. Runs

| Run | Instance | What it shows |
|---|---|---|
| `sessions` | two hosts and a client of one code, operator, no aging | `SessionsAreWhole`: one holder per role, slots held exactly by live handlers, no session without peers; `IntroducedToEachOther`, `GoMeansIntroduced`, `RelayWithinPair` |
| `pairing` | one host, one client, operator, clock and sweep, fair handlers | `CutStaysCut`; `Matchmaking`, the refinement; `LeavingIsNoticed`, `ReadyPeersMeet` |
| `conn_manager` | two connections, two callers, fair | `PublishesSafely`: no channel is closed twice, nobody sleeps through a set, one link at a time; `CellBehaves`, the refinement; `EveryCallerServed`, `EndsAreNoticed` |
| `hole_punch` | one path that may work or not, two datagrams lost, fair | `WorksBothWays`, `SameVerdict`; `BestPathIsFound` |
| `tunnel` | a host and two clients, four faults, fair | `ListensForSomebody`; `LineIsKept`, the refinement; `ReconnectsIfSpared` |
| `accounts` | four requests, two names, one password to choose, a restart | `FirstBootGate`, `PasswordStays`, `SurvivesRestartIfSingle`; `ChangesAreAtomic`, the refinement |
| `forward` | one caller, two connections, two targets of which the policy admits one, fair | `EofIsHonest`; `HalfCloseIsPassedOn`, `EndsRelease` |
| `self_update` | three updates, three releases, two failing calls | `OnlyWholeBinaries`, `NeverLost`; `ReplacedInOneStep`, the refinement |
| `relay_sync` | a `.gitignore`, a directory and the files in it; all options; fair | `MatchMeansSame`, `CompleteMeansMirrored`, `TouchesOnlyPlanned`; `RunsComplete` |
| `stale_pairing` | two hosts, two clients, no operator | violates `ReadyPeersArePaired` |
| `idle_host` | one host, one client, clock, no operator | violates `LinkedPeersAreReachable` |
| `host_stuck` | a host and a client, one fault | violates `Reconnects` |

Every passing run checks its module's `TypeOK` too, except `pairing`, whose module
`sessions` covers.

Three more configurations check what the proofs of `Forward`, `SelfUpdate` and
`RelaySync` add to these runs, with the invariants they rest on, and pass:
`ForwardFlow.cfg` and `MCForward` (`PolicyHolds`, `NeverWaitsForItself`, and that the
guards the latter is said with are those of the steps, `GuardsAreRight`),
`UpdateFails.cfg` and `MCSelfUpdate` (`FailureKeepsBinary`, `UpdateArrives`), and
`SyncGoesOn.cfg` and `MCRelaySync` (`PassesGoOn`, `FailsOnlyIfCut`, and again that the
guards are right, `PassGuardsAreRight`).

Six others find violations that section 4 describes:
`OrphanSession.cfg` and `MCRendezvous`, `LateClient.cfg` and `MCTunnel`,
`LostAcks.cfg` and `MCHolePunch`, `LostChange.cfg` and `MCAccounts`,
`IgnoredFiles.cfg` and `MCRelaySync`, `UpdateGap.cfg` and `MCSelfUpdate`.

### Bounds

* Server. One code is enough for the safety runs, because sessions of different
  codes meet only in the relay table, and there only through tokens of one
  pairing; the theorems cover any number of codes. A second host is what it takes
  for a role to be refused, replaced and contended while its previous holder is
  still being cleaned up. In `pairing`, `RelayTTL` is 0 and `MaxIdle` 1, so a
  route is either fresh or too old; `idle_host` has `RelayTTL` 1 and so a clock
  tick that does not yet cost the route. In the other runs both are 0: routes
  never age, and clock and sweep do nothing, which keeps them to the
  interleavings of handlers and operator.
* Connection manager. Each link is dialled once, so the run ends with the second
  connection; the second is what it takes to clear one while another is waited
  for. `MaxBackoff` is not a power of two times `MinBackoff`, so doubling meets
  its cap.
* Hole punching. `MaxLoss` 2 is one less than the acks `Punch` sends to spare, and
  3, in `LostAcks.cfg`, is exactly those. `InFlight` 3 holds all of them. Paths do not
  interact except that the first ack wins; the theorems cover any number, and
  `VerdictsAgree` any losses below the acks that are sent to spare.
* Tunnel. A second client is what it takes for one to wait at the server while the
  host is busy with another. Four faults allow one at each stage of a cycle.
* Accounts. Two logins and two changes are what it takes for one browser to be
  signed out by another, before or after a restart, with a request of each kind
  under way.
* Forwarding. Nothing is shared between two local connections but the connection
  of the peers, so one caller is enough; it is used again, over the second
  connection, so what one use leaves behind meets the next. With a window of one,
  two pieces of data one way and one back fill a stream, so a writer has to wait.
  The theorem covers any number of callers and any window.
* Self update. Two updates meet in every step and a third finds what they left;
  three releases let one be republished twice under one update. Two failures are
  what it takes for the undo to fail after the rename.
* relay-sync. With two interruptions a pass can be left at any step, the one that
  repairs it likewise, and a third finish; a second version of a file is what it
  takes for an edit to fall between any two steps of its copy. `MCRelaySync` gives
  the tree: a `.gitignore`, a directory and a file in it.

Symmetry is used where a run checks no liveness. The deadlock check is off where
the modelled part really ends: both punches are over; the peers are all gone and
no operator is there (`stale_pairing`); the requests have all been answered, the updates are over; and
in `Tunnel` a host in `Accept` and a client in `Dial` may wait for each other for
ever, which `host_stuck` is about and which the check of `Reconnects` sees anyway.

### Fairness

* `Rendezvous`: weak fairness of each handler's steps and of each close in the
  admin delete's loop. A goroutine that can run is scheduled, a read returns once
  its connection is down, and a write does not block for ever since TCP gives up
  on a dead peer. Nothing is asked of the peers, of the operator or of the clock.
* `ConnManager`: weak fairness of `Run`'s own steps, of `Conn`'s, and of giving up
  once the context is cancelled. Dialling is not fair: it waits for a partner
  without a deadline. Nor is the timeout of a call.
* `HolePunch`: the loops go on, and - strongly - a datagram on its way to a peer
  that keeps reading is read in the end, unless it is lost; a deadline that has
  passed is seen at the next round. Losing is not fair.
* `Tunnel`: the loops of `runExpose` and `runConnect`, the timers of QUIC, the
  server's cleanups, and a server that is started again. Faults are not fair, and
  bounded: a tunnel that must come back needs faults that end.
* `Forward`: each copy loop and each handler is a goroutine of its own, and goes on
  when it can; the host's dial returns, with a connection or an error. Nothing is
  asked of the applications, the services and the connections between the peers.
* `RelaySync`: a pass that has its connection goes on - a connection that dies fails
  its streams after the idle timeout, which is an interruption - and a failed pass is
  tried again while the window lasts; the back-off only paces. Dialling is not fair:
  `signal.Dial` waits for its partner without a deadline, and an interruption between
  go and the handshake leaves the host of `relay-sync serve` in `Accept`, as in
  `host_stuck`, which no window ends, since it is looked at between passes only.
  `RunsComplete` therefore says that a run succeeds or waits in a dial for ever.
  Nobody is assumed to give the command again.

## 4. What the runs found

* `stale_pairing`: `session.paired` is set once and never cleared. Replace the
  peers of a paired session one at a time, so that the session never empties, and
  two ready peers wait in it for ever. It takes a session that has paired before:
  in one that has not, two ready peers are never missed (`NobodyIsMissed`).
* `idle_host`: the route that reflection wrote is swept after `relayTTL` while
  the host waits for a client. Pairing makes a new one without an address, and
  as the host only answers, nothing can be relayed to it. It takes the sweep:
  while routes are neither swept nor deleted, every linked peer has its address
  (`LinkedAreReachable`).
* `host_stuck`: the host's `Accept` has no timeout. A client that crashes or gives
  up between pairing and handshake leaves the host waiting there, and comes back
  to a server that has no host for it: both wait for ever. `ReconnectsIfSpared`
  shows that a tunnel does come back when faults spare introductions and clients
  come in turn.

The six other configurations that find a violation:

* `LateClient.cfg`, `ReconnectsOutOfTurn`: what `stale_pairing` means for a tunnel.
  The introduced client has left the session and the host has not, and another
  client takes the free seat (`internal/signal/server.go:342`). The session outlives
  the host's departure with `paired` set, and when the connection is lost once, host
  and second client sit in it and wait, while the first is refused. With one client
  this cannot happen, and the property holds.

* `OrphanSession.cfg`, `ConnectedPeersAreFound`: the deferred cleanup deletes the
  `sessions` entry by code (`internal/signal/server.go:365`). After an admin delete
  and a new registration under the same code, the late cleanup of the old session
  removes the new one from the map, and its peer cannot be found. It takes the
  admin delete: peers alone, however they come, go and replace each other, always
  find each other's session (`ConnectedAreFound`).
* `LostAcks.cfg`, `SameVerdict`: the peer whose ack arrives first stops answering
  after three last acks (`internal/nat/nat.go:103-111`). If these are lost, the
  other waits out its deadline and takes the relay: one end speaks QUIC to its
  peer's address, the other to the server. No message compares the verdicts. With
  one loss less the verdicts agree, for any paths (`VerdictsAgree`).
* `LostChange.cfg`, `SurvivesRestart`: saving the account and updating the memory
  are two steps without a common lock (`internal/signal/admin.go:423`). Two changes
  at once can reach file and memory in different orders, and the next restart
  brings back an account nobody uses.
* `IgnoredFiles.cfg`, `IgnoredUntouched`: `examples/relay-sync/README.md:60` says
  that ignored files at either end are left untouched. Each end applies its own
  `.gitignore`, so a file that only the destination masks is not in its manifest,
  counts as missing, and is overwritten, even without `--delete` - and again by
  every later run, which `CompleteMeansMirrored` therefore excepts.
* `UpdateGap.cfg`, `InterruptedLeavesBinary`: `README.md:79` says that an
  interrupted update leaves the working binary where it was, and the comment at
  `cmd/relay-tunnel/update.go:185` that a failure part-way leaves it working. A
  process killed between the two renames leaves it as `.old`, and nothing at its
  path; `NeverLost` says what does hold. Of two updates at once, one can clear the
  `.old` the other has just made, and if that one's second rename then fails no
  binary is left at all.

What the properties of `Forward` except is what the code does pass off as
something else: when the connection of the peers dies, or a socket is reset, the
copy loops end as they do behind the last byte, and the other end sees an
ordinary end of the data; and when the host refuses to dial, it closes its
direction of the stream and never reads the other, so an application that keeps
writing waits until the connection of the peers ends.

## 5. Theorems

### Rendezvous

`RendezvousProofs` proves, for any sets of connections, roles and codes, any
TTL, prune ages and idle bound, from `RolesAssumption`, `ConnsAssumption` and
`IdleAssumption` alone:

| Theorem | Statement |
|---|---|
| `TypeCorrect` | `[]TypeOK` |
| `SessionsStayWhole` | `[]SessionsAreWhole`, that is `SlotIffLive`, `OneOfEachRole` and `NoEmptySession` |
| `IntroductionsAreMutual` | `[]IntroducedToEachOther` |
| `GoFollowsIntroduction` | `[]GoMeansIntroduced` |
| `RelayStaysWithinPairs` | `[]RelayWithinPair` |
| `CutIsFinal` | `CutStaysCut` |
| `NobodyIsMissed` | `[]NoReadyPairMissed`, the safety in `ReadyPeersMeet` |
| `ConnectedAreFound` | `SessionsUndeleted => []ConnectedPeersAreFound`: while no operator deletes a session |
| `LinkedAreReachable` | `RoutesUndeleted => []LinkedPeersAreReachable`: while there is neither operator nor sweep |
| `ServerKeepsItsPromise` | `Spec => Matchmaking`, the refinement |

The argument. The inductive invariant is
`IInv == TypeOK /\ SessionInv /\ PairingInv /\ RelayWithinPair`, in layers that
are each preserved given the ones before.

1. `SessionInv` adds `NewIsFresh` to the session properties: a connection that
   has not registered names a session object nobody uses. Without it a new
   session could already have members. Only `Register`, `Cleanup` and
   `DeleteSession` touch it; every other step is a `SessionFrame`.
2. `PairingInv` says what a pairing is (`PairsAreReal`), that a Paired message
   names the partner (`HeardWithinPair`), and how far the handler that paired has
   got with its messages (`TellersProgress`), without which `GoMeansIntroduced`
   is not inductive: that go comes after both introductions is known only from
   the position of the handler that says it.
3. `Grows` collects what no step undoes - registrations, pairings, messages,
   lost connections - so that the facts of a pair survive the steps of others.
4. `RelayWithinPair` follows for the table since only `TryPair` links, and for
   what was delivered since only a peer that was told to go sends.

Three further layers stand on these. `MissInv` adds to `NoReadyPairMissed` that who
is ready has learned its address (`ReadyHaveReflected`): `ReadReady` leaves a
handler on its way to `tryPair`, and when that handler gets there the other peer is
either ready, and they are paired, or has its own `ReadReady` still to come.
`LiveAreFound` says that the code of a live handler names its session, so a late
cleanup is of the session in the map or deletes nothing; only `DeleteSession`
breaks it. And `ReflectedAreReachable` says that a known address stays known, which
`ReadyHaveReflected` turns into one for everybody who is linked. The last two hold of
specifications without the steps they name, `SessionsUndeleted` and
`RoutesUndeleted`; with them, `OrphanSession.cfg` and `idle_host` show what happens.

The refinement maps `partner` to the session's pairing, `lost` to connections
that are refused or down, and `linked` to routes with a peer; each handler step
is a Matchmaker step or a stutter.

### ConnManager

From `LinksAssumption` and `BackoffAssumption`, for any number of links and callers:

| Theorem | Statement |
|---|---|
| `ManagerTypeCorrect` | `[]TypeOK` |
| `ManagerIsSafe` | `[]PublishesSafely`, that is `NeverPanics`, `NobodySleepsThroughSet` and `OneLinkAtATime` |
| `ManagerImplementsCell` | `Spec => CellBehaves`, the refinement |

`OneLinkAtATime` is about more than what is published: whatever connection is up,
`Run` holds it, so none is left behind when it dials again or returns. The
invariant adds `RunHolds`: what `Run` holds is what is published, it has not
been cleared, and every channel but the first is named by a connection that was
cleared. Without the last, a fresh channel could be one that was closed before,
and `set` would panic. The refinement maps the cell to `conn` and the calls under
way to the callers that are asking or asleep.

### HolePunch, Tunnel, Accounts

| Theorem | Statement | From |
|---|---|---|
| `PunchTypeCorrect`, `DirectWorksBothWays` | `[]TypeOK`, `[]WorksBothWays`; any number of paths, any losses | `PeersAssumption`, `BoundsAssumption` |
| `VerdictsAgree` | `[]SameVerdict`; any number of paths, whoever insists on the relay | the same, and `AcksToSpare`: fewer losses than last acks |
| `TunnelTypeCorrect`, `TunnelsAreMutual` | `[]TypeOK`, `[]TunnelIsMutual`; any number of clients, any faults | `PeersAssumption`, `FaultsAssumption` |
| `AcceptIsAwaited` | `[]ListensForSomebody`, likewise | the same |
| `TunnelImplementsLine` | `Spec => LineIsKept`, the refinement, likewise | the same |
| `AccountTypeCorrect`, `FirstBootIsGated` | `[]TypeOK`, `[]FirstBootGate`; any requests at once, any restarts | `NamesAssumption`, `NoneAssumption`, `CrashesAssumption` |
| `ChosenPasswordStays` | `PasswordStays`, likewise | the same |
| `SingleSurvivesRestart`, `SessionsStayCurrent` | `[]SurvivesRestartIfSingle`, `[]SessionsAreCurrent`; any requests in turn, any restarts | the same |
| `AccountsImplementAdministrator` | `Spec => ChangesAreAtomic`, the refinement, likewise | the same |

* `WorksBothWays` needs `AcksAnswerHellos`, the same fact for acks still on their
  way, and `OnePath`, that `Punch` returns once. The timing guard plays no part
  in the proof.
* `SameVerdict` needs `VerdictInv`. Its heart is `AcksLeftBehind`: for the peer of one
  that has gone direct there is a path on which acks and losses together are at
  least the last acks that were sent, so as long as the network could not lose
  them all, one is there to be read. The timing guard then keeps that peer from
  giving up while it is (`GivenUpTogether`), which needs that what is on its way is
  on a path that works (`PathsWork`) and that a peer which insists on the relay, or
  has not been told to go, is silent (`SilentUntilGo`). `AcksToSpare` is not always
  true of a network; without it `LostAcks.cfg` shows the verdicts part.
* `TunnelIsMutual` needs that a client is only ever told of the host and keeps
  its mate until the connection ends (`MatesAreKept`), and that a peer which has
  yet to say it is ready has its seat (`SeatsAreKept`), since an introduction
  takes both peers from their seats.
* `ListensForSomebody` needs `SmoothInv`: while introductions are spared, who has a
  go coming is still waiting for it (`GoesAwaited`), who is ready waits until the
  pairing (`ReadyOnesWait`), so that both sides of an introduction are there to
  take it, and then whoever the host is on its way to meet is on its way to the
  host (`HostIsMet`).
* `LineIsKept` follows the same layers: a step of the loops, of the server or of a
  handshake maps to a step of `Line` or changes neither who is joined nor what
  lives. `Meet` is `Join` because who is not joined has no mate in `Believed`, and
  because no connection lives while the host is in `Accept`, by `TunnelIsMutual`,
  which is also what makes `Crash` and `LinkLost` end it for both.
* The account properties need `ChosenFirst` - the file is ahead of the memory, and
  a change that leaves the password alone passed its check, and read the file,
  after one was chosen - and `FreeOnesAreLate`, the same for what a handler is
  about to write into a session. `LocalsAreThere` says a handler under way has
  its locals. Of requests that come in turn, `SingleInv` says what each step
  hands to the next: only one is under way (`OneByOne`), the file is the memory but
  for a change being made (`FileIsAhead`), what a request was checked against is
  still the account (`PassedIsCurrent`), and so is what browsers are signed in
  under (`BrowsersFollow`).
* `ChangesAreAtomic` stands on `SingleInv`, and on `AskedIfInitial`: with
  `FreeOnesAreLate`, a login asks for a new password exactly when none was chosen.
  `ReplaceFile` is the change, since the request at work is alone; `Update` and
  `TakeName` are not seen, as the file is ahead; `Rename` is not either, since what
  it leaves signed in is what was seen all along (`CommittedView`), and `Issue` signs
  in under the account in force, which by then is the memory's too.

### Forward, SelfUpdate, RelaySync

| Theorem | Statement | From |
|---|---|---|
| `ForwardTypeCorrect`, `ForwardedEndsAreHonest` | `[]TypeOK`, `[]EofIsHonest`; any number of callers and connections, any policy, any window | `NoneAssumption`, `PolicyAssumption`, `DataAssumption` |
| `PolicyIsKept`, `SplicesDoNotDeadlock` | `[]PolicyHolds`, `[]NeverWaitsForItself`, likewise | the same |
| `ForwardUsesCell` | `ForwardSpec => Spec`, the specification of `ConnCell` | - |
| `UpdateTypeCorrect`, `OnlyVerifiedInstalled`, `BinarySurvives`, `SuccessIsNewest` | `[]TypeOK`, `[]OnlyWholeBinaries`, `[]NeverLost`, `[]UpdateArrives`; any number of updates, releases and failures | `BoundsAssumption` |
| `FailureIsHarmless` | `FailureKeepsBinary`, an action property, likewise | the same |
| `UpdateImplementsInstallation` | `Spec => ReplacedInOneStep`, the refinement, likewise | the same |
| `SyncTypeCorrect`, `MatchingIsSafe`, `SuccessMirrors`, `OnlyPlanned` | `[]TypeOK`, `[]MatchMeansSame`, `[]CompleteMeansMirrored`, `TouchesOnlyPlanned`; any tree, rules, edits and interruptions | `PathsAssumption`, `RulesAssumption`, `BoundsAssumption` |
| `PassesDoNotStick`, `OnlyCutsFail` | `[]PassesGoOn`, `FailsOnlyIfCut`, likewise | the same |

* `EofIsHonest` goes along a direction: a stream is closed behind all there was to
  send, and its end is passed on behind all that it held (`EndsComeLast`). The
  exceptions must be stable for that, which `LoopsCloseBehindThem`, `StartsEmpty`
  and `LanesWerePublished` provide: a connection that has died is not published
  again, and a stream has nothing in it before it is opened.
* `PolicyHolds` is an invariant of a step later than the check: it must be shown that
  a handler which has passed the policy is the only one that data reaches, and that
  a caller used before for another target brings nothing along
  (`NoServiceUndialled`).
* `NeverWaitsForItself` is freedom from deadlock as a state predicate. It says with
  explicit guards (`OutCanGo`, `InCanGo`, `HandlerCanGo`) which steps can be taken,
  since the provers do not reason about `ENABLED`; that these are the guards of the
  steps is what `GuardsAreRight` checks. The argument follows the data: a writer
  that waits for the window has a reader that can move, unless the reader has
  stopped; and a loop whose writer has left finds the stream closed
  (`StreamsAreClosed`), so it ends.
* `ForwardUsesCell` is step simulation with the identity on the cell's variables.
  With `ManagerImplementsCell` it composes the two modules.
* `OnlyWholeBinaries` needs `StagedIsWanted`: from the comparison of checksums on,
  what is in hand, and later staged, is what `SHA256SUMS` vouched for. `NeverLost`
  needs `AloneOnDisk`: an update that is alone finds the binary where its own last
  step left it. `UpdateArrives` needs `ArrivalInv`: a release that stood still was
  complete (`FreshIsPublished`), and an update that is alone then asks for, fetches
  and installs the newest, step after step (`FreshGetsNewest`). `FailureKeepsBinary`
  needs `OldIsKept`: until the new binary is in, the very one that was running is at
  its path, or between the renames at `.old`.
* `ReplacedInOneStep` needs all of these: by `OldIsKept` only the second rename changes
  what is in force (`InForceStays`), and by `ArrivalInv` success has the latest. That
  no update goes back needs `ForwardInv`: the checksums that can be asked for are
  never behind what is installed, kept or looked for (`ChecksumsLead`), also while
  CI replaces them, so what an update looks for is not older than what it finds
  (`OnlyForward`). Its name in the release plays no part: an update may well install
  again what it has, if the name is still the old one.
* `MatchMeansSame` is not inductive: a copy begins before an edit and ends after
  it. `TimesAreTrue` says that a file at the destination is what its time says or
  has a time that the source has left behind, and `CopyIsFair` the same of a copy
  under way, half by half; that times only grow at the source does the rest.
* `CompleteMeansMirrored` needs `PlanIsKept`: what is no longer in the plan has
  been done, and later steps of the pass do not undo it. A deletion does not take
  away what was copied because it only ever removes files (`Rooted`), which is also
  why `RemoveAll` is no danger in `TouchesOnlyPlanned`. That the next run has nothing
  left to copy needs `TimesAreGiven`: what has been dealt with has the time it was
  given, between the manifest's and the source's, or the time of its writing if that
  could not be set; the two bounds meet when the source was not edited.
* `PassesGoOn` and `FailsOnlyIfCut` are the safety under `RunsComplete`, of a pass that
  has its connection and of two ends that are `Compatible`. A pass does not stick
  because there is a first path in whatever is left of a plan (`FirstIsThere`,
  the natural numbers being well-ordered), and because a copy under way is in the plan
  until it is over (`CopiesUnderWay`). It does not fail of itself because what it makes
  at the destination are files of the source and the directories they are in, and no
  file of the source is in such a place (`StaysCompatible`), while a deletion only takes
  files away (`KeepsCompatible`); the same two say that a `.gitignore` that can be read
  (`Readable`) does not become a directory, at which a scan would fail. What fairness
  adds is that the steps are taken, and that the window outlasts the interruptions; that
  a dial returns is neither proved nor assumed.

### Model-checked only

The liveness properties, fairness being outside the provers' reach:
`LeavingIsNoticed`, `ReadyPeersMeet`, `EveryCallerServed`, `EndsAreNoticed`,
`BestPathIsFound`, `ReconnectsIfSpared`, `HalfCloseIsPassedOn`, `EndsRelease` and
`RunsComplete`; and `GuardsAreRight` and `PassGuardsAreRight`, which are about
`ENABLED`. Every safety invariant and action property that a run checks is a theorem.

## 6. Not modelled, and the plan

Left out of components that are modelled in part:

* Host streams and client actions: files and commands (`hostFile`, `hostExec`,
  `FileGet`, `FilePut`, `Exec`), one stream and one direction each; whether
  a file that was put was written is not asked by the code (`internal/app/client.go`).
* Stream headers, the SOCKS handshake, forward specs, the framing of `RelayConn`,
  the patterns of `.gitignore`: codecs and parsers, byte by byte, with no state.
  Their outcome is a choice where a module depends on it.
* Configuration: loading, unknown keys, and the merging of flags over the file.
* `cmdAuto`, which runs the host's loop and the client's side by side; what it
  adds to `Tunnel` is that both share a process.
* QUIC and TLS: their guarantees - order, pinning, idle timeouts - are assumptions
  of the modules above.

Everything planned for proof is proved; what is next modelled brings its own.
Next to model, in this order: the file verbs, over `Forward`'s streams, with the failures
the host does not report; the merging of flags and file as operators, checked
against a reference definition; `cmdAuto` over `Tunnel`.

Not planned: the web interface, packaging and CI, logging, the number of sockets a
host leaves open.

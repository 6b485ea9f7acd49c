# A TLA+ model of the server projects

The repository is a series of small C programs for Unix: shells, a UDP ping, a
file transfer, a UDP tunnel, a tunnel that balances load over several paths,
and an audio streaming service. What is hard in them is not their size. They
share memory between processes without locks, are interrupted by signals
between any two instructions, and talk over a network that loses, duplicates
and reorders. This directory models those parts in TLA+, checks small
instances with TLC and proves the main invariants with TLAPS.

Paths below are relative to `src/`.

## 1. Inventory

| Component | State it keeps | Operations | Interacts through |
|---|---|---|---|
| Tunnel daemon, `load_balancing_server/tunneld.c` | `nexthoptab` in `mmap(MAP_SHARED)` memory: source, destinations, `curr`, `num_hops`, `pcount`, `stats`, `srcpt` per session | parent: accept, handshake, search, store, publish, answer or fork; child: bind, relay both ways, rotate, time out | TCP to `tunnelcli`, shared memory parent/child, UDP to the hosts |
| `load_balancing_server/tunnelcli.c` | none | register one path, print the port | TCP |
| Ping, `transport_layer_servers/udp_ping_server/` | `pingstart`, `pingend`, `responded` | send, sleep, statistics; SIGPOLL handler; echo server | UDP, shared globals between main program and handler |
| File transfer, `file_transfer_server/` | drop counts; `datapack`, the file buffer; one alarm on each side | control packets, acknowledgement, three copies of each block, report | UDP, SIGALRM |
| Audio server, admission (parent of `musas.c`) | `active_sessions`, `session_counter` | reap, accept, refuse, fork, count | TCP, `fork`, `waitpid` |
| Audio server, session (child of `musas.c`) | `ilambda_log` (entry 0 is also the interval in force) | open, send, log, sleep, end, write log; SIGPOLL handler | TCP, UDP |
| Audio client, `musac.c` | circular buffer: `curr_ptr`, `playback_ptr`, `Q`; `started`, `is_streaming` | `select` loop: receive, play, feed back | TCP, UDP, ALSA |
| First tunnel daemon, `tunnel_server/tunneld.c` and `tunnelcli.c` | parent: a private `nexthoptab` of five slots; each child: its copy from the fork, `srcpt`, two sockets | parent: accept, read code and password, find a free slot, read the path, fork; child: find a port, answer, relay both ways for ever | TCP to `tunnelcli`, UDP to the hosts; nothing shared after the fork |
| TCP shell, `transport_layer_servers/tcp_server/` | server: one connection at a time; client: the connection of the prompt it shows | server: accept, read a line, check the password, fork, wait, `q`; client: connect, then prompt, write, read to end of file | TCP, `fork`, `waitpid` |
| FIFO shell, `shell_command_servers/v4/` | two FIFOs, the command being read, the answer being shown | client: a line in two writes, then `open` of the answer FIFO; server: read to a newline, fork, wait; child: `open` of the answer FIFO, write | FIFOs, whose `open` is a rendezvous and whose bytes carry no mark |
| Local shells v1, v2, v3 | a line | read, fork or exec, wait | terminal |

What makes each one correct:

* **Tunnel daemon** - one slot per source; a child uses only hops that are
  stored and published; the rotation is fair; what comes back goes where the
  source last wrote from; the statistics tell what was sent; every client is answered and every session ends. Hard
  because parent and children share the table without a lock, and because one
  field (`srcpt`) and one counter (`pcount`) are each used for two purposes.
* **Ping** - the handler reads one packet per signal and signals merge, so the
  buffer and the signals must stay in step; answers go to pings that were sent;
  interruptions do not shorten the spacing.
* **File transfer** - one copy of three is enough; a hole is never silent; the
  phases do not mix on the same socket; every wait of the data phase is under
  an alarm.
* **Audio service** - never more than two sessions; the count follows the
  children; logs differ; the circular buffer is a FIFO queue; the interval is
  one the client sent; a client that began to play ends.

* **First tunnel daemon** - a port that is printed serves the path that was
  asked for and no other; a slot goes to one registration of a source; two
  children that look for a port at the same time find different ones; packets
  go only along registered paths and what comes back goes where the source last
  wrote from.
* **Shells** - a line is run at most once, after it was asked for, by who may
  ask, and while no other runs; what a client shows is the answer to the line
  it sent; a client that waits is answered. Hard because client and server
  block on each other in `connect`, `accept`, `open` and `read`, because either
  may go away between any two of these calls, and because what is left in a
  FIFO or a listen queue is found by whoever comes next.

`PROJECT.json` lists all components with their status and, under `hazards`, the
places in the code where these go wrong.

## 2. Modules

| Module | Models | Kind |
|---|---|---|
| `Tunneld` | `tunneld.c` and `tunnelcli.c` of `load_balancing_server`, the hosts as environment | detailed |
| `TunnelServer` | `tunneld.c` and `tunnelcli.c` of `tunnel_server`, the hosts | detailed |
| `RelayService` | what a tunnel promises its users | abstract, refined by `Tunneld` and by `TunnelServer` |
| `TcpShell` | `mysh_v4.c` and `mycl.c` of `tcp_server`, the people who type | detailed |
| `FifoShell` | `mysh_v4.c` and `mycl.c` of `shell_command_servers/v4`, the person who types | detailed |
| `ShellService` | what a remote shell promises | abstract, refined by `TcpShell` and by `FifoShell` |
| `Ping` | `upingc.c`, `pingrespcb.c`, `inter_sleep.c`, `upings.c`, the network | detailed |
| `FileTransfer` | `tripfs.c`, `dropornot.c`, `tripfr.c`, the two `alarmcb.c`, the network | detailed |
| `MusicSessions` | the accept loop of `musas.c`, its children and clients | detailed |
| `MusicStream` | the child of `musas.c`, `musac.c`, the network | detailed |
| `PlaybackQueue` | a bounded FIFO queue of bytes | abstract, refined by `MusicStream` |
| `MC...` | instances for TLC | |
| `..._proofs` | theorems for TLAPS | |

`MusicSessions` and `MusicStream` are two views of the audio server. In the
first a session is one step from running to over, in the second there is one
session, admitted already. They meet in the `'K'` that `musas` writes: the
first ends with it, the second begins after it.

An operator whose comment begins with *Faulty* is not part of any
specification. It is a variant of the definition next to it, as a plausible
mistake would make it, and serves to show that a property depends on that
definition: with the variant in its place TLC finds the property violated.
`PROJECT.json` pairs them under `mutants`.

### Tunneld

A step is the code between two accesses another process can tell apart. The
parent's steps are `HandshakeCut`, `Refuse`, `TableFull` (each a way out of the
loop), `Register` (lines 128-156: the search and the stores at index
`num_hops`), then `num_hops++` in one of `AddHop`, `Fork` and `ForkFails`, and
`Reply`. The variable `ppc` is where it is in that loop. A child's steps are
`Bind`, `RecvSource` (the read of a packet, the check of its address, `srcpt`
and the choice of the hop), `Forward` (send, statistics, rotation), `RecvDest`
and `Timeout`; `both` remembers that `select` reported the two sockets, so that
the second half of the iteration follows the first. A foreign packet sends the
child back to `select` (the `continue` of line 280) whatever the other socket
has.

`dst[s]` has one entry more than the array: index `SESSIONS` stands for the
store past its end (the code does not test `num_hops`, tunneld.c:155), which on
the usual 64-bit layout of `struct nexthop` overwrites `destpt[0..3]`
(`BadDst`). `tunneld_control` reaches that store; nothing is promised past it,
and the refinement of `RelayService` is stated and proved for
`MaxDests <= SESSIONS`. `SESSIONS` is one constant because the code uses one,
for slots and for hops. Likewise `stats` has an entry past its end, which lies
over `egresspt`: `Bind` stores the port of the send socket there. That the code
searches for that port is left out, so it is 57500 in the model.

A source address that does not parse is sent as 0 and stored as 0, the mark of a
free slot, while the slot keeps its hop, its `num_hops` and its child. The next
source takes the slot over: it gets hops that nobody asked for it, and no child
is forked for it, as the slot has one (or had: that child may have timed out). The model has all of this (`NoAddr` as a source in
`GoodRequests`), and `RelayService` says what is left of the promise: nothing is
carried for a source but along paths asked for it or for a mistyped source
(`stray`, `TakeOver`).

`sendto()` may lose a packet and its result is not looked at: `sent` counts what
the child sent on, `delivered` what arrived. The send socket is read from anyone
at any time, so `DestSend` has no guard but that the socket exists. A datagram
that comes before the first packet of the source is sent to `srcpt`, which is then
the port the child itself listens on. `bounced` records where such datagrams went
and the last packet of the source at that moment. That a host owns the address
it goes to, and has a program at that port, is not modelled: a datagram sent there is gone.

A tunnelcli killed between two writes is a request of kind `cut`: `error()`
then exits the parent and resets its connections, while the children go on.

### TunnelServer

The parent's steps are the ways through its loop (`HandshakeCut`, `Refuse`,
`TableFull`, `Register`) and then `Fork` or `ForkFails`. The table is searched
before the path is read, so `TableFull` also meets a request that was cut after
the password. `nexthoptab` is the parent's; `entry[c]` is the copy of one slot
that the child forked for tunnelcli `c` works on, and nothing writes both. A
source address that does not parse is sent as 0, which is also the mark of a
free slot: such a registration is answered, relays nothing and its slot is given
away again, here with a child and an entry of its own, so that nothing is taken
over (`stray` is empty). `RegistrationsHonoured` is stated around this. Losses and
the send socket are as in `Tunneld`. Sessions never end: after
`SESSIONS` registrations every tunnelcli is turned away for good. The "up to 5
concurrent sessions" of that server's README are the only five it will ever have.

### TcpShell

A connection is a pair of a client and a number; `backlog` is the listen queue,
`copen` and `sopen` the ends still open at the client's and the server's side.
The server is `Accept`, one of `Empty`, `Refuse`, `Quit`, `Fork`, `ForkFails`,
and `Reap`. A client connects before it prompts. An empty line (`Enter`) goes
back to `connect` with the old connection open, as the code does; if the server
is reading from that one both wait for ever, so `Answered` has the hypothesis
`[]<>~Held`: the server is not kept for good by a connection whose client types
nothing. Output is a bit: a command that writes more than the client's buffer
(`much`) lets it stop reading before the end of file.

### FifoShell

Each FIFO is a sequence; `KeptB` empties FIFO B when its last end is closed.
`open` blocks until the other side opens too (`OpenA` moves client and server,
`OpenB` and `ChildOpens` client and child). A line is its number, written
before its newline in a write of its own; a client killed between the two
leaves a line without an end, to which the next line is added, and the server
sees one command, known here by its first piece. `strcmp` with `"q"` looks as
far as the `\0` the client sends with it, hence `Head(command) = Q`. Taken as
given: the FIFOs exist, lines fit the server's buffer, the server is started
once; an empty line at the prompt changes nothing and is a stutter.

`cuts` counts the answers of which the client threw the rest away. It is a count
and not the set of the lines that were too long: one output that is long enough
is cut by the line it belongs to and, as its command is still writing, again by
each line that is shown a part of it. `AnswersLag` allows one line for each cut;
counted by lines it is false, which the first attempt to prove it brought out.

### Ping

The client is a main program and a handler that runs between any two of its
steps (`hpc`); SIGPOLL is one bit, so arrivals merge. The handler's read and its
store are two steps, as time may pass and another packet may arrive between
them. The clock advances in sleeps and, up to `MaxIdle` ticks, anywhere else.

### FileTransfer

Both programs, each with one alarm, in ticks of a common clock. Packets are
known by their block number; the network loses, duplicates and swaps
neighbours. There are at most five rules, as `dropornot()` looks at five. `waits` chooses between the sender of `file_transfer_server` and its
copy in `load_balancing_server`, in which the wait for the acknowledgement is
commented out. A control packet read as a block gives a sequence number above
2^29 and crashes the receiver.

### MusicSessions

The parent's steps in the order of the code, with fork failing or not, and
children that end at any time, even before the parent has counted them.

### MusicStream

The child and its handler, the client's `select` loop, the circular buffer cell
by cell, chunks and intervals in flight as sets (so reordered at will) and lost
at will; the kernel merges signals. An interval is known by the number of the
playback it was computed after; the arithmetic of the control law is left out.
The interval is read twice before the sleep, for its seconds and for its
nanoseconds (`ReadSec`, `ReadNsec`), and the handler may store another between
the two: each half is of an interval that was sent, the two together need not be
one that was.
The branch of `musac.c` for a full block that passes the end of the buffer is
part of `Contents`, although with `bufsize` a multiple of 4096 only a short
chunk early in the stream makes it happen.

## 3. What TLC checks

| Run | Instance | Checks | Shows |
|---|---|---|---|
| `tunneld_control` | 3 clients, 3 sources, 2 slots, 1 packet | `TypeOK`, `OneSlotPerSource`, `SamePortWhenQuiet`, `Answered`, `SessionEnds` | the table under full, refused, cut and failing registrations; every tunnelcli ends; sessions with traffic end |
| `tunneld_relay` | 2 clients, 2 sources, 2 destinations, bursts of 2, 4 packets from 2 ports, 1 datagram to a send socket | `HopRegistered`, `RepliesReachSource`, `Balanced`, `BurstBounded`, `StatsTellSent`, `ServiceSpec` | registration, good or mistyped, racing the relay; the daemon implements `RelayService` |
| `tunnel_server` | 3 clients, 2 sources, 2 destinations, 2 slots, 3 ports, 2 packets from 2 ports, 1 datagram to a send socket | `RegistrationsHonoured`, `RepliesReachSource`, `ServiceSpec` | full, refused, cut and mistyped registrations, failing forks, children looking for ports at once; the daemon implements `RelayService` |
| `tcp_shell` | 3 clients making 2, 1 and 1 connections, one with a wrong password, a listen queue of 1 | `ServiceSpec`, `Answered` | the server implements `ShellService`; a client that sent a command is answered whatever the others do |
| `fifo_shell` | 3 lines, up to 5 bytes of output of which 1 is shown at a time, 2 kills, 2 restarts | `OwnAnswer`, `AnswersLag`, `ServiceSpec`, `Answered` | the answer belongs to the line, or lags by at most one line for each kill and each answer cut short; the server implements `ShellService` |
| `ping` | 3 pings, 1 duplicate | `TypeOK`, `SignalsMatchBuffer`, `AnswersFollowPings`, `PingsSpaced`, `Finishes` | handler and main program |
| `file_transfer` | 3 blocks of 3 copies, 3 rules, 2 losses, 1 duplicate, 1 swap | `TypeOK`, `SurvivesLoss`, `HolesReported`, `PhasesApart`, `DropsAsConfigured`, `SenderEnds`, `ReceiverEnds` | the transfer on a bad network |
| `music_sessions` | 4 clients, 2 sessions | `TypeOK`, `AtMostMaxSessions`, `CountMatchesChildren`, `Answered` | admission |
| `music_stream` | 5 bytes, chunks of 2, buffer of 4, log of 3 | `TypeOK`, `RateIsSent`, `QueueSpec`, `EndsOnceStarted` | one stream; the interval read in two halves; the buffer implements `PlaybackQueue` |

Three runs state what a document or comment of the repository says and end in a
counterexample; `PROJECT.json` quotes the lines under `findings`.

| Run | Property | The counterexample |
|---|---|---|
| `tunneld_same_port` | `SamePort` | a path added after the first packet prints the source's own port |
| `tunneld_burst` | `BurstAtMostNumPacks` | a second path added after a full burst is never used: `pcount` has passed the value it is compared with |
| `ping_counted` | `CountedInTime` | an unanswered ping is counted, with a negative round trip |

What else the code does that its user may not expect is in the modules, follows
from them at once and has no run of its own:

* a sixth destination is stored past the arrays (`tunneld.c:155`);
* a source takes over the hops of a mistyped one (`tunneld.c:145`) and its
  packets are relayed to destinations it never registered;
* what reaches a send socket before the source's first packet is sent to the
  child's own port (`tunneld.c:320`, `tunnel_server/tunneld.c:237`);
* a registration answered before the new child has bound prints port 0
  (`tunneld.c:162`);
* the statistics count packets that were lost (`tunneld.c:297`);
* the child of `musas` may sleep by the seconds of one interval and the
  nanoseconds of another (`musas.c:193`);
* a SIGPOLL delivered after `close` overwrites the answer of ping 0
  (`upingc.c:117`);
* the last block is reported as missing copies although they came
  (`tripfr.c:126`);
* a stream shorter than `targetbf` is never played and its client does not end
  (`musac.c:221`).

### Bounds

* `Tunneld`: two slots and three sources reach the full table; bursts of two
  with four packets reach a full rotation over two hops, and the state past the
  rotation point; two source ports let the source change its port around a
  datagram to the send socket, of which one shows all there is, as each is
  judged by itself; `MaxPackets` and `MaxReplies` bound the
  environment only, `MaxDests` what is registered for a slot.
* `TunnelServer`: two slots and three tunnelcli, so that one finds the table
  full or a slot that was left free; three ports, so that two children compete
  and one remains.
* `TcpShell`: a queue of one is full as soon as one client waits; the client
  with two connections can leave the first open and be served on the second;
  the third is there to be refused, or to be waiting when the server exits.
  `MaxConns` bounds what a client connects.
* `FifoShell`: `LEN` 2 and `MaxOut` 5 give outputs that fit, and one that is cut
  twice and read a third time; two kills and two starts let a client meet the
  remains of two earlier ones; `MaxLines` bounds the lines typed.
* `Ping`: three pings are the least with a first, an inner and a last one;
  `MaxIdle` and `MaxDups` bound the environment.
* `FileTransfer`: three blocks so that a hole can be before, and the last block
  overtake; the drop rules exceed the copies for one block; `MaxLost`,
  `MaxDups`, `MaxSwaps` bound the network.
* `MusicSessions`: four clients for two places: two running, one zombie or
  failed fork, one to be refused.
* `MusicStream`: five bytes are two full chunks and a short one; a buffer of
  two chunks wraps; a log of three entries fills. `MaxSize` bounds the file.

`CHECK_DEADLOCK FALSE` stands in all configurations: when every client is done
and the environment has used up its packets the systems do stop, and a client
blocked in `recvfrom` or `accept` for good is a legal state of these programs.

Symmetry is used in the runs of the two tunnel daemons that have no liveness
property: no action and no property tells one tunnelcli, one source or one
destination from another. `ServiceSpec` is there an action property, judged step by
step, for which symmetry is sound as it is for an invariant.

### Fairness

Weak fairness on each process as a whole (`Parent`, each `Child(s)`, `Client`,
`Sender`, `Receiver`): the kernel schedules a process that is not blocked, and a
sequential process takes its next step. Weak fairness on the clocks (`Tick`,
`Elapse`, and the ticks of a sleep as part of `Client`): alarms and sleeps come
to an end. Nothing is assumed of UDP: a datagram need not arrive, ever. The
hosts, the people who start clients and the end of a streaming session are not
fair either. In the shells the client's program, the server and the end of a
command are fair and nothing is assumed of the person: nobody has to type, quit
or kill. TCP connections are delivered (they are in the backlog once made).

## 4. What TLAPS proves

For all values of the constants that satisfy the named assumptions of the
modules:

| Theorem | Says |
|---|---|
| `Tunneld_proofs!TypeCorrect` | `Spec => []TypeOK` |
| `Tunneld_proofs!TableCorrect` | `Spec => []OneSlotPerSource` |
| `Tunneld_proofs!BurstCorrect` | `Spec => []BurstBounded` |
| `Tunneld_proofs!BalanceCorrect` | `Spec => []Balanced` |
| `Tunneld_proofs!HopsCorrect` | `Spec => []HopRegistered` |
| `Tunneld_proofs!SamePortCorrect` | `Spec => []SamePortWhenQuiet` |
| `Tunneld_proofs!RepliesCorrect` | `Spec => []RepliesReachSource` |
| `Tunneld_proofs!StatsCorrect` | `MaxDests <= SESSIONS` implies `Spec => []StatsTellSent` |
| `Tunneld_proofs!ConnectionsCorrect` | `Spec => []HeldOnce`, a state part of `Answered` |
| `Tunneld_proofs!SearchEnds` | `Spec => []PortLeft`, a state part of `Answered` |
| `Tunneld_proofs!ImplementsService` | `MaxDests <= SESSIONS` implies `Spec => ServiceSpec` |
| `Ping_proofs!PingTypes` | `Spec => []TypeOK` |
| `Ping_proofs!SignalsCorrect` | `Spec => []SignalsMatchBuffer` |
| `Ping_proofs!HandlerNeverBlocks` | while the socket is open a handler about to read finds a packet |
| `Ping_proofs!AnswersCorrect` | `Spec => []AnswersFollowPings` |
| `Ping_proofs!SpacingCorrect` | `Spec => []PingsSpaced` |
| `MusicSessions_proofs!SessionTypes` | `Spec => []TypeOK` |
| `MusicSessions_proofs!CountCorrect` | `Spec => []CountMatchesChildren` |
| `MusicSessions_proofs!SessionsBounded` | `Spec => []AtMostMaxSessions` |
| `MusicSessions_proofs!LogsCorrect` | `Spec => []LogsDistinct` (a theorem only, no run checks it) |
| `MusicSessions_proofs!FailedForksCost` | `Spec => []PlacesLost` (a theorem only) |
| `MusicSessions_proofs!ConnectionsCorrect` | `Spec => []HeldOnce`, a state part of `Answered` |
| `MusicStream_proofs!StreamTypes` | `Spec => []TypeOK` |
| `MusicStream_proofs!RateCorrect` | `Spec => []RateIsSent` |
| `MusicStream_proofs!EndCorrect` | `Spec => []EndTold`, a state part of `EndsOnceStarted` |
| `MusicStream_proofs!ImplementsQueue` | `Spec => QueueSpec` |
| `FileTransfer_proofs!TransferTypes` | `Spec => []TypeOK` |
| `FileTransfer_proofs!HolesCorrect` | `Spec => []HolesReported` |
| `FileTransfer_proofs!SurvivalCorrect` | `Spec => []SurvivesLoss` |
| `FileTransfer_proofs!PhasesCorrect` | `Spec => []PhasesApart` |
| `FileTransfer_proofs!DropsCorrect` | `Spec => []DropsAsConfigured` |
| `FileTransfer_proofs!AlarmsCorrect` | `Spec => []AlarmsMatchWaits`, a state part of `SenderEnds` and `ReceiverEnds` |
| `TunnelServer_proofs!RegistrationsCorrect` | `Spec => []RegistrationsHonoured` |
| `TunnelServer_proofs!RepliesCorrect` | `Spec => []RepliesReachSource` |
| `TunnelServer_proofs!ConnectionsCorrect` | `Spec => []HeldOnce` (a theorem only) |
| `TunnelServer_proofs!ImplementsService` | `Spec => ServiceSpec` |
| `TcpShell_proofs!ImplementsShell` | `Spec => ServiceSpec` |
| `TcpShell_proofs!ConnectionsCorrect` | `Spec => []OpenServed`, a state part of `Answered` |
| `FifoShell_proofs!ImplementsShell` | `Spec => ServiceSpec` |
| `FifoShell_proofs!AnswersCorrect` | `Spec => []OwnAnswer` |
| `FifoShell_proofs!LagCorrect` | `Spec => []AnswersLag` |
| `FifoShell_proofs!WaitersCorrect` | `Spec => []UnderWay`, a state part of `Answered` |

The arguments:

* **Tunneld.** `TypeOK` is inductive with `StepInv`: a registration in progress
  fits under the bound, and a child sent to the second half of its loop has a
  reply to read. `OneSlotPerSource` is inductive by itself, by the minimality
  in `FirstMatch`. The rotation needs `TurnInv`, per slot: nothing is counted
  before the first packet (`FreshInv`), the hop in flight is `curr` (`CurrInv`),
  `pcount` stays below the rotation point from the second hop on unless it was
  past it (`BurstInv`), and the counts are a number of full rounds plus the
  share of this one (`BalanceInv`). That `hop = curr` while a packet is in
  flight is the fact the missing lock could break: it survives a registration
  between the choice of the hop and the update, because `curr` is 0 as long as
  there is one hop. `HopRegistered` adds `StoredInv`: a hop is stored before it
  is published. For the refinement, `RouteInv` says a published hop is one that was
  asked for the slot's source or for a mistyped one, by a tunnelcli that asks no
  more (`AskedStays`), and `IdleInv` that who has not connected has asked for
  nothing. Then `Connect` is `Ask` or `AskStray`, a `Register` that finds a slot
  of a mistyped source is `TakeOver`, `AddHop`, `Fork` and `ForkFails` are
  `AddRoute`, `Forward` is `Carry` unless the packet is lost, `Timeout` is `End`
  and the rest are stutters. The hypothesis excludes the sixth registration, which
  does break it.

  `srcpt` has two uses, and two invariants say when each is right. `PortInv`:
  until the first packet `srcpt` is the port the child listens on, or none yet,
  and who printed a port was served for the slot of its source, so before the
  traffic one source has one port. `ReplyInv`: from the first packet of the source
  on, `srcpt` is the port that the last one came from, `pkt` the packet, and before
  it `srcpt` is the port the child listens on; so wherever a datagram of the send
  socket comes from and whenever, `RepliesReachSource` says where it goes.

  `StatsCorrect` relates what was sent on to a source's destinations to the counts
  of its slot, where one destination may have several hops and a hop may be added
  at any time. For a source without a slot nothing was sent, and a slot without a
  source counts 0, as its child drops every packet: so a takeover adds nothing. A hop
  that is stored but not published, or not stored yet, counts 0 as well; a forward
  adds one element to the counted set of one destination. What arrives is no
  more than what is sent. The hypothesis is the one of the refinement: past the
  arrays a destination is overwritten and its old counts are printed for another.
* **Ping.** `SignalInv` is `TypeOK`, `SignalsMatchBuffer` and `LoopInv` (only the
  last ping is followed by the drain). An arrival adds a packet and either
  raises the signal or is counted as missed; a delivery passes the signal on to
  the handler; the handler's read takes one packet for one signal. `PacketInv`
  carries the two properties about time: a packet in flight, in the buffer or in
  the handler's hands is of a ping already stamped (`StampOK`, `FlightOK`), so
  the answer's time is not before it (`AnswerOK`), and the clock plus what is
  left to sleep is never less than a gap after the last ping (`SleepOK`).
* **MusicSessions.** `SessionInv` has the count (`CountOK`, which leaves room for
  the session being admitted), the place of each client (`PlaceOK`: in the
  backlog once, or served, or neither, which is why a client is forked for once)
  and the numbers given out (`NumberOK`). The bound follows from the count, as
  the children running are among those not reaped.

* **MusicStream.** `StreamInv` adds `ClientOK` and `RatesOK` to the types:
  `curr_ptr` is the cell `Q` after `playback_ptr`, and a signal pending has an
  interval in the buffer to read. The abstract queue is the `Q` cells from
  `playback_ptr` on, read around the end (`Ring`); the lemmas about `Ring` say
  that the two halves of a split copy are an append and a removal.
* **FileTransfer.** `TransferInv` relates sender, network and receiver:
  `CopiesOK` counts, for every block, the copies gone, in flight and still to
  be tried; `ControlsOK` the control packets; `WaitOK` and `OrderOK` say when a
  packet of one phase can be behind one of the other. One good copy is enough
  because on an ordered network what is in flight comes before the last block.
  `DropInv` adds what `dropornot()` has done to the copies of a block: those
  dropped and the drops its rules still have make up what they had, and a copy
  is sent only when they have none left, so the drops come first. Drops are
  counted as a set (`DropsOf`), a rule's drops being the pairs of the rule and a
  number, so that several rules for one block need no sum.
* **TunnelServer.** `DaemonInv`: a tunnelcli is in one place (`StageOK`), the
  children listen on different ports that their clients know (`PortsOK`), a
  child knows where the last packet of its source came from, or its own port
  (`RepliesOK`), and the slots in
  use are as many as the registrations that name a source (`SlotsOK`, by
  cardinality). The refinement needs no bound
  on the destinations: a slot has one. A path is added at the fork, for a request that
  was made, and a tunnelcli asks once.
* **TcpShell.** A connection is once in the listen queue, or served, or done
  (`PlaceOK`), a command belongs to the connection being served (`ChildOK`), and
  nothing was sent on a connection not made (`SentOK`). So the step that forks is
  the service's start of a command not started before, and no other runs.
* **FifoShell.** `LinesOK` follows a line through the two FIFO writes, the FIFO
  and the command being read: it is there once, or it was run. `OwnAnswer` needs
  client and server in step: `InStep` lists the ways they can stand while nobody
  was killed and no answer was cut (`Unread`, `Forked`, `Reading`); outside
  them only a `q` is under way (`Doomed`). The two hypotheses of `OwnAnswer` are
  needed: without either, TLC shows an answer of an earlier line.

  `AnswersLag` is about the disturbed shell and needs no such list. Lines come
  through FIFO A in the order they were typed (`OrderOK`). What may yet be shown
  is `Ahead` of an `open` of FIFO B or `Served` after one, and `LagOK` bounds how
  old it may be in each phase of the client: while a line is waited for it may
  be as late as kills and cuts, at the prompt it must be one line younger, because
  the line typed next may be shown it. A line that is answered to its end makes
  that one line good, unless the client was killed or cut it short, which is
  where the two counters step.

Liveness under fairness and `ENABLED` are out of the prover's reach. All
safety properties that a run checks are theorems; the liveness properties
(`Answered`, `SessionEnds`, `Finishes`, `SenderEnds`, `ReceiverEnds`,
`EndsOnceStarted`) are only model-checked. What their runs rest on in the state,
whoever is scheduled, is proved where it is not obvious:

* *Nobody is forgotten.* A tunnelcli or musac waits exactly as long as its
  connection is in the listen queue, with the parent, or (in the daemons) with
  one child that has not answered yet, and it is in one of these places once
  (`HeldOnce`). The TCP shell holds exactly the connections that are queued, read, or
  whose command runs, and an exit empties the queue (`OpenServed`). A waiting
  client for which nobody would ever close or write, the usual way to lose
  `Answered`, is excluded for any number of clients and forks that fail.
* *The other side is coming.* A client of the FIFO shell in `open` of the answer FIFO
  waits for a line that lies in FIFO A to its newline, or whose child is in the
  `open` opposite (`UnderWay`), whatever pieces of lines killed clients have left
  in front of it. The exceptions are those of `Answered`: without them TLC shows
  both sides waiting for each other.
* *A search ends.* `SearchEnds` is a pigeonhole: a child that looks for a port
  listens on none, the others listen on one each, and there is one for each slot.
* *A wait has its alarm.* In the file transfer an alarm is set exactly while its
  process waits for a packet (`AlarmsMatchWaits`): no wait is without one and
  none can end a process that is past its wait.
* *The end is told.* `'Q'`, or the end of the connection, is there for `musac` as soon
  as the child is through and not before; it closes only with the whole file
  sent and its buffer played, and fails only after a child that failed
  (`EndTold`).
* *What a failed fork costs.* Sessions that run and failed forks together are at
  most `MAX_SESSIONS` (`PlacesLost`), so `musas` admits one client fewer for each,
  for good.

Induction over data is out of reach too: what a recursive definition computes
for every input. No theorem here needs it, as the models count by cardinality
(`Counted`, `DropsOf`) where the code adds up.

## 5. Not modelled

* The local shells v1, v2 and v3: sequential loops of read, fork and wait on a
  terminal, with no state beyond one line. What v4 adds to them, the FIFOs and the
  second process, is `FifoShell`.
* The copies of ping and file transfer in `load_balancing_server` have the same
  control flow as the originals; the one difference is `waits`.
* Argument checks and error helpers: string checks and exits. Their effect is a
  request of kind `refused`, or a process that exits.
* File contents and sizes in bytes (an empty file makes `tripfr` read before its
  array), lines and names longer than the buffers, log and statistics text, the
  ALSA device, the client's own log in `musac`.
* The control law. `musac.c` divides by `BUFSIZE` where its README divides by
  `bufsize`, and nothing keeps the interval positive: claims about real
  arithmetic, not about states.
* The search for the second UDP port of a tunnel's child (the one that faces the
  destination): nothing reads it after `bind`, but `stats[5]` lies over it.

## 6. Plan

What is left, in order:

1. `TunnelChain`: two daemons in a row, as in the deployment of
   `load_balancing_server/README.md`, composed from two instances of
   `RelayService` with the routes of the first ending at the ports of the second.
2. Larger instances of `Tunneld`: three destinations for one source, with a
   bound on packets that keeps the run small.

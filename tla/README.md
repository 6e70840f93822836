# PCUTP in TLA+

Specifications, model-checking runs and proofs for PCUTP v2.1: a protocol that
lets a PicoCalc (a calculator that runs MMBasic) fetch files from the internet
over a serial line, through a daemon on a uConsole.

Paths below are relative to the repository: `src/pcutp/` is the Python package
(the daemon, and a client used by the tests), `picocalc/PCUTP.BAS` the program
on the device.

## 1. The system

Two single-threaded programs talk over a UART. Lines end in LF; the payload of
a `DATA` or `ZDATA` line is raw bytes counted by its header. Neither side has
anything but deadlines to notice that the other is slow, gone or did not hear.

| component | state | operations | talks to |
|---|---|---|---|
| Link (`link.py`) | input buffer, four one-bit counters | `send_line`, `recv_line` (with the idle loop: BEACON/MARK, PING/PONG, AYT?/HERE), `send_fin`, `await_fin`, `linger`, `recv_exact`, `discard_input` | every other part calls it |
| Handshake and session (`server.serve_once`, `_handle_hello`, `client.hello`, `PCUTP.BAS` 153-209) | negotiated block size, window, LZ4, identity; the pending request | HELLO / HELLO?, HRU? / OHRU, HRU, WHO? / IAM, GET, CLOSE | Link; starts a transfer |
| Flow-controlled transfer (`server.send_file`, `_send_window`, `_probe_receiver`, `_recover_window`; `client._receive`) | window base, next block, cwnd, attempts, recoveries, resets, tokens; the receiver's next block, running CRC, drops | META/READY, DATA, ACK/NAK/DROP, BARRIER/RESUME, AYT?/HERE, RST/RST-ACK, DONE/OK | Link; the receiver's files |
| Stop-and-wait transfer (`server._send_block`) | attempt, timeouts | DATA, ACK/NAK | the same receiver |
| Receiver's files (`client._receive`, `_write_rmb`) | `.PART`, checkpoint, final file | write block, checkpoint, `os.replace` | the file system |
| Teardown (`link.py` 283-346, `server` 138-147 and 166-190, `client.close`, `PCUTP.BAS` 458-498) | which half is closed, attempts, deadline | CLOSE, BYE, linger | Link |
| Daemon (`daemon.py`) | the port, `lost_streak`, the control socket | `run_serial`, `reconnect`, `wait_for_port`, `shutdown` on interrupt | PcutpServer |
| Compression (`compression.py`, `UnpackLZ4`) | none | `compress`, `decompress`, `worthwhile` | transfer |
| Negotiation arithmetic (`flow.py`) | none | `choose_block`, `options` | handshake, transfer |
| Names and checksums, fetcher, transports, sound | a table; an HTTP request; a port; a queue and a thread | | |

What is hard about it:

* **Lateness.** Every wait has a deadline, and every answer can come after it.
  The answer to the last question is then the first thing read after the next.
* **Loss and damage.** Lines and frames vanish; only DATA payloads have a
  checksum of their own. A frame that loses bytes takes the next line with it.
* **Both ends repeat.** Retries by one side meet retries by the other: greetings,
  HRU, probes, barriers, CLOSE.
* **A limit in every loop.** Attempts, timeouts, recoveries, drops and resets are
  counted separately, and whether a transfer ends or succeeds depends on how
  they combine.
* **Sessions share one wire.** What is left of one is the first input of the next.

What makes each component correct:

* *Transfer*: flights never overlap (the receive buffer holds one window); what is
  acknowledged is on disk; DONE is only sent to a receiver that has everything; a
  verified result means a verified file, whatever happened; bounded loss never
  costs the file; both sides end.
* *Handshake*: both ends agree on the terms; a session starts only when both are
  through; no lost line but WHO? stops the greeting; every wait ends.
* *Teardown*: an acknowledged CLOSE was heard; closing ends within a bound;
  nothing of it is left for the next session.
* *Keepalive*: a live link is never declared lost, a dead one is within a bound,
  also when only one direction is dead.
* *Stop-and-wait*: as the transfer, with one block.
* *Files*: the final name only ever holds a verified file; a checkpoint names no block
  that was not written before it, and nothing of a killed attempt survives into the next.
* *Daemon*: sessions run on the one open port; an unplugged cable is always waited for
  and never ends the program; a shutdown says what the peer can understand where it is.
* *Negotiation*: what the server proposes the clients accept, and no flight of any block
  size is larger than the buffer the client offered.
* *Compression*: `decompress(compress(x)) = x`; no input makes the decoder write
  beyond the declared size.

## 2. The modules

| module | models | checked by | proved in |
|---|---|---|---|
| `FileDelivery` | what a transfer promises, whichever way the blocks are sent | as a property of the next two | |
| `Transfer` | the flow-controlled transfer of one file, both sides and the line | `MCTransfer` | `TransferProofs`, `TransferFlightProofs` |
| `StopAndWait` | the transfer without FLOW, `.PART` and its checkpoint, GETs repeated | `MCStopAndWait` | `StopAndWaitProofs` |
| `Negotiation` | the terms of a session: block size, window, LZ4 | inside `Handshake` | `HandshakeProofs` |
| `Handshake` | the greeting up to the answer to the first GET | `MCHandshake` | `HandshakeProofs` |
| `Teardown` | the end of a session, in seconds | `MCTeardown` | `TeardownProofs` |
| `KeepAlive` | the idle session: beacons, probes and dead directions, in seconds | `MCKeepAlive` | `KeepAliveProofs` |
| `Daemon` | `run_serial`: ports, reconnect and shutdown around the sessions | `MCDaemon` | `DaemonProofs` |
| `Lz4` | the block codec | `MCLz4` | `Lz4Proofs` |

`Handshake` extends `Negotiation`. `Transfer` and `StopAndWait` each instantiate
`FileDelivery` under a refinement mapping. `Daemon` takes the other modules' subjects as
outcomes: a session there is only what the exception handlers tell apart.
The `MC` modules extend the specification and give names to the sets a `.cfg` cannot
spell. `PROJECT.json` maps the definitions that model code to their lines.

Conventions. A program that blocks in `recv_line` is between two actions: an
action is everything from the return of one `recv_line` to the next call, all
lines sent included. A phase variable names the call. The line is a FIFO queue
per direction. `setting`, a variable that `Init` chooses and nothing changes, holds what a
behaviour may meet: the kinds of faults, a bound on their number, and `prompt`. When
`prompt` is TRUE a deadline passes only if no answer is under way, which separates what
*loss* does from what *lateness* does; two deadlines of the code that a lost line makes pass in
the same second (`due` and `silence` below) may do so in either order all the same. When it is
FALSE any deadline can pass first. One
run explores all settings of its `MC` module, and a property that needs one says so
(`Recoverable`). A definition whose comment calls it a mutant is the same operator with a
plausible bug; each property of a passing run is violated when one of them takes its
original's place.

### FileDelivery

* `copy` is what `.PART` holds, `holder` what the receiver made of it (writing, verified,
  installed, stopped), `report` what the sender claims. Writing appends the next block or
  starts anew; only the whole file is verified, only a verified file installed, and
  `verified` is reported only of a file that its receiver has verified.
* `Transfer` and `StopAndWait` map `copy` to `part`, `holder` to `rPhase` and `report` to
  `result`. In `StopAndWait` a block left over from an earlier GET maps to a number that
  no block has, so that a mixture of two attempts is no beginning of the file.

### Transfer

* `phase` is the sender's `recv_line`: `ready` (after META), `ack` (`_send_window`),
  `guard`/`reguard`, `probe`, `reset` (`_probe_receiver`), `resume`, `restart`
  (`_recover_window`), `done` (after DONE).
  `base`, `nextSeq`, `cwnd`, `cleanAcks`, `attempts`, `recoveries`, `resets`,
  `token` and `resetToken` are the variables of the same names in the code.
* `rPhase`, `expected`, `part`, `drops`, `rResets` are the receiver's. `part` is
  what was written to `.PART` and is what the running CRC covers; `metaOk` says
  that META arrived undamaged. The comparison with META at DONE is `FileVerified`.
* `Fill` is a whole pass of the window-filling loop: it sends every frame the
  window allows, and stops at a block that was sent too often. `Interpret` is the
  reply dispatch of `_send_window`; the `Recv...` and `...Timeout` actions are one
  per wait and outcome.
* Faults: lose, repeat, garble a line or frame, corrupt or shorten a payload; the
  disk fails; the receiver stops.
* Data: a block is its number; a payload is good, `BAD` (wrong CRC or not
  decompressible) or `SHORT` (bytes missing, so that the raw read swallows what
  follows or waits).

### StopAndWait

* `phase` is `ready`, `ack` (inside `_send_block`) or `done`; `attempt` and `timeouts` are
  its two counters, both of which the code compares in the same loop.
* `silence` counts the sender's deadlines (12 s) since the receiver entered its `recv_line`,
  whose own is `Patience` = 2 of them (24 s, `client.py` 214-216). With prompt replies
  `RecvTimeout` is possible when the sender has ended, and when the second send of a block was
  lost as well: then its next deadline and the receiver's are the same second and either comes
  first. `setting.inARow` says how many lines in a row may be lost without the receiver
  hearing one.
* The receiver is followed through its writes: `opening` (READY is said, nothing opened),
  `open` (the checkpoint is written, `.PART` not yet truncated), `data`, `saving` (a block
  is written, its checkpoint due), `closed` (OK is said), `renamed`, `installed`. Between
  any two of them it can be killed or its disk can fail.
* A block in `part` is `<<GET, number>>`: what an earlier request left is told apart from
  what this one wrote. A killed receiver keeps any prefix of `part`, since the file is
  buffered.
* `GetAgain` is the next session's GET of the same file, with the disk as it was left.

### Teardown

* For each side `phase` says whether it is in session, in `send_fin`, `await_fin`,
  `linger`, waiting for a HELLO or gone; `role` who called: `hangup`
  (`PcutpClient.close`), `answer` (`serve_once` after it read CLOSE) or `shutdown`.
* Time is a number of seconds to each side's deadline. `Tick` waits for every
  readable line to be read and every passed deadline to be noticed: a line takes
  milliseconds where the deadlines are seconds. `spent` counts since closing began.
* `heard` is a history variable: the peer has read this side's CLOSE. `stray` is
  set when a CLOSE is read as the first line of a session (`RecvFirstLine`).

### Negotiation and Handshake

* An offer is a record of the five options that are negotiated; `Proposed` is what
  `_handle_hello` makes of it and of the server's configuration, `Accepts` the clients'
  check, `CanServe` the exception for a buffer without room for one frame. `ChooseBlock`
  is `choose_block`'s cost comparison, in integers: costs are in sixteenths of what a byte of the tail costs.
  `BlocksFor` has both the sizes `send_file` may take, as whether the data compresses is
  not modelled.
* `cPhase`/`cTries` and `sPhase`/`sTries` are the waits and loop counters of the two
  sides; `peer` is the device at the end of the line: `python` (`client.py`), `basic`
  (`PCUTP.BAS`) or `plain` (a peer that does not offer IDENTITY, for which the server
  has a path of its own). `Dial` starts the client program, first or again, with any
  offer that this client can make.
* A line is `<<kind, options, IDENTITY offered>>`.
* All deadlines are the same 10 s, and two ends that wait began to when one line went from
  one to the other. So when one of them passes with nothing under way, the other passes too, or
  what the first one sent comes before it: `due` names the side that still has this choice.
* `Refuse` is `_fail` and a return; `Dropped` is an exception that reaches
  `run_serial`, which discards the input.

### KeepAlive

* The server is in `recv_line` with a `KeepAlive` (`sPhase` is `idle`), or waits for READY
  after it announced a file (`get`), or has left: `lost` (`LinkLostError`), `failed` (an
  exception), `over` (a reply other than READY, or the transfer). PCUTP.BAS is at its
  prompt (`InputAlive$`), waits for META, has sent READY, or started again.
* `ages` are the clocks `last_rx`, `last_ping`, `last_beacon` and `last_beacon_mark` as
  seconds since then, capped at the largest value they are compared with; `probe` holds
  `outstanding`, `probes_sent`, `beacon_waiting` and `marker_probes`; `bits` the three
  alternating numbers of the Link. A `RecvX` action is one line read; `IdlePass` is what
  one pass of the loop does when nothing is there: beacon, then marker probe, or idle
  probe, or `LinkLostError`.
* `Tick` is one second. It waits until what is due is done and until no line is older than
  `Latency`. A direction may go dead (`Cut`) while both sides are idle, the bridge may
  echo what the server sends, or lines may be lost: one kind of trouble per behaviour,
  since together they allow any outcome.
* `cutFor` is a history variable: seconds since the first direction died.

### Daemon

* `phase` is where `run_serial` stands: in a session (`greeting`, `asking`, `fetching`,
  `sending`, `raw` for the middle of a payload), in recovery (`draining` is
  `discard_input` on the old port, `waiting` and `opening` are `reconnect`, `spliced` is
  `discard_input` on the new port), in `shutdown` (`closing`, `lingering`) or `over`.
* `transport` is `run_serial`'s local variable and `linkT` is `link.t`: `reconnect` changes
  the second and the caller assigns the first from its return value. `open` and `live` say
  which `SerialTransport` objects hold a port and which of those ports still exist.
* `port` is the device path. `Plug` takes two steps: a path that exists cannot be opened
  at once (`enumerating`).
* Each handler of `run_serial` is an action: `LinkLost`, `TransferFailed`, `PortDead`,
  `WriteStalls` and `FetchReset` (three ways to the same handler), `FetchBroken`.
* `struck`, `said` and `exit` record where Ctrl-C struck, what `shutdown` wrote first, and
  how the program ended.

### Lz4

* `phase` says which loop runs: `compress`, `decompress`, or `copy` inside a match. `pos`,
  `anchor`, `output`, `source` are the variables of those names, `packed` the compressed
  block, `seen` the keys of the encoder's table by their last positions.
* One action per pass of a loop. The four numbers of the format that are powers of 16 come
  from `Base`; its lengths are constants.
* `UnpackLZ4` of PCUTP.BAS makes the same checks, the offset before the match length. Both
  orders refuse the same blocks.

## 3. The runs

| run | question | bounds | states | result |
|---|---|---|---|---|
| `transfer_line` | what lateness with two faults, three losses with prompt replies, and two faults of any kind can do | 4 blocks, window 2, 3 retries, 1 reset, 1 probe | 1 851 000 | passes |
| `transfer_late_here` | is a refused file refused by both | 3 blocks, no fault | | violated |
| `stopwait_files` | does a stale, partial or unverified file survive crashes and repeated GETs | 3 blocks, 3 retries, checkpoint every 2, 2 GETs, 3 faults of any kind, or 2 losses with prompt replies, in a row or not | 179 000 | passes |
| `teardown_lossy` | do both sides end, in time | 3 s, 3 attempts, 2 s linger, 8 losses | 45 000 | passes |
| `teardown_lost_bye` | is one lost line enough for a stray CLOSE | linger 2 s, 1 loss | | violated |
| `handshake_line` | does a lost line stop the greeting, do both agree, does every flight fit, what can lateness do | 4 attempts; with prompt replies 3 starts and 3 losses, or 1 start of each client and 2 losses of anything but WHO?; 2 starts and 1 loss with late ones; 5 offers | 249 000 | passes |
| `handshake_lost_hru` | is a lost HRU sent again by the BASIC client | 1 lost HRU | | violated |
| `keepalive_idle` | is a live link kept and a dead one found | interval 3 s, timeout 9 s, 2 retries, beacons after 2 or 10 s, 1 s latency, 3 losses | 1 538 000 | passes |
| `keepalive_blame` | is the right direction blamed | the shipped constants, one direction dead | | violated |
| `daemon_cable` | does a session always run on the one open port, and does the daemon always come back | 3 transports, threshold 2; cable, peer and user unbounded | 6 400 | passes |
| `daemon_idle_stop` | is a peer told CLOSE when the daemon is stopped between transfers | the same | | violated |
| `lz4_blocks` | does every block come back, and does damage stay harmless | all blocks of 2 values up to 9 bytes, far matches 79 to 81 bytes back, base 3, 1 damaged byte | 304 000 | passes |

Why the bounds are enough. A window of 2 is `MAX_WINDOW`; four blocks give a
first, two inner and a last flight, with the window opened after one
acknowledgement (`FLOW_GROW_ACKS` is 1 there) so that pipelining happens at all.
Where loss has to be recovered, the retry limits are as large as the number of
faults, because that is the claim; with late replies the other limits (one reset, one probe) are reached.
In `stopwait_files` three blocks with a checkpoint every two give one due by number and one at the
end of the file, and two GETs are the least that show a stale `.PART`. The teardown runs
use the real constants; eight losses there reach every attempt of both sides.
Losses in a row are bounded apart from their number: one by one they are recovered, two in a
row show the receiver's 24 s. In `handshake_line` two losses are the most for which
`GreetingSurvives` speaks with four attempts, and 3 starts show a client that is stopped and
started again with another offer. The offers are those of the PicoCalc, of a client with room for exactly
two frames and of one with a byte less, of one without FLOW, and of one whose buffer holds
no frame; the server's block size of 2000 is none of the measured ones.
In `keepalive_idle` the order of the
constants is that of the code, with smaller numbers: beacons either come before the
first probe, which is the shipped setting, or after the last, which is the only way to
the branches for a silent line; three losses are one more than the idle probes and as
many as the marker probes, so both limits are reached. In `daemon_cable` two transports
exist at once during a splice and a third would show a leak; nothing else needs a bound,
as the streak of losses is only compared with the threshold. In `lz4_blocks` a nibble is full
at 2, a byte at 8 and an offset at 80: nine bytes reach literals and matches with
continued lengths, and the far blocks have their match one below, at and one above the
largest offset.

What the passing runs show:

* **OneFlight**: unread frames are blocks of the current window, in order. It breaks
  when a NAK is answered by sending again at once, without a barrier.
* **AckedIsCommitted**: the sender's base never passes the receiver's, except while
  a full-file reset is under way. It breaks when a reset keeps the sender's position. A line
  that repeats frames is excepted: repeats are gaps, enough gaps make the receiver start
  over, and the one `RST 0` that says so can be lost (four faults reach that).
* **DoneMeansComplete**: the receiver's error path for an incomplete file cannot be
  reached, whatever the line does and however late the receiver is.
* **NoResetWithoutRepetition**: nor can its path for repeated gaps, over a line that does
  not duplicate: one lost `RST 0` of the receiver would end the transfer. It needs a window
  of at most `MAX_DROPS` blocks, which `TransferAssumption` states (the code has 2 and 3).
* **Termination**, **HandshakeEnds**, **ClosingEnds**: no combination of deadlines,
  retries and resets goes on for ever.
* **LossIsRecovered** (both transfers): as many faults as retries cost time, not the file;
  without FLOW only as long as no two lines are lost in a row (see below). The
  stop-and-wait form breaks when a repeated block is not acknowledged again, and when the
  receiver waits only as long as the sender does.
  `timeout` is allowed because META, READY, DONE and OK are never repeated. Lost payload bytes
  are outside this claim: with window 2 the raw read takes the second frame's header
  and the receiver raises, which `client.py` accepts.
* **VerifiedMeansReceived**: also with garbled META or DONE, repeated frames, a full
  disk or a receiver that stops. The file is complete in `.PART`; whether the rename
  that follows OK succeeds is not promised.
* **DeliversFile** (both transfers): every step is a step of `FileDelivery` or changes
  nothing it speaks of. It breaks when `.PART` is opened to append, or a restart keeps it.
* **NoGap**: without FLOW the receiver is never sent a block beyond the one it expects, so
  its answer to a gap, which `_send_block` does not understand, is never needed. It breaks
  when the number of an ACK is not read: the late ACK of a repeated block then
  counts for the next one.
* **CheckpointTrails**: a `.PART` that a killed receiver leaves has a checkpoint beside it,
  which names no block that was not handed to `.PART`, and while the receiver lives the
  checkpoint is behind by less than one group. It says nothing of how much of `.PART` a kill
  leaves: see below.
* **AckedIsHeard**, **EndsInTime**: see the proofs.
* **SessionMeansAnswered**: the server never takes requests from a client that still
  waits for WHO?, with lines as late as they like. The run starts each client twice; see
  the proofs for any number of starts, and for the one client that four are enough for.
* **Agreement**, **FlightFits**: checked with prompt replies. With lines later than their
  deadlines and a server that used up its attempts on stale greetings they fail: a client then
  acknowledges a repeated proposal without reading its terms (`client.py` 122-125).
  `FlightFits` breaks when `choose_block` may take a size above the negotiated limit.
* **GreetingSurvives**: with prompt replies, losing any lines but WHO?, fewer than the attempts
  less one, never makes a client fail while it greets or waits for WHO?, although both
  10 s deadlines may pass together and both ends repeat and cross. It speaks of clients that
  are started once. PCUTP.BAS waits for WHO? once and goes on whatever comes; a peer without
  IDENTITY is not asked.
  It breaks when `client.py` does not send HRU again. `LostLineIsRecovered`, the stronger
  claim of the code's comments, is false for both shipped clients: for PCUTP.BAS the run
  `handshake_lost_hru` shows it, for `client.py` see below.
* **LiveLinkKept**, **DeadLinkFound**, **DeadLinkEnds**: a link that works is kept through as
  many lost lines as there are probes of the kind in use, and a dead direction is found
  after all of them at the latest, also when the other direction, or the server's own
  echo, keeps bytes coming. They break when a limit is off by one, or when hearing a
  beacon is taken for being heard.
* **GetSurvives**: HERE is a reply like any other once a file was announced, and reading it
  where READY is expected drops the download. It takes three lost lines before that.
* **OnePort**: it breaks when the old transport is not closed before `reconnect`. With exclusive
  ports that is not a leak but the end: no open would succeed again.
* **NoLineIntoAFrame**: it breaks when `serve_once` clears its flags in a `finally`, which is
  what a reader who sees the finding below may want to do.
* **CableNeverStops**: it breaks when `discard_input` lets the `OSError` of a dead port pass.
* **Reconnects**: it breaks when the value of `reconnect` is not assigned, as `run_serial` then
  closes a transport that is closed already.
* **RoundTrip**, **EndsInLiterals**: the codec restores every block, continued lengths of
  zero, overlapping matches and matches at the largest offset included.
* **WithinBlock**, **CodecEnds**: with any byte changed or the end missing the decoder stops,
  inside the buffers. The first is proved for any damage.

What the violated runs show (`findings` in `PROJECT.json` quotes the lines):

* `transfer_late_here`: the ACK of the last block is late, the sender probes, ACK and
  HERE arrive in this order, the ACK ends the probe and HERE is the first reply to
  DONE. The loop there skips late ACK and RESUME but takes HERE as the verdict: the
  daemon reports a CRC mismatch for a file the client has installed.
* `teardown_lost_bye`: with a linger of 2 s and a resend interval of 3 s, one lost BYE is
  enough for a CLOSE to be read as the first line of the next session.
* `handshake_lost_hru`: the server keeps its proposal alive for a lost HRU, and
  `PCUTP.BAS` never sends a second one.
* `keepalive_blame`: with beacons faster than probes a beacon is always unmarked when a probe
  is due, so the marker probes always come first. A link whose receive direction is dead is
  reported as "TX path failed: peer BEACONs arrived", after 25 s where `const.py` says
  about 20 s; the other message cannot be reached.
* `daemon_idle_stop`: `serve_once` clears `_transfer_active` for a `PcutpError` only. After a
  fetch whose connection was reset, or a port that died in a transfer, the flag is still
  set when the next session idles; a Ctrl-C then sends ERR RETRY instead of CLOSE.

Seen while modelling, and checked by no run:

* one lost HRU is enough to fail the first request of `client.py`: both 10 s deadlines pass
  together, its second HRU and the server's OHRU cross, the OHRU draws a third HRU, that
  one a second WHO?, which is read in place of FETCHING (by a peer without IDENTITY, an OHRU). A
  lost WHO? may fail its greeting: the server may give up waiting for IAM in the same second in which HRU is sent again;
* without FLOW, two lines lost in a row (the same DATA frame twice, or an ACK and the frame
  that is sent for it) end a transfer that has retries left: the receiver's 24 s pass as the third
  send leaves;
* an AYT? that the bridge echoes is taken for a request and refused;
  PCUTP.BAS never repeats a BEACON whose MARK was lost; `KeepAlive.timeout` decides nothing,
  since the branch after it gives up under a weaker condition;
* the CRC of a block does not cover its number, so a damaged number passes; the checkpoint
  can be ahead of what a kill leaves on disk, as `.PART` is buffered (nothing resumes from it);
* `lost_streak` is cleared only by a `serve_once` that returns, so two losses far apart,
  with good sessions in between that each ended in an exception, close the port; after a
  reconnect for a loss the first further loss does. `--idle-timeout` counts as a loss, too;
* an `HTTPException` of a fetch is neither a `PcutpError` nor an `OSError` and ends the
  daemon; a Ctrl-C while it waits for the cable makes `shutdown` write to a closed port, and
  the `SerialException` leaves `run_serial` (`CableNeverStops` says that nothing else does);
* `discard_input` reads until the line is silent for a moment, however long that takes.

## 4. Fairness

`Transfer` and `StopAndWait`: weak fairness of the sender's and of the receiver's steps. Both
programs are loops around `recv_line` with a deadline, so each is always going to return
from the call it is in. Nothing is assumed of the line, and nobody is obliged to ask again.
`Teardown`: weak fairness of the programs' steps and of time.
`Handshake`: weak fairness of the client's steps after it was started and of the
server's; `client.py` also asks for its file once it is connected. Nobody is obliged to
dial, to restart or to type GET. The idle server waits
for as long as it likes: that is no wait of the handshake.
`KeepAlive`: weak fairness of both programs' steps and of time; nobody is obliged to type.
`Daemon`: weak fairness of the process: a read of a dead port raises, `wait_for_port` polls,
a silent line ends `discard_input`, `shutdown`'s waits are timed. Nothing is assumed of
the peer, the cable or the user; `Reconnects` speaks of a cable that stays plugged in.
`Lz4`: weak fairness of the codec, a loop that nothing interrupts.
The violated runs use no fairness: their properties are invariants. Deadlock checking is
off because all these systems stop: a transfer ends, a session closes, a user leaves the
client at its prompt, a link is given up, a daemon is stopped, a block is done.

## 5. What is proved

For every value of the constants that satisfies the assumption named in each module
(counts are natural numbers, and positive where a loop needs one pass):

* **TypeCorrect** (`Transfer`): `Spec => []TypeOK`. The types are inductive. Each outcome
  the sender's actions are built from (`Fail`, `Fill`, `StartBarrier`, `RestartFile`,
  `Acknowledge`, ...) has a lemma, and an action follows from its outcomes. The
  bounds on `base`, `nextSeq`, `recoveries` and `resets` are in it.
* **VerifiedIsReceived** (`Transfer`): `Spec => []VerifiedMeansReceived`, for any faults in
  any number. The property itself is not inductive: a sender may read an OK long after
  it was sent. The strengthening `VerdictInv` says that an OK that is under way, or
  read, was sent by a receiver that compared the whole file with an undamaged META,
  and that has left the file alone since.
* **TransferDelivers** (`Transfer`): `Spec => DeliversFile`, the refinement: the initial state
  maps to one, and each action to a step of `FileDelivery` or a stutter. It needs
  `VerdictInv` for the sender's report, and that `part` is a beginning of the file.
* **FlightsDoNotOverlap**, **AcknowledgedIsCommitted**, **ReceiverNeverResets**
  (`Transfer`): `[]OneFlight`, `[]AckedIsCommitted` and `[]NoResetWithoutRepetition`, with any
  number of lost, damaged, shortened and garbled lines and any lateness. One invariant,
  `FlightInv`, carries all three. It says of every frame under way that it is the block the
  receiver expects or lies beyond all the gaps counted so far; of every pair of lines which
  may be ahead of which; and, its heart, that only BARRIERs follow the current BARRIER. When its
  RESUME is under way, nothing else is left on the line to the receiver, so the
  position in the RESUME is still the receiver's when the sender starts from it, and no ACK
  of the old flight is behind it. Gaps stay below the window because each is a different
  block of it. `FillKeeps` is the lemma for a new flight, `SenderSpeaks` for every sender
  step that starts none, `ReceiverKeeps` for a step of the receiver or a fault.
* **VerdictOfWholeFile** (`Transfer`): `[]DoneMeansComplete`, on every line, those that repeat
  frames included. Repeats break `FlightInv`: they make gaps, and gaps make the receiver start
  over. `WholeInv` keeps what DONE needs of it: while the last ACK is under way the file is
  complete, unless the sender has asked for a reset; while DONE is, the file is complete; no
  RST is ahead of DONE; and when a reset is over no ACK of the old file is left. A repeat
  stands next to its original, so nothing about the order of lines is lost.
* **LossesAreRecovered** (`Transfer`): `[]LossIsRecovered`, for every file, window and limit.
  `LossInv` charges the sender's counters to the faults: every recovery, probe and repeated
  barrier since the last progress has a fault of its own, and every reset `ProbeRetries + 1`
  of them. It stands on `FlightInv`, which says which answer is still under way: while one
  is, a prompt line brings it before the deadline, so no pass is counted. With
  `MaxResets` resets charged, the faults of one more do not fit the budget. That is what
  the last conjunct of `Recoverable` says; with the constants of `server.py` it follows from the
  others.
* **StopAndWaitTypes**, **NoBlockIsAhead**, **StopAndWaitDelivers** (`StopAndWait`): the types,
  `[]NoGap` and the refinement of the same `FileDelivery`, with kills, failing disks and any
  number of GETs. The argument is `NoGap`: what is acknowledged was written, so the sender is
  at most one block behind the receiver; the frames under way are of the blocks the receiver
  has or expects; and what it wrote since `.PART` was opened is the beginning of the file.
* **CheckpointIsBehind** (`StopAndWait`): `[]CheckpointTrails`, for every interval between
  checkpoints. The checkpoint of a receiver that reads on is the largest multiple of the interval
  not above what it has written, or the whole file; whatever ends it, the checkpoint stays at or
  below that, and is there as long as a `.PART` is. What is left of the writes in that `.PART` is
  no part of the theorem.
* **FaultsAreRecovered** (`StopAndWait`): `[]LossIsRecovered`. `Recovering` follows the one line under
  way through every phase: the attempt number is at most the faults so far, and below
  them when nothing is under way, so a deadline always finds a pass left. `silence` is in it,
  too: when it is 1, the line that replaces a lost one is under way and is not lost, so the
  receiver's deadline is never reached while a block is being sent.
* **ProposalsAreAccepted**, **AnyBlockFits** (`Negotiation`): for every offer and every server
  limit, a client with a buffer for one of its blocks accepts what is proposed, and a full
  window of blocks of any size up to the limit fits. They are lemmas on integer division:
  the capacity times the frame size is at most the buffer.
* **GreetingTypes**, **BothAgree**, **FlightsFit** (`Handshake`): the types, and `[]Agreement` and
  `[]FlightFits` for any number of losses, starts and kinds of client. `Exchange` lists what
  can be under way with prompt replies, both ends repeating at once included: every answer carries
  the terms the server has, and at most one greeting is left once a client has accepted, which the
  server reads in the proposal those terms come from. `FlightFits`
  follows with `ChosenBlock`: the cheapest candidate of `choose_block` exists and is
  within the limit, for any costs and sizes.
* **SessionIsAnswered** (`Handshake`): `SessionMeansAnswered` with any lateness, losses and
  starts of `client.py`. `Turns` is an invariant about the order of lines: no greeting is
  ahead of an IAM unless the server will drop both, no deadline of the client is the second of
  two while a WHO? is due, and none of the server's with an IAM under way. It fails for PCUTP.BAS with late
  replies, and so does the property: a reply that is no proposal makes it greet again, the
  greeting gets ahead of the IAM, and a fourth start reads the proposal to it. Its theorem
  therefore asks for prompt replies there.
* **GreetingGetsThrough** (`Handshake`): `GreetingSurvives`, for every number of attempts, offer
  with room for a frame and kind of client. `Surviving` lists what can be under way while a
  client greets (`Calling`) and while it waits for WHO? (`Presenting`), crossing lines included,
  and bounds the passes of both loops by the lines lost so far (`Cost`). When nothing is under way
  no pass has been used but for a loss. What one deadline or both send then costs each loop one
  pass more, or two, until it is read or lost; a second round of it would need a second loss. So a
  loop needs a pass for each lost line and one or two for what crosses, and `HELLO_RETRIES` has
  to be above the number of losses by two. A client waiting for WHO? is never without a line under
  way once the server has asked, as WHO? is not lost: that is why no deadline fails it.
* **DaemonTypes**, **SessionsOwnThePort**, **ShutdownRespectsFrames**, **CableIsSurvived**
  (`Daemon`): the four invariants, for any number of transports and any threshold. They
  are strengthened by what the phases say of the open ports: none while the daemon waits or
  opens, only `link.t` after the splice, only `transport` before; by what a transfer's phase
  says of the two flags; and by what an exit says of where Ctrl-C struck.
* **IdleTypes** (`KeepAlive`): the types, for every interval, limit and latency.
* **RequestSurvivesProbes** (`KeepAlive`): `[]GetSurvives`, for every interval, limit, number of
  losses, echo and cut. `ProbeInv` keeps an account of the diagnosis: on a link without a dead
  direction each marker probe is paid for by a lost line, unless its beacon's receipt or its
  answer is still under way and in time. The third probe, the first AYT?, needs three
  losses or a dead direction to the server, and on that one no HERE arrives. The theorem assumes
  `QuickAnswers`, that a question and its answer take less than an interval: 5 s in `const.py`, of
  programs that poll the port all the time. Without it an AYT? is sent for a late PONG.
* **DeadLinksAreFound** (`KeepAlive`): `[]DeadLinkFound`, for every interval, limit, latency and
  echo, again with `QuickAnswers`. `DeadInv` relates the seconds since the cut to the clocks of
  `recv_line`. Until the first beacon without a receipt the beacon's clock ran all the time;
  from then on the probe's clock, once per marker probe. A clock starts again only for a line the peer
  sent before it was cut off, which is at most `Latency` old, and never for an echo. The
  server's last word to the program bounds `PicoBound`.
* **LiveLinksAreKept** (`KeepAlive`): `[]LiveLinkKept`, for every interval, number of retries,
  beacon and echo. `KeptInv` says what each way to declare the link lost costs. Every AYT? of the
  diagnosis has a lost line behind it, and so has every PING of a silent program, but one line less
  as long as the program calls: it has a beacon, the receipt for one or its request under way, or
  its beacon's clock runs (`Calls`). A call can only be late by `Grace` and two latencies, so before
  the last PING goes unanswered it is lost as well. `HeardInTime` bounds the silence
  of the program by an interval per lost line. The theorem assumes `QuickAnswers` and
  `PatientProgram`: the program beacons before the server's probes are used up, and its
  own timeout is longer than the retries, two intervals and two latencies. With `const.py` and
  `PCUTP.BAS` (5 s, 3 retries, BEACONMS 4 s, KATMO 30 s) both hold for every latency up to 2 s:
  `4 <= 3 * 5` and `2 * 2 + 5 * 5 < 30`. Other options of the daemon may break the second, and the
  property with it: at `--keepalive-interval 10` the program restarts after four lost lines,
  which is as many as `Tolerated` allows.
* **AcknowledgedIsHeard** (`Teardown`): `Spec => []AckedIsHeard`. Strengthened by
  `AnswersAreEarned`: a BYE on the line also proves that the CLOSE was read. A BYE is
  only ever sent by somebody who has just read CLOSE, and `heard` is never taken back: a
  `send_fin` that is started over another one may be confirmed by the answer to the first.
* **ClosingIsBounded** (`Teardown`): `Spec => []EndsInTime`. Strengthened by `OnSchedule`:
  the seconds spent and `Remaining`, the seconds the phases still ahead may need, never
  exceed the bound together. A tick moves one second from one to the other; a change
  of phase or a new attempt never raises `Remaining`.
* **TeardownTypes** (`Teardown`): `Spec => []TypeOK`, from the same invariant.
* **CodecTypes**, **DecoderStaysWithin**, **MatchesEndEarly** (`Lz4`): `Spec => []TypeOK`,
  `[]WithinBlock` and `[]EndsInLiterals`, for every base, every block and any number of
  damaged bytes, so also for the real numbers 16, 4, 12, 5 and 12. `CodecInv` adds where the
  encoder may stand and that bytes are left to copy only inside a match. A found length
  is the least element of a set (`LeastElement`), which is all that is needed of the scan.
* **BlocksAreRestored** (`Lz4`): `Spec => []RoundTrip`, for every base, block and shortest match.
  `TripInv` says that what compress has written is a chain of places, each a position in the
  compressed block and the position of the block it stands for, with one sequence between a place
  and the next; and that the decoder is at such a place, with the block restored
  that far, or inside a match that repeats the block. A place only needs to have a successor, so
  nothing is counted and no induction over the block is needed. `LengthRead`, `TokenRead` and
  `PairRead` say that each field is read as it was written, overlapping matches included.

Only model-checked: all liveness (this prover does not reason about ENABLED). Every
invariant and every action property that a passing run checks is proved.

## 6. What is not modelled

* In the transfers: CLOSE during a transfer, blank lines, progress
  reports; the BASIC receiver where it differs from `client.py`; the decision to
  compress (the frame kinds behave alike); damage to a block's number; the checkpoint that
  `client.py` writes when it starts the file again at the sender's RST (226-236), as `.PCUTP` is
  modelled in `StopAndWait` only, where the sender never resets.
* In the teardown: `CloseSession` and `Linger` of `PCUTP.BAS`, whose deadlines differ, and
  `shutdown` in the middle of a transfer (its first line is in `Daemon`).
* In the handshake: malformed capabilities and wrong versions, the greeting tones, and
  `PCUTP.BAS` restarting itself out of `RecvLine$` when its link-loss clock runs out.
* In the idle session: the expected bit of the peer's beacons (it only feeds a log line),
  `RMB?`, losses during a request, and losses together with a dead direction or an echo.
* In the daemon: the control socket, the console, the options and the self test; a second
  Ctrl-C inside the `finally` clause; the new transport of a splice that Ctrl-C cuts, which
  is left to the end of the process.
* In the codec: `worthwhile`, an estimate of seconds in floating point, and the limit of
  4096 bytes (`MAX_BLOCK_SIZE`), which no negotiated block exceeds.
* `names.py` and `crc.py` are pure functions on characters and bytes; `sound.py` is tone
  synthesis with a playback thread and a queue of one; the benchmarks and `PCTEST.BAS`
  are bring-up tools. None of them takes part in the protocol.

## 7. What could follow

1. `Teardown` with the BASIC side's deadlines, `Transfer` with the BASIC receiver.
2. `Daemon` with the control socket's steps between two idle passes.

## 8. Running

```
tlc -workers 2 -config Transfer_line.cfg MCTransfer
tlc -workers 2 -config StopAndWait_files.cfg MCStopAndWait
tlc -workers 2 -config Handshake_line.cfg MCHandshake
tlc -workers 2 -config Daemon_cable.cfg MCDaemon
tlapm TransferFlightProofs.tla
```

The other `.cfg` files belong to the `MC` module of the same first name, and the other modules
with proofs are `TransferProofs`, `StopAndWaitProofs`, `HandshakeProofs`, `DaemonProofs`, `TeardownProofs`, `Lz4Proofs`
and `KeepAliveProofs`. `keepalive_idle` takes two to three minutes, `transfer_line` one and a half, every
other run less than one; the proofs take some minutes from nothing.

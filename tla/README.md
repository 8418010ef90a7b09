# A verification development of the xroe-app daemon and its platform

The repository is the software of a radio-over-Ethernet demonstration platform:
a daemon (`src/src/xroe-app`), two kernel drivers that export registers through
sysfs, a PTP timer driver, and scripts. The modules here model the daemon's
protocols, its commands, its main loop and its start, the registers and the
drivers behind them, and the link monitor; TLC checks them on small instances,
and TLAPS proves the results that matter most for every size.

## 1. Inventory

| Component | State | Operations | Interaction | What is hard |
|---|---|---|---|---|
| OWDM, one-way delay measurement (`ecpri_proto.c`, `ecpri.c`) | `owdm_req`, `owdm_msg` (one stamp), `owdm_result`, the socket's error queue | request to / from remote, four message handlers, `owdm_res` | UDP messages between daemons; time-stamps the network driver posts | crossed measurements, lost or late messages, stamps of other packets, restarts |
| Delay arithmetic (`ecpri_owdm_calc_delay`, `owdm_limit`) | the result's bytes, `ecpri_report_limit` | subtract, store, compare, trigger, show | attribute of the traffic driver | shifts of an int, sign, borrow, unsigned wrap |
| RMA and RMR, remote memory and reset (`ecpri_proto.c`, `ecpri.c`, `xroe_api.c`) | the command being waited for; the device's memory | read, write, reset; the target's handlers | UDP messages, `/dev/xroe/ip` | wait without timeout, any message ends it, late answers, peers that wait for each other |
| Main loop and connections (`xroe-app.c`, `comms.c`, `client.c`, `parser.c`) | `newsockfd`, open descriptors, the three sockets | accept, read, run, answer, end | UNIX and TCP clients, the eCPRI handler's return value | blocking reads, clients that leave, leaks, SIGPIPE, starvation |
| Start and end of the daemon (`xroe-app.c`, `comms.c`) | pidfiles, the socket file | create and remove them | other instances, whoever started them | crashes that leave files, a file that is another one's |
| Register and sysfs access (`xroe_api.c`, `ip.c`, `framing.c`, `enable.c`, `disable.c`, `restart.c`) | none | open, read or write, close | driver attributes | names and modes that do not match, errors that get lost |
| Statistics, radio control (`stats.c`, `radio_ctrl.c`) | cached values | read a list, format it | the same | one read of several fails |
| Framer and traffic drivers (`local-staging/xroeframer-driver`, `xtraffic`) | device registers | show, store (masked write) | daemon, shell, `devmem` | unlocked read-modify-write, number bases, failed initialisation |
| PTP timer (`xlnx-ptp-timer`) | offset and increment registers, pulse count | gettime, settime, adjtime, adjfreq, interrupt | ptp4l, hardware that runs on | torn reads, negative offsets, unlocked state |
| Start script and link monitor (`xroe-auto-start/runXroe.bash`) | lock status, count | sample, reset the MAC, heartbeat | `devmem` | repeated resets, races on registers |
| Register maps (`roe_framer_ctrl.h`, `roe_radio_ctrl.h`) | - | the place of each register; the drivers' and the daemon's address computations | drivers, daemon | strides that do not match the map |
| Administration scripts, image management, build | - | - | - | not modelled: lists of commands, file copying |

The daemon is single-threaded: a command, a message or an accepted connection
is handled to the end before the next. What interleaves is the handlers of
several nodes, the network, the stamps the kernel posts, the clients, restarts.
What makes each component correct, in short:

- OWDM: a stored delay is that of one packet; `owdm_res` says "pending" while,
  and only as long as, a measurement is under way.
- Arithmetic: what is shown is the difference of the two stamps; the test of the
  report limit is exact where the code's types let it be.
- RMA: a command is performed at most once, returns the answer to itself, from
  the node asked, and ends.
- Start: one daemon per port; clients reach the one that serves; a clean end
  leaves nothing.
- Registers: a store changes its own field, and only the register its file is
  there for; removing a driver takes nothing away under a store.
- Commands: a reply of 0 means what it says, but for accesses whose failure is not
  looked at, and every command ends.
- PTP timer: moves add up, a reading is never behind, remove leaves nothing
  running.
- Link monitor: the MAC is reset when lock stays lost, and only then, and the
  reset is released.
- Main loop: every client is served or told; connections do not leak; what
  another node sends does not disturb the clients.

The hazards of the code, each at its line, are listed in `PROJECT.json`
under `hazards` with the properties aimed at them.

## 2. Modules

| Module | Models | Code |
|---|---|---|
| `EcpriOwdm` | OWDM between any number of nodes | `ecpri_proto.c` 76-99, 280-354, 510-607, 781-839, 967-1058 |
| `EcpriOwdmMC` | symmetry for TLC | |
| `EcpriOwdmProofs` | theorems about `EcpriOwdm` | |
| `OwdmDelay` | the arithmetic, with word widths as constants | `ecpri_proto.c` 622-671, 1162-1180, `ecpri.c` 547-563, `xroe_api.c` 413-439 |
| `OwdmDelayMC` | a machine whose bytes have one bit | |
| `OwdmDelayProofs` | theorems about `OwdmDelay` | |
| `RemoteMemory` | abstract: what a remote memory command promises | |
| `EcpriRma` | RMA and RMR between any callers and targets | `ecpri_proto.c` 169-258, 439-489, 727-763, 857-949, 1076-1121, `ecpri.c` 125-432 |
| `EcpriRmaMC`, `EcpriRmaProofs` | symmetry for TLC; theorems | |
| `XroeComms` | the main loop, its three sockets and its clients | `xroe-app.c` 316-345, `comms.c` 263-358, `client.c` 51-114, `parser.c` 124-160 |
| `XroeCommsProofs` | theorems about `XroeComms` | |
| `XroeStart` | instances of xroe-app that start and end over the same files; the start script and its link monitor | `xroe-app.c` 146-180, 245-346, `comms.c` 81-246, 349-358, `runXroe.bash` 32-36, 155-226, `xroe-auto-start` |
| `XroeStartMC`, `XroeStartProofs` | the ways to start it; theorems | |
| `XroeCommands` | commands that reach registers, with drivers that come and go and accesses that fail | `stats.c` 429-521, `radio_ctrl.c` 127-226, 433-565, `xroe_api.c` 61-486, `framing.c` 172-276, `enable.c` 71-93 |
| `XroeCommandsMC`, `XroeCommandsProofs` | the register that changes; theorems | |
| `SysfsReg` | fields of registers, their files and their writers; the life of the two drivers | `sysfs_xroe*.c`, `xroe_framer.c` 49-130, `xroe_traffic*.c`, `framing.c`, `ip.c` 142-171, `runXroe.bash` 53-69 |
| `RegisterMap` | all registers and files, with their addresses (no state) | `roe_framer_ctrl.h`, `roe_radio_ctrl.h`, the attribute lists and the addresses of `sysfs_xroe*.c`, `framing.c` 59-126 |
| `RegistersMC`, `SysfsRegProofs` | `SysfsReg` on two fields of `RegisterMap`, and what is true of the map; theorems | |
| `PtpTimer` | the clock operations against running hardware, the interrupt, probe and remove | `xlnx-ptp-timer.c` 53-486 |
| `PtpTimerMC`, `PtpTimerProofs` | a clock with seconds of two units and words of two bits; theorems | |

### EcpriOwdm

`owdm_req`, `owdm_msg` and `owdm_result` are the three globals of each node.
`errq` is the error queue of `sock_ip`, `late` the packets whose tx stamp is
still to come, `net` what is in the network or in a receive buffer. A
time-stamp is abstracted to the event it stamps (packet, node, tx or rx), so
that "the delay is right" is "its two stamps are those of the departure and the
arrival of one packet". `sent`, `own` and the fields `ex`, `of` of a packet are
history: the program has no such identities. A stamp no one has written is
`ZeroStamp` (static memory) or `GarbageStamp` (an uninitialised local).

One action per handler: `RequestToRemote`, `RequestFromRemote` (commands),
`HandleReqFolUp`, `HandleFolUp`, `HandleResp`, `HandleRemReqFolUp` (messages),
`DrainErrQueue` (POLLERR in the main loop). `SendOther` stands for the RMA,
reset and test messages that leave through the same socket without their stamp
being taken off the queue. The environment may, as the constants `Faults` and
`LossyKinds` allow, reorder, lose, post stamps late, fail a send, and restart a
daemon. `Concurrent` says whether measurements may cross. One tx stamp per
packet and an rx stamp on each packet are assumed: that is the network
driver's business.

### OwdmDelay

Words are computed as the C expressions compute them: a byte is shifted as an
`int`, so that a bit that reaches its sign fills the word (`SignExtend`), and
bytes 4 and 5 are shifted by more bits than an int has (`Lows`: the bits vanish
or come back in the low bytes, as the build has it). The subtraction is modulo
the width of the word, and the limit, a `long`, is compared as an unsigned word
(`Over`). `tried` and `ila` tell that the code goes for the trigger and that it
gets written; the latter never happens.

### EcpriRma and RemoteMemory

`cmd[n]` is the command the daemon of `n` polls for, from the send to the
message that ends the polling; while it is set, `n` serves nobody. `GetResponse`
is that message: any eCPRI message, whoever sent it. `Serve` is the target's
handler with its read or write of the device and its answer. `HandleShort` is
the main loop meeting a datagram that is no eCPRI message: the type and buffer
are used unset, and the daemon gets by or dies. `ret` and `served` are history.
`RemoteMemory` promises a caller that, between call and return, the target
performs the command exactly once and the call returns what that performance
answered. The refinement maps "the target has performed it" to the presence of
a record in `served`.

### XroeComms

`daemon` is "poll", "read" (blocked in `read(newsockfd)`), "remote" (a command
polls the eCPRI socket for another node's answer) or "down". A client connects,
writes or leaves, and can be run again. `Fd0` is what `newsockfd` names before the
first connection: descriptor 0, which the daemon's connection to the log has got;
that a later connection may get the number after it was closed, and the log's
texts with it, is not modelled. `ReadNothing` is `read() = 0`,
`ReadFails` is `read() = -1`; `SendResponse` is `send_response` with the
SIGPIPE of a UNIX client that has gone. The eCPRI socket is abstracted to how
the handler of a message returns: 0, -1, a positive number, or anything.

### XroeStart

`stage[p]` is how far an instance of xroe-app has come in `main`: "start"
(before `skeleton_daemon`), "open", "bind", "ports" (in `open_connections`),
"serving", "closing", "unlinking". `pidfile` and `sockfile` are the shared
files; `RemoveSocketFile` and `CloseConnections` take the socket file away
whoever it is of, as the code does. The pidfile is named after what `-p` was
given and `ListenPort` is where that leads, as `open_connections` has it:
`XROE_COMM_PORT` when it was not given. `untidy` and `company` are history: what
the two properties about the files make an exception for. A script is at `pc`;
`blStatus` and `blNotSetCount` are its shell variables, `mac` the reset bit
both pulses write. `Crash`, `StopScript`, `Reboot` and `LockChanges` are the
environment. `Count` stops at `LIMIT + 1`, which is all the script's comparison
tells apart.

### XroeCommands

A status command is a list of items read one after the other (`StatsItems`,
`RadioItems`), each an open, a read and an assignment, that stops at the first
failure. `report` are the static variables behind the status; they outlive the
command, which is what makes stale values possible. Between two steps the
device, the traffic driver and the registers may change, and a device that can be
opened may still fail an access: an `ioctl` that fails ends the sweep
(`RefuseRegister`), a `pread` or `pwrite` that fails is noticed by nobody
(`Access`). The driver of `/dev/xroe/ip` is not in the repository; an access is
taken to carry a whole word or nothing. `shown` (what a register has had since the
command began) and `missed` (what the command did not read or write at the device)
are history. `reply` is what a command, or the sweep behind a status, returns;
the sweep's 0 decides whether a status is shown.

### SysfsReg and RegisterMap

A word is the set of its bits that are 1; a field is a range of bits of a word
(`Attr`). A store of the drivers and a `set_fram` of the daemon or of a script
are a read (`BeginStore`, `BeginRmw`) and a write (`EndOp`) with anything in
between, because no lock is taken. `Poke` writes a word, `Hardware` changes the
bits that are its own. `phase`, `todo` and `visible` follow a driver from probe,
through the groups of files it makes one by one and may fail to make, to
removal, where `kobject_del` waits for the stores under way. The history
variables tell which words were written in spite of a failed read (`blind`) and
which fields an overlapping write has touched (`kept`).

`RegisterMap` holds the generated headers as sets of registers, and for each
directory the files the drivers make and the address each of them computes.
`RegistersMC` states what must be true of the map once the files are made.

### PtpTimer

Times are counted in units of `1/NSEC` second; seconds are two words of `WORD`
values. The hardware (`Tick`, `Displacement`, `TimeOfDay`) is taken from the
driver's own comments: a ns offset that is added at all times, and a seconds
offset that is added once when the ns offset is written. A call takes the lock
and then does one register access per step: two reads for the time, three
writes for the offset. `adjfreq` takes no lock, and neither does the interrupt.
A caller that holds the lock has interrupts disabled, so that less than a
second passes between its two reads (guard of `Tick`). `want`, `at`, `moves`
and `stray` are history.

## 3. Runs

| Run | Bounds | Shows |
|---|---|---|
| `OwdmOneAtATime` | 4 nodes, 5 packets | `TypeOK`, `FollowUpCarriesItsTx`, `ResponseCarriesItsRx`, `ResultMeasuresOnePacket`, `PendingWhileUnderway` when measurements are kept apart, with failing sends, restarts and losses of anything but the request itself |
| `OwdmLate` | 2 nodes, 3 packets | under fairness, `PendingEnds`, with late stamps and foreign stamps on the queue, reordering and restarts |
| `OwdmCrossed` | 2 nodes, 4 packets | violation: `PendingWhileUnderway` when two nodes measure towards each other at the same time |
| `RmaService` | 2 callers, 1 target, 2 addresses, 3 messages | `TypeOK`, `AcceptedWasServed`, `ImplementsRemoteMemory` with losses, reordering, failing sends, restarts, stray datagrams |
| `RmaPair` | 2 peers, 7 messages | `AnswerIsOwn`, and under fairness `EveryCommandEnds`, on a network that loses nothing |
| `DelayExact` | 7 x 4 stamps, 1-bit bytes, all pairs; no limit, one below and one over a second, one below 0 | `TypeOK`, `DelayShownIsDifference`, `LimitTestExact` |
| `CommsServe` | 2 UNIX clients, 1 TCP client, 2 descriptors for them | `TypeOK`, `NoClientForgotten`, `OnlyWordlessLeak`, and under fairness `UnixClientServed` |
| `CommsEcpri` | 1 + 1 clients | violation: `EcpriDealtWithInternally` |
| `Start` | 2 instances, given no port, 5000 or 44798, 5 ways to start, 1 script, LIMIT 1 | `TypeOK`, `OneDaemonPerPort`, `ReachableWhenAlone`, `TidyEnd`, `ResetOnlyAfterLosses`, and under fairness `LossIsAnswered`, `ResetIsReleased` |
| `Commands` | 1 antenna, 2 values, 1 register that changes by itself | `TypeOK`, `ReplyIsFresh`, and under fairness `EveryCommandEnds` |
| `Registers` | 2 writers, 2 fields of one word, 1 driver; the whole map | `TypeOK`, `KeptUnlessOverlapped`, `NothingInvented`, `NoAccessUnmapped`, `FilesApart`, `OnlyLaterFilesStray`, `AntennasApart` |
| `PtpTimer` | 2 callers, 2 moves, 5 moments | `TypeOK`, `AdjustmentsAddUp`, `GetTimeNeverBehind`, `SetTimeWithinSecond`, `NothingAfterRemove` |

Why the bounds are enough: a measurement is at most four packets, between two
nodes, so that 4 nodes and 5 packets have two measurements side by side or one
after the other, and a stale slot of an earlier one can be met by a later. A
message of a command that was over and a new command of the same caller need 3
messages; a crossed pair of commands followed by another pair 7. The arithmetic
is over all pairs of stamps around 0, the sign bit and the end of an int, with
one value of the nanoseconds that is not a time. Two descriptors are used up by
one client that leaves without a word and one that is served. `MaxPkt` and
`MaxMsg` bound the commands and unrelated sends only, never an answer, so that
what is under way can end. Two instances suffice for one to take the socket file
from the other, fail over the other's pidfile or find what it left; with LIMIT 1
a count has a value below, at and above what it is compared with; the theorems
are for any number of instances, scripts and any LIMIT. An antenna more repeats
the items of the first. Two stores that overlap are two writers, and two fields
of one word is what they can spoil. For the clock, 4 units are two seconds,
which is a carry out of the ns and one read torn between the words; targets and
deltas lie before, within and beyond the low word, and on both sides of its
sign. `CHECK_DEADLOCK FALSE` is where these bounds stop a
behaviour; the daemon of `XroeComms` is checked for deadlock.

Every property of a passing run is shown to be able to fail: `PROJECT.json`
lists for each a faulty form of an operator (defined before the true one, and
named for its fault) under which TLC finds it violated.

### Fairness

- `EcpriOwdm`, `EcpriRma`: weak fairness, per node, of handling a message that
  is in its receive buffer. `get_message` comes back to the socket after the
  connections that have arrived, and the loop of `proto_ecpri_rma_get_response`
  does nothing but read it. No fairness of sending, losing or posting.
- `XroeComms`: weak fairness of the daemon's step, which is one thread that
  polls without a timeout. Clients and other nodes are not fair: a client may say
  nothing for ever, and no answer may come, and then the daemon blocks.
  `UnixClientServed` says that nothing else keeps a UNIX client waiting.
- `XroeCommands`: weak fairness of the command under way, which is the one
  thread of the daemon between two polls. The drivers, the device and the
  registers are not fair.
- `XroeStart`: weak fairness of each script, a shell loop that waits for nothing
  but its own sleeps. The processes are not fair: nothing is claimed about when
  they start or end.

### What holds only under conditions

- With measurements that cross, a lost request whose follow-up arrives,
  reordering or a restart between request and follow-up, `owdm_msg` holds the
  stamp of another packet and the delay is meaningless. The code keeps no
  identity that could tell. `ResultMeasuresOnePacket` is for measurements kept
  apart.
- With a late or a foreign stamp on the error queue the sender's half is wrong.
  `FollowUpCarriesItsTx` is for prompt stamps.
- `RemoteMemory` is implemented when no node is caller and target at once.
  Between three peers a late answer of one node can be taken for that of
  another: `proto_ecpri_recv` writes the sender's address to `src`
  (`ecpri_proto.c:186`), and nobody compares it with the node that was asked.
- With three peers a daemon can wait for ever (one asks a node that itself
  waits); with two on a network that loses nothing it cannot.
- The report limit works as a limit from 1 ns to less than a second
  (`LimitTestExact`). One of a second or more triggers from a second on, below it
  too; one below 0, which `strtol` takes, becomes a large word and misses every
  delay of less than a second.
- That an over-limit measurement triggers an ILA write (`ecpri.c:535-537`) is not
  so for any limit: the attribute is named `radio_sw_trigger`, not `sw_trigger`,
  and `TRAFGEN_SYSFS_API_Write` opens it for reading (`xroe_api.c:421`).
  `LimitTestExact` says this too (`~ila`); the test it is about is all the limit
  has an effect on.
- A field of a register keeps its value as long as the writers of its word do
  not overlap; where they do, an update is lost (`KeptUnlessOverlapped`).
- A reply of 0 of a command that went through `/dev/xroe/ip` says nothing of the
  items for which that could not be opened (they show what the variable held
  before, or 0), nor of a set or get whose own access failed: nothing has been set
  then, and 0 is shown. The code reports neither, and `IP_API_Read_Register`
  returns 0 where its comment has `EIO` (`xroe_api.c:141`, 167). `ReplyIsFresh`
  excepts these accesses one by one and no others. The Overflow of an antenna is
  the bit for underflow; `stats` never answers 0 (`NoStatsFile`).
- `settime` sets the clock to what it was asked for unless that is before the
  raw time, and then to the raw time (`SetTimeWithinSecond`).
- One daemon listens on a port when all are given their port in one form, none
  or a number (`OneDaemonPerPort`). The pidfile is named after the number, and
  no number is `XROE_COMM_PORT` by another name: `-d` and `-d -p 44798` have two
  pidfiles, and `SO_REUSEPORT` lets both listen.
- After a crash or a failed start nobody but a reboot or a user removes the
  pidfile (`TidyEnd` is for a system without those), and an instance whose
  socket file another one took is not reached (`ReachableWhenAlone` excepts
  those that have shared it).
- No file of the second carrier (`cc_1`) or of a pointer after the first
  (`dl_data_ptr_1` to `_4`) reaches a register of its own in the header
  (`OnlyLaterFilesStray`): twelve of `cc_1` change the symbol table, the other
  four and the pointers reach nothing the header names. Whether the hardware has
  something there the repository does not say.

## 4. Findings

1. `OwdmCrossed`: any result is numbered as the last one asked for, also that of a
   measurement another node has asked for (`ecpri_proto.c:1040`), so that
   `owdm_res` shows it for one of its own that is still under way.
2. `CommsEcpri`: a remote write the device refuses is taken for a command by
   the main loop, whose answer goes to the connection of the last client.

## 5. Proofs

All proofs are for any values of the constants that satisfy their assumptions
(`NoNodeAssumption`, `FaultsAssumption`, ... in `EcpriOwdm`; `WidthAssumption`,
`StampAssumption`, `LimitAssumption` in `OwdmDelay`; `NobodyAssumption`,
`PortAssumption`, `LimitAssumption`, `WaysAssumption` in `XroeStart`; `AttrAssumption`,
`MaskAssumption`, `FieldsApart`, ... in `SysfsReg`; `ZeroAssumption` in `EcpriRma`;
`CallerAssumption`, `WordAssumption`, `RateAssumption`, ... in `PtpTimer`;
`Fd0Assumption`, `ClientAssumption`, ... in `XroeComms`; `AntennaAssumption`,
`ValueAssumption` in `XroeCommands`). TLC evaluates the same assumptions in the
runs. Four settings are assumed by the theorems that name them: `PromptStamps`
and `OneAtATime` for the measurements, `Apart` and `Pair` for the remote commands,
each a condition on constants that the code does not enforce and that section 3
says the need of.

- `EcpriOwdmProofs!TypeCorrect`: `TypeOK` is inductive; one step per action.
- `EcpriOwdmProofs!FollowUpCorrect`, for `PromptStamps` (no late stamps, no
  foreign ones): `FollowUpInv` adds that every error queue is empty between two
  handlers. Without it the oldest stamp on a queue need not be that of the
  packet just sent. Losses, reordering, restarts and crossing measurements are
  all allowed.
- `EcpriOwdmProofs!ResultCorrect`, for `OneAtATime`: `MeasurementInv` adds
  `OneMeasurementPerNode` (two messages with a node in common are a request and
  its follow-up) and `SlotsInv` (what the one slot of either end holds while a
  follow-up or a response is on its way). The first keeps the slot of a node
  from being overwritten, the second carries the stamps from the request to the
  result. The lemmas `OneMessage`, `RequestAndFollowUp` and `MessageGone` say
  once how the network of a measurement changes.
- `OwdmDelayProofs!TypeCorrect`, `DelayExact`, `LimitExact`: `MinusExact` is the
  case split on the borrow, `SmallWord` that a number before the sign bit goes
  through the words unchanged; from them what is stored, and what is shown, is
  the difference. For the limit, `LimitWord` says what it is as a word, and
  `DelayInNanoseconds` that the two parts the code tests make the delay.

- `EcpriOwdmProofs!ResponseCorrect`, for `OneAtATime`, is a part of `SlotsInv`,
  which the result needs anyway.
- `EcpriOwdmProofs!PendingCorrect`, for `OneAtATime`: `PendingInv` adds to
  `MeasurementInv` that nothing has a number not yet given (`CountsInv`), and that
  a message of the measurement a node asked for last means that the node has
  stored no result since (`UnderwayInv`).
- `XroeStartProofs`: `TypeCorrect`, one lemma for a step of a process and one
  for a step of a script. `OneDaemon` by `PidInv`: who is past the pidfile has
  one, so that whoever creates it is alone for that name
  (`OneDaemonPerPidfile`); names in one form lead to one port only when they are
  the same (`PortOfNumber`). `Reachable` by `BindInv` and
  `SocketInv`: from bind on, a process has the file or has had company; the
  lemmas `InCompany` and `CompanyStays` say once how company changes. `EndsTidily`
  by `TidyInv`: a file has somebody who will remove it. `ResetsAfterLosses` by
  `LossInv`: the count of a script never exceeds its losses in a row, and is 0
  unless `blStatus` is 0 - without the second, lock seen once would not clear it.
- `SysfsRegProofs`: `TypeCorrect`; `FieldsKeepTheirValue` and
  `FieldsShowWhatWasWritten` by `FieldInv`, which says of every word held by a
  process what it knows of the fields in it: one that was read and not overtaken
  agrees with the register (`FreshWords`), and an overtaken one still shows
  values that were written (`KnownWords`). The lemmas about `Merge`, `Show` and `Land`
  carry the bits. `StoresHaveTheirRegisters` by `FilesInv`: a file that is there,
  or in use, has its driver mapped.
- `SysfsRegProofs!FilesApartCorrect`, `StraysCorrect`, `AntennasCorrect` are about the
  map alone, which is one concrete table: TLC's check of it is complete as well,
  and the proof says why it holds. The banks lie apart (`BanksApart`), within a bank
  no two registers share bits (`BankDisjoint`), so that an address tells the bank
  and bits tell the register (`RegistersDisjoint`); `FramerFile` says which
  registers each kind of directory shows and how far its stride moves them, and
  `FilePlaces` where that is. A file at the place of its register reaches it as
  registers have bits (`AtItsRegister`, `HasBits`); `FirstFilesReach` says that
  these are all but the later carrier and pointers, `LaterFilesMiss` where those
  are and what is there.
- `EcpriRmaProofs`: `TypeCorrect` by `BodiesInv` (the body of a message goes with
  its kind: without it a target would perform what is no command).
  `AcceptedCorrect` by `AnswersServed`: every answer still on its way is in the
  record of what was performed, with the node it goes to. The steps that only
  take messages away (`Shrinks`) are treated together.
- `EcpriRmaProofs!AnswerIsOwnApart` and `RemoteMemoryImplemented`, for `Apart`
  (no node is caller and target, callers are not restarted or measured; any
  faults): by `ApartInv`. A request on its way is that of the command its sender
  waits for and nobody has performed it (`RequestsInv`); there is one answer, and
  its receiver waits for it (`AnswersInv`); a command is performed once
  (`PerformedOnce`). Then `SendRequest` is `Call`, `Serve` is `Perform`, a
  `GetResponse` is `Return`, and every other step leaves the abstract state alone.
- `EcpriRmaProofs!AnswerIsOwnPair`, for `Pair` (two nodes that both call and serve,
  an ordered network that may lose, no restarts): by `PairInv`. Two commands
  that cross end each other, and then a request may be on its way whose sender
  has gone on: `PairRequests` says that it comes first to a node that waits
  (`Stale`), and so is dropped and never answered. `QuietInv` (a node that waits
  has sent nothing since) and the order of the network keep that so.
- `PtpTimerProofs`: `TypeCorrect` by `NamedInv` (a call under way has a name).
  `RemoveCorrect` by `LifeInv`, the order handler, interrupt, driver, clock that
  probe builds up and remove takes down. `AdjustmentsCorrect` by `LockInv` (who is
  inside holds the lock), `AdjustInv` (the words an adjtime has written so far are
  those of the old ns plus its delta) and `SumInv`; `WordsAdd` is the arithmetic:
  the words cut from a sum, added by the hardware modulo its width, displace it
  by that sum. It rests on four lemmas about division.
- `PtpTimerProofs!GetTimeCorrect` and `SetTimeCorrect`, by `ClockInv`, which says of
  each call what it knows between two of its accesses: nobody has moved the
  clock since its first read and less than a second has passed (`ReadInv`), the
  words written so far are those of the seconds to be written (`WrittenInv`), and
  a settime works on the offset 0 before it works on the difference (`SetInv`).
  `TornRead` is the arithmetic of the reads: two reads less than a second apart
  tell the first moment or one second more. `SetLands` is that of the writes: the
  difference cut into words brings the clock to the time wanted, less the second
  a torn read has added. `free`, the device's time, has any bound, so that these
  hold across every wrap of the words.
- `XroeCommsProofs`: all three from `CommsInv`, which adds to them what a client
  that waits has written (`WordsInv`): a client that leaves while it waits would
  otherwise be one that leaves without a word, and the one a remote command is for
  could be anyone.
- `XroeCommandsProofs`: `TypeCorrect` by `CmdRecord` (what a command has of its
  own); `ReplyCorrect` by `FreshInv`: the items behind a command are fresh unless
  a later one is read into the same variable (`SweepInv`), `stats` does not get
  beyond its first item (`StatsInv`), and while a command runs there is no reply
  (`QuietInv`). The lemmas `AntennaItemsAre`,
  `RadioItemsAre`, `ItemsAre` say of the lists, for any number of antennas, that
  each of their items has a file and a variable that exist.

Only model-checked: everything temporal with fairness (`PendingEnds`, the two
`EveryCommandEnds`, `UnixClientServed`, `LossIsAnswered`, `ResetIsReleased`), which is
out of the prover's reach.

## 6. Plan

The daemon's protocols came first, because nodes and messages interleave there,
then what is around the daemon, then the drivers. All modules of that plan are
written. What is left:

1. Proofs: every safety invariant, action property and refinement of the runs
   has its theorem. What could still be widened are the settings: `Pair` to more
   than two nodes that exchange commands in disjoint pairs, `OneAtATime` to one
   measurement per pair of nodes.
2. A composition of `XroeComms` with the commands of `XroeCommands`, so that the
   local commands take time as well while clients come and go.

## 7. Not modelled

Formatting of statistics and of JSON for the GUI; the parsing of commands and of
options; the administration scripts and the configuration of interfaces, LEDs
and ptp4l in the start script, which are lists of commands without state of
their own; the image management, which copies files interactively; the build of
hardware and image, which has no run-time behaviour. Of the drivers: what the
kernel does with a directory that was released, with a device that is unbound
while its files stay, and with a clock whose probe failed.

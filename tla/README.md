# A verification project for ha1control

`ha1control` is the daemon of a home-automation gateway.  Clients (TCP clients
with a text protocol, web clients, a relay server over a web socket) and
keypads ask for commands; the daemon sends packets over a serial line to an
XBee radio, which forwards them to radio devices; replies and notifications
come back the same way.  This directory holds TLA+ models of that program,
configurations for TLC and proofs for TLAPS.  File names below are those of
`src/`; `PROJECT.json` maps every definition to its lines.

## 1. Inventory

| part | source | state | operations | works with |
|---|---|---|---|---|
| Watchdog | `Main.cc` | child pid, time of the last keep-alive | start, supervise, kill and restart the daemon | the daemon, by signals |
| Scheduler | `Service.cc` | descriptor sets, pending traps, terminate flag, self-pipe | select loop, port dispatch, traps | every port handler, `Wakeup` |
| Core | `HA1Control.cc` | wake-up time, interval times | `Wakeup`, `IntervalCheck`, `KeepAlive`, `TimeCheck`, `SetIntervalTimer` | queue, updater, status, passwords |
| Queue | `HA1Control_Queue.cc` | write queue, read queue, frame and sequence identifiers, the `SequenceID` (lock) of each device | pairing, timer, send, time-out, retry, composite step, notification | commands, updater, radio |
| Execute | `HA1Control_Execute.cc` | - | start a command, analyse notifications, keypad and password check | queue, password table |
| Communication | `HA1Control_Comunication.cc` | client table, input buffers, receive state of the serial line | accept, receive, time out, respond, notify; frame and unframe packets | sockets, queue |
| Command | `HA1Control_Command.cc` | infrared recording in progress | some thirty commands | queue, tables |
| Updater | `HA1Control_FWUpdate.cc` | firmware image, device being updated, flag and version of each device | version check, boot, transfer, reboot | queue |
| Status | `HA1Control_StatusCheck.cc`, `StatusList.cc` | last status of each device and switch | evaluate and notify changes | devices, clients, web socket |
| Passwords | `PasswordList.cc` | list of gate passwords, its file | add, revoke, expire, look up, save, load | keypads, clients |
| Tables | `DeviceList.cc`, `CommandList.cc`, `GateList.cc`, `RemoconList.cc` | names, addresses | search | all |
| Web socket, sockets | `WebSocket.cc`, `Socket.cc`, `SecureSocket.cc`, `Base64.cc` | connection, handshake, key, fragment, time of the last access | connect, handshake, receive, send, ping | client table |
| Buffer | `Buffer.cc` | ring buffer | put, get lines | client table |
| Infrared | `IRRemote.cc`, `IrAnalyze.cc`, `IrDataBuffer.cc`, `IrPatternTable.cc` | samples | record, analyse, send | command |
| Configuration | `HA1Control_ReadConfig.cc` | - | read once at start | tables |

Two **processes**: the watchdog and the daemon it forks, which know each other
by signals only.  The daemon is **one thread**.  `Service::Scheduler` blocks in `select()`,
serves the ports that are ready, then calls `Wakeup`, which stamps the time and
runs `QueueCheck`; an alarm ends `select()` when a deadline of the queue
passes.  So the concurrency is not between threads but between *transactions*:
a command takes many rounds, and clients, keypads, timers, devices and
composites are interleaved at every round.

What is hard: replies that are late, lost, duplicated by a retry or out of
order; a lock per device with five places that release it; packets that queue
their successor; composites that run a step at a time; the same counters (frame
identifiers) used for matching and wrapping at 255; updates of several devices
that must not overlap and may be abandoned in the middle; restarts of the
daemon by its watchdog, and signals that arrive where nobody looks for them;
clients that go while their commands are queued, whose descriptors the kernel
hands out again at once; a link to a relay server that may refuse, fall silent
or break; bytes lost on a serial line, and by the ring of a client that talks
faster than it is served.  `PROJECT.json` lists these hazards at their lines.

## 2. The modules and the plan

| module | about | proofs in |
|---|---|---|
| `CommandQueue` | the queues: entries, locks, replies, retries, answers | `CommandQueueProofs` |
| `DeviceTransactions` | abstract: one transaction per device at a time | `TransactionProofs` (the refinement) |
| `FirmwareUpdate` | the updater on top of transactions | `FirmwareUpdateProofs` |
| `PasswordTable` | passwords, expiry, file, restart | `PasswordTableProofs` |
| `ByteBuffer` | the ring buffer, as operators | with `XBeeLink` |
| `XBeeLink` | a frame becomes bytes on the serial line and a frame again | `XBeeLinkProofs` |
| `WatchDog` | the two processes, their signals, the select loop | `WatchDogProofs` |
| `Clients` | client table, reads, messages, answers, the relay link | `ClientsProofs` (table, answers), `ClientStreamProofs` (messages, commands) |

Each module that is checked has an `MC...` module with the constants of its
runs.  The modules meet at their interfaces: a frame that `XBeeLink` delivers is
`Receive` of `CommandQueue`; a command that `Clients` runs and queues is
`Submit` there, and `Answer` of `Clients` is `SendResponse` at the end of one;
one step of an update chain in `FirmwareUpdate` is one transaction of
`CommandQueue`, which is justified by two properties of the queue
(`ServedInOrder` and the refinement of `DeviceTransactions`); the commands of a
keypad enter the queue as the notices of `CommandQueue`, and whether it opens is
the verdict of `PasswordTable`; the restarts of `FirmwareUpdate` and
`PasswordTable` are the forks of `WatchDog`.

What could come next, in this order: the firmware file as a variable of
`FirmwareUpdate` (a file that is read anew in the middle of a transfer), and
`StatusCheck` as operators against a reference definition.

## 3. How the modules correspond to the code

### CommandQueue

| model | code |
|---|---|
| `wq`, `rq` | the lists `WriteQueueSt` and `ReadQueueSt`, in list order; an entry keeps `SequenceID`, `State`, frame identifier, retry counter and delays |
| `wq[i].rest`, state 1000 | a composite command: its entry stays in the queue and holds the steps to come (`CombiCmd`) |
| `lock` | `DeviceList::SequenceID`, `SetSequenceID` |
| `FrameID`, `NextFrame` | the identifier that `Retry` and `AddWriteQueue` hand out, 1 to 255 |
| `jobs` | not a variable of the code: what `SendResponse` told the client of each `SequenceID` |
| `air` | the radio: answers that may still arrive |
| `pc`, `again`, `cur` | the phase of `QueueCheck`, its `checkFlag`, and the place of `CommandCheck` in the list |

`Submit`, `Receive` and `Notify` are what the ports of `select()` bring;
`Wakeup` starts `QueueCheck`, whose phases run in the order of the code: `Pair`,
`ReadNotification`, `TimerCheck`, `Send`/`WaitOver`, `Timeout`, `Discard`,
`CombiEnd`/`CombiStepOn`, and again while something changed.  A handler that
walks a list is one action per item and a `...Done` action; the handlers of
paired replies (`Finished`, `TryAgain`, `PairNext`, `PairError`, `Delivered`,
`NotDelivered`) are the branches of the three `QueuePair...` functions,
including the second answer that a caller of `Retry` sends.  `Tick` is the
time that passes in `select()`.

What is abstract: the contents of packets; a command is a value of the constant
`Commands` with its kind, its device and its number of packets.  The packets
that continue a command have its kind (only firmware updates mix the two, and
those are modelled as chains).  The status byte of a reply is chosen when the
reply is paired.  Commands queued by `FWUpdateCheck`, `FWReboot` and
`IntervalCheck` enter like those of a client.  The second `QueueCheck` in
`IntervalCheck` is one more `Wakeup`.  The entry of a `wait` names the address
0xffffffff, whose lock has no effect.  The low-priority walk over negative
`SequenceID`s is left out: nothing queues one.

### DeviceTransactions

What the queue promises about devices, without packets, time and identifiers:
on each device one command at a time has a transaction, and a command that is
over begins none.  `ImplementsTransactions` maps `issued` to the number of
commands, `running[d]` to the sequences of the started entries for `d`, and
`over` to the commands without an entry.

### FirmwareUpdate

| model | code |
|---|---|
| `flag`, `FWVer`, `FWUpdateDevice` | `FWUpdateFlag`, `FWVer` of a device and the member `FWUpdateDevice` |
| `chains[d]` | the entries of the write queue for `d` whose `NextFunc` belongs to the updater, first come first served |
| `mode`, `image` | the device: boot loader or firmware, and what its memory holds |

`FWUpdateCheck` is what `IntervalCheck`, the `update` command and the end of an
update run.  Each `...Res` and `FWUpdate...` action is the handler of that name.
`GiveUp` is the silent device (time-out or delivery error after the last
retry), `ErrorGiveUp` the device that answers with an error status.  `Acts` is
the device doing what it was told without the daemon hearing of it.  `Restart`
is a daemon started anew: `DeviceList::SetRegistryFile` resets versions and
flags, and the queue is empty.  Devices are external: only a boot loader
writes the memory, and it starts a firmware only when it is whole.  Whether a
device was checked lately (`LastDeviceCheck`) is chosen.

### PasswordTable

| model | code |
|---|---|
| `table`, `DirtyFlag` | the list in `PasswordList`; the place of an entry is its order in the list |
| `file` | the registry file, which `rename` replaces |
| `origin` | the list of the watchdog, which read the file before it forked the daemon |
| `link` | the web socket to the relay server; "new" is `WebSocketIntialState` 0 |
| `sent`, `missed` | what the relay server was told; whether the last attempt failed |
| `wanted`, `owed` | not variables of the code: what clients asked for since the daemon started, and what the answers promised them |

`SetPW` and `Delete` are `setpw` (`Update`, then `PasswordCheck`), `Keypad`
is `KeypadReceive` up to the verdict, `Interval` is `IntervalCheck`, `Connect`
and `Receive` are the start of a session with the relay server.  Every handler
sweeps expired entries first; the walk ends when it deletes the head
(`DeletePassword` returns NULL), which `Walk` models.  A write fails and
leaves the old file, or succeeds; with `ShortWrites` it may also leave a prefix
of the list and report success, because `fclose` is not looked at.  Requests
that fail on their format or their gate change nothing and are no action.  The
clock stands still within a handler.  Passwords of more than 15 digits, which
are stored truncated, and a short name that equals a truncated long one are
not modelled.

### ByteBuffer and XBeeLink

| model | code |
|---|---|
| `Buffer`, `PutBuffer`, `GetBuffer`, `PeekBuffer`, `Contents` | class `Buffer` with its two pointers; one slot is always free |
| `out`, `SendHeader`, `SendData`, `SendSum` | `SendPacket`, the bytes it writes one after another |
| `ReceiveSeq`, `EscapedFlag`, `ReceiveLength`, `ReceivePtr`, `ReceiveSum` | the variables of that name, which keep the place in a frame between two calls |
| `TakeEscape` ... `TakeCheckSum` | the cases of the loop of `XBeeReceive`, a byte each |
| `wire`, `Lose`, `CutShort` | the line: in order, but bytes are lost, and a packet may be cut short |
| tags of bytes, `intact`, `beheaded` | not in the code: which frame a byte was sent in, and in its head (delimiter and length) or its body; the frames that lost no byte, and those that lost one of the head |

The radio module is the other end of the same protocol, so the one sender
stands for it.  What a frame holds is a member of `Payloads`.

### WatchDog

| model | code |
|---|---|
| `wd` | the place of the watchdog: `fork`, `sigaction`, `sigwait`, after it, `wait` |
| `toWd`, `Arrives` | a signal that is pending; one that arrives outside `sigwait` meets the empty handler and is gone |
| `alarmIn`, `age` | its interval timer and `lastKeepAliveTime` |
| `pc`, `trap`, `pipe`, `keepIn` | the daemon: its place in `Service::Scheduler`, `TrapFlag`, the self-pipe, the next `KeepAlive` |
| `inherited` | a daemon forked anew starts with the handlers of its parent |

`TakeKeepAlive`, `TakeAlarm` and `TakeEnd` are the branches of the watchdog's
loop.  A daemon may crash, take long (`serving`, `connecting`) or hang.  The
clock ticks while nobody can do anything else: signals are fast.

### Clients

| model | code |
|---|---|
| `ClientIF`, `Format`, `InputBuffer` | `ClientInfo[fd]` and `InputBuffer[fd]` |
| `ports`, `age` | `TargetFDs`, the time since `LastAccess` |
| `webFd`, `Sequence`, `ReceiveLastPacketFin`, `ReceiveLastOpcode`, `WebSocketIntialState` | the members of `WebSocketIF` and `HA1Control` of that name |
| `rx` | `CommandIFReceive` between the messages of one read: its descriptor, `cmdBuf` and flag |
| `jobs` | what the queue keeps of a command: its descriptor |
| `peer`, `made`, `sent`, `line`, `eof`, `half`, `relay`, `pinged` | the other ends, external |
| `upTo`, `lost`, `ran`, `heard` | not variables of the code: up to which message a client was served, the first one its ring did not take whole, what ran and who heard an answer |

`AcceptCommandIF`, `ReadClient`, `ReadFrame`, `ReadEnd`, the `Take...` actions,
`Return`, `Answer`, `AnswerNobody` and `ClientTimeoutCheck` are the code.  A message is
two units, so that a read may end in its middle, and a client may say the next
one before the first is read; what it says is its kind.  A frame of the relay
server may be a message, a fragment, a control frame, or be merged with the one
before it in one record and lost.  A write to a peer that has gone may fail.

The ring.  A read brings at most `BufferSize` units and the ring holds one less,
as in the code (1024 and 1023 bytes): what `AddBuffer` finds no room for
is lost, and what comes later is put behind the hole.  JSON messages open a brace in
their first unit and close it in their second; `stray` only closes one, `unclosed`
only opens one.  `Opens`, `Closes`, `Nest` and `Excess` are the counting of lines
132-152, so that messages wait behind an open brace, are joined to others, or are
thrown away by `Clean`.  Until one of these happens a client is *in step*
(`InStep`): its messages are read as what they are.  Behind it pieces of
different messages are read as one, and the model lets that mean anything
(`ReadAs`): garbage, or any kind.  A message of a type that none of the three
comparisons knows is the kind `other`.

Left out: bytes (a unit is lost or kept as a whole, and a line or a message that
is longer than the ring is one that was lost); why braces do not match (the code
counts those inside of strings, too, so that correct JSON may be `stray` or
`unclosed`); a relay link with a descriptor beyond the table, the addresses that
are refused at once, the byte 0x04 (it does what `quit` does), the list that
`PasswordCheck` sends in the middle of a read (`PasswordTable` has it), `quit`
and `format` from the relay server, and notices that the daemon sends at its
intervals, which count as an access of the JSON clients that are there.

## 4. What the runs check

| run | instance | shows |
|---|---|---|
| `queue_locks` | 1 device, 2 of an AT command and a composite of one, 1 retry, fair | locks are held by transactions in progress (`LockHeldByStarted`, `NoLockLeak`), nothing goes unanswered (`NoSilentDrop`), a reply is paired with its own attempt (`PairsOwnAttempt`), commands end, so that no device stays locked, and are answered (`EveryCommandEnds`) |
| `queue_devices` | 2 devices, a command of two packets and one of one, 2 frame identifiers | a device stays with a command between its packets (`DeviceExclusive`) and serves in queue order (`ServedInOrder`); the inductive invariant of the proofs, types included, and the refinement `ImplementsTransactions`, when identifiers wrap and collide |
| `queue_answers` | every kind of local command, composites, keypad and boot notices | steps do not overlap (`OneEntryPerSequence`), an answer is the end (`AnswerIsFinal`), OK once or errors, never both (`OutcomeConsistent`) |
| `update_line` | 2 devices, no flow control, errors, a restart | updates do not overlap (`OneUpdateAtATime`); half an image is never taken for done nor rebooted (`PartialIsNotDone`, `RebootsWholeImage`) |
| `update_recovery` | 2 devices that answer or stay silent, a restart, fair | a half-written device is attended to (`PartialIsAttended`), the line is freed (`LineIsFreed`) |
| `update_stuck` | as `update_line` | the finding below |
| `password_answers` | 2 customers, 3 requests, 5 validities, failing writes, a restart | the file honours what was answered (`DiskHonoursAnswers`), the relay server knows the list (`SentIsTable`) |
| `password_keypad` | 2 customers, one with a long name, short writes, a restart or a daemon forked anew, fair | the list is what was asked for (`TableIsWanted`), keypads judge right (`KeypadJudgedRight`), expired entries go (`ExpiredGo`) |
| `serial_link` | 2 frames of 4 payloads with bytes to escape, 2 bytes lost, packets cut short | the receiver never overruns its buffer (`FrameFits`), takes every frame that was not hurt, once and in order (`IntactArrive`), and makes no frame of what one lost byte of the body leaves, of the head at most a shorter one (`HonestFrames`) |
| `supervision` | 2 daemons after one another, 1 signal of the operator, 1 crash, slow and hanging daemons, fair | daemons never overlap (`OneDaemon`), a stop stops (`StopStops`, `StopCompletes`), no signal is slept through (`SleepsSoundly`), daemons on time are spared (`PunctualIsSpared`), hanging and dead ones are not left (`HungIsEnded`, `DeadIsReplaced`) |
| `clients` | 1 descriptor, 2 clients after one another, 3 messages of 9 kinds, a ring of 4 units | a client runs what it sent and was not served yet, and while it is in step whole messages, once and in the format they were in (`OwnCommands`); no message waits in the buffer for the next, except behind JSON that does not parse or out of step (`NothingLeft`) |
| `relay_link` | 2 descriptors, 2 connections in all, a relay server that accepts, refuses, fragments, pings, closes or vanishes, fair | the table, the ports and the link agree about descriptors (`DescriptorsAgree`), answers find their client (`AnswersGoHome`), a handshake ends (`HandshakeEnds`), the relay server is told what it needs (`RelayIsTold`), who goes without a word is dropped (`GoneAreDropped`) |

The bounds.  Locks, pairing and answers relate two commands at a time, so two
commands are enough for every conflict; one retry makes a late reply meet a
later attempt, two packets make a continuation, time-outs of one and two ticks
make every deadline pass before, at and after an answer.  `FrameMax` 12 exceeds
the identifiers a behaviour uses, so that `PairsOwnAttempt` is about the
protocol and not about wrapping (the hypothesis `DrawnUnborne` of its theorem holds
there); the two of `queue_devices` wrap at once.  Two
pages make a first and a last one besides the page that validates the image;
two devices make an overlap; `MaxChains` 2 puts a chain behind a running one.
With flow control updates run side by side; the proofs cover it, the runs leave
it out.
Three requests make a head, a middle and a tail of the list, of which any may
expire; the validities are one that ends early, one that starts late, one that
outlives the clock, an empty one and a refused one.

A ring of 8 with frames of at most 7 bytes is full when the
longest frame is in it, and its pointers wrap; two losses make a lost delimiter
and a lost byte elsewhere, and the second frame is the one that must arrive.
Of the payloads three start with a byte above `MaxLength`, as the types of the
radio's frames are above the length of its packets, so that a lost byte of the
length leaves a length that is refused; one reads as a shorter frame when its
length is lost, and one has a tail that reads as a frame of length zero.  An interval of two
ticks tells a keep-alive on time from a late one; two forks are a daemon and its
successor; `HungIsEnded` and `PunctualIsSpared` are about one daemon each.  Two
connections are a client and its successor on one descriptor, or a client beside
the link; three messages are one that is cut, one behind it and one that arrives
later, and a ring of four units is full of two messages, so that a read of five on
top of half a message loses units in the middle and at the end, and one more message
meets what is left.  The clients of `relay_link` send one message each, because what is
between two messages is the question of `clients`; its ring of two units takes all
that is said there, so that only the proofs reach the overflow of a message of the relay
server.  `serial_link` is checked
without deadlock: a line may fall silent for good.

Fairness.  `CommandQueue` assumes weak fairness of `QueueCheck` (the one thread
does not stop inside it) and strong fairness of `Tick` (the alarm of
`SetIntervalTimer` ends `select()` however often ports do so before).
`FirmwareUpdate` assumes weak fairness of the advance of each device's chain,
which `EveryCommandEnds` of the queue provides: a step is answered, or given
up.  `PasswordTable` assumes weak fairness of `Interval`, which the same alarm
brings every `AliveInterval`.  `WatchDog` assumes that both processes get the
processor, that time passes and that serving a port ends some time if it does
not hang; nothing of the operator or of crashes.  `Clients` assumes that the loop of the daemon
goes on, that time passes and the alarm comes, and that a relay server whose
link is up answers a ping or its connection breaks; one that is silent in the
handshake, and clients that never say or do anything, are allowed.

**Finding** (`update_stuck`).  `DeviceList.h:122` says of `FWUpdateFlag`
"2:Updateing".  When a device reports an error status until `Retry` gives up,
`QueuePairAVRCommandProcess` deletes the entry and resets neither the flag nor
`FWUpdateDevice`, as the other two places that give up do: the flag says
"updating" with no update in progress, `FWUpdateCheck` passes over the device,
and without flow control no other device is updated until the daemon starts
anew.

**What the models show that no document contradicts.**  (a) The daemon that the
watchdog forks anew starts with the password list its parent read at program
start: confirmed passwords are lost and revoked ones return, for good at the
next write.  (b) A disk that is full when the password file is closed truncates
the file under an OK.  (c) Passwords of customers with names over 31 characters
can be neither replaced nor revoked.  (d) `DirtyFlag` is cleared when sending
the list failed.  (e) A failed step of a composite is reported while the
composite goes on and finally reports OK.  (f) A read that ends leaves
`CommandIFReceive` before the code that closes a connection: a client that goes
without `quit` keeps its descriptor, on which `select()` returns at once and for
ever, until `ConnectionTimeout`.  (g) If the handshake with the relay server
cannot be sent, the descriptor stays with `WebSocketIF` unlistened and the link
is never tried again.  (h) The answer to a text client that has gone follows a
null pointer, and the watchdog starts the daemon anew.  (i) A report of rain, or
JSON of an unknown type, in the same read as a command runs that command again.  (j) Messages behind JSON
that does not parse wait for the next read.  (k) A read that does not fit the ring
loses bytes in the middle of what a client says: a text client runs a line it never
sent, put together from two of its own, and a JSON client whose brace was lost is
not heard until later braces match again.  A full ring without the end of a
message stays full.  (l) A closing brace too many throws away the whole messages
behind it in the ring.  (m) A SIGCHLD that arrives while
the watchdog handles an alarm is lost and the daemon is never replaced; a SIGTERM
that reaches a daemon before its loop is swallowed and the watchdog waits.  The
properties state what holds besides these, and say so (`ShortWrites`, `InPlaceRestart`, `LongNames`,
`missed`, the conditions in `NothingLeft`, `OwnCommands`, `StopCompletes`).

## 5. What is proved

The theorems hold for every value of the constants that satisfies the named
assumptions (`ConstantsAssumption`, `UpdateAssumption`, `PasswordAssumption`,
`LinkAssumption`, `WatchDogAssumption`, `ClientsAssumption`); two have a hypothesis
besides, `PartialIsAlwaysAttended` and `FramesFindTheirAttempt`.  Every safety
property that a run checks is stated by a theorem.  The type invariant
`TypeOK` of every module is among them; the runs check it only where it says more
than types (`Clients`: a fragment has an opcode) or is part of a larger one
(`Inductive` of the queue).

* **CommandQueueProofs.**  `LockHeldByStarted` and the others are not inductive:
  a retry path may only release a device because no other entry of the same
  sequence exists, and an answer is final only because an entry knows its
  command.  `Inductive` therefore adds `OneEntryPerSequence`, `EntryOfJob`
  (what an entry has to do with its command) and `StepsBelong` (steps run while
  their composite is there).  It is proved over *projections*: most actions
  leave queue, locks and answers alike (`AlikeGood`), and the others are
  instances of a handful of queue operations (send, leave, continue, end, a
  step of a composite), one lemma each (`SendGood`, `LeaveGood`,
  `ContinueGood`, `EndGood`, `SubStepGood`).  From it follow `QueueTypes`,
  `TransactionsHoldTheirDevice`, `NoDeviceStaysLocked`, `DevicesAreExclusive`,
  `EveryDropIsAnswered`, `AnswersAreFinal`, `OutcomesAreConsistent` and
  `StepsDoNotOverlap`.

  `FramesFindTheirAttempt` (`PairsOwnAttempt`) has an invariant of its own,
  `OwnReplies`: entries bear different frame identifiers, and a reply in the air or
  in the read queue that bears the identifier of an entry is for the attempt the
  entry is at, packet and retry included.  A retry draws a new identifier, so that
  replies to earlier attempts go unclaimed.  The counter `FrameID` has one byte
  and wraps, and nothing in the code bounds how late a reply may be: after 255
  further packets a late reply *is* taken for one to a new attempt.  The theorem
  therefore assumes of a behaviour that an identifier is drawn only when nothing
  outstanding bears it (`DrawnUnborne`: no entry, no reply in the air, no unread
  frame), which is all the protocol needs; the assumption is about the order of
  steps, not about `FrameMax`, which may be as small as 2.  Behaviours that
  wrap satisfy it as long as replies are not later than a round of the counter.
* **TransactionProofs.**  The refinement and the order.  By the invariant of the
  queue what runs on a device is what its lock says (`AsLocked`), so a step of
  the queue is known by the locks, the number of commands and which of them have
  an entry; each action is one of the steps of `DeviceTransactions` or a stutter
  (`QueueImplements`).  `DevicesServeInOrder`: positions in the queue keep their
  order, and only the first entry for a free device is sent.
* **FirmwareUpdateProofs.**  The invariant `Sound` speaks of one device: waiting
  chains have not begun, a chain that reboots has a whole image, a half-written
  device is in its boot loader and not done; `Owns` alone relates devices.
  `FWUpdateCheck` only appends to queues (`CheckSound`), everything else
  changes one device (`OneDevice`).  `PartialIsAlwaysAttended` needs
  `~ErrorReplies`: the finding above is the case that breaks it.
* **PasswordTableProofs.**  What handlers leave of a list is a *remnant*: only
  expired entries are gone.  A remnant honours every promise the list honours
  (`RemnantHonours`), so that sweeps that end early, writes that fail and the
  second sweep in `GetEntry` need no cases of their own.  The inductive
  invariant adds that customers with short names have at most one entry per
  gate (`Unique`), which is why a walk that stops at the head still finds the
  entry to replace (`RevokedOnce`), and that the list in memory honours the
  answers as the file does, because a failed write leaves the two apart.
  Theorems: `PasswordTypes`, `TablesAreWanted`, `DiskHonours`,
  `ServerKnowsTable`, `KeypadsJudgeRight`.

* **XBeeLinkProofs.**  That the receiver stays within its buffer needs that the
  slots in use hold bytes (`Filled`) and that the sender is within its frame
  (`Writing`).  The lemmas on the ring say that `PutBuffer` and `GetBuffer`
  change its length by what they should unless it is full, which the limit on
  frames excludes.  Theorems `LinkTypes`, `FramesFit`.

  What arrives is shown by an invariant about the whole line, `Parsed`
  (`LineParses`).  Every byte of a packet has a *place*: its frame, its item in
  the packet, whether it is the second byte of an escaped item, and the sum
  before it.  `Line` says that the bytes on the wire can be given places such
  that each follows the one before it (`Chained`), except where something was
  lost, and that frames in `intact` are there from the first byte to the last
  (`Complete`).  `Facing` relates the receiver to the first place: it is *in step*
  if what it keeps in `ReceiveSeq`, `ReceiveLength`, `ReceivePtr`, `ReceiveSum` and
  the ring is what it must be at that place (at a delimiter anything will do,
  which is how it finds its feet), and otherwise, after one loss, *astray* in one
  of three ways: behind by an item, with a wrong idea of the length, or with a
  wrong sum.  In each of them the check sum fails at the end of the packet, or the
  next delimiter comes first, or the byte was one of the head.  `Past` is what has
  been handed on.  A step that takes a byte removes the first place, `SendPacket`
  adds one, `Lose` and `CutShort` remove some and move the gap.  Theorems
  `FramesArrive` (`IntactArrive`) and `FramesAreHonest` (`HonestFrames`).  The
  proof is why `HonestFrames` makes a difference of head and body: that no single
  loss makes a false frame is not true for all payloads, because a byte of the
  data that is taken for the length may be small enough, and the sum of the bytes
  behind it fit by chance.
* **WatchDogProofs.**  `Born`: the daemons before the last one were waited for,
  and none is left when the watchdog forks or returns.  `Awake`: who sets a flag
  of `TrapFlag` writes to the pipe, and only `select()` followed by the check
  empties it.  Theorems `SupervisionTypes`, `DaemonsDoNotOverlap`,
  `StopLeavesNothing`, `NoSignalIsSlept`.  `PunctualDaemonsAreSpared` needs the
  clocks of both processes (`OnTime`): while the daemon was never slow, the time
  since the last keep-alive that was heard and the time to the next one add up to
  one interval, and to two if one was lost, unless a keep-alive is on its way;
  and while one is, no time passes.  So `age` exceeds two intervals only if two
  in a row were lost or the daemon was late.
* **ClientsProofs.**  A descriptor is enough to find the client of a command,
  because connections are numbered upwards and a command in the queue belongs to
  the client behind its descriptor or to one that has gone (`Owner`); and the
  call in progress is about a client (`Called`).  Theorems `TableAgrees`,
  `AnswersFindTheirClient`.
* **ClientStreamProofs.**  What a client has said and the daemon has not taken is
  on the line or in `InputBuffer`.  `Rank` numbers the units of a connection; the
  invariant `Streams` says that of a client the ranks in the buffer and then on
  the line ascend from the last message taken to the last one said (`Ascend`),
  whatever the splits into reads and whatever the ring lost.  Of the messages up to
  which the client is in step all ranks are there, each at the place it has without
  any loss (`There`): that is why a message in step is taken whole
  and a read that ends leaves none.  The two go together: a place in an ascending
  sequence can only be ahead of where it would be without loss, and a rank that is in its place
  pins down all before it.  Of the relay server, whose frames may be lost with a record,
  they ascend (`LinkStream`).  The format of a client in step is the one its messages
  up to there ask for, and what stays in the command buffer of a call was taken
  from messages up to there, of a client in step one whole message (`CallAgrees`,
  `Ran`).  `There` survives overflow because what is lost is behind `lost`
  (`ReadClientStep`), and `Clean` because a client in step never has more closing
  than opening braces (`NothingNext`, `ThrownAway`).
  Theorems `ClientTypes`, `NoMessageLeft` (`NothingLeft`) and `CommandsAreOwn`
  (`OwnCommands`).

Only model-checked: what must eventually happen (`EveryCommandEnds`, `LineIsFreed`,
`ExpiredGo`, `HungIsEnded`, `StopCompletes`, `DeadIsReplaced`, `HandshakeEnds`,
`RelayIsTold`, `GoneAreDropped`), because the prover has no rules for fairness and
`ENABLED`; and `UpdatingMeansInProgress`, which does not hold.

## 6. Not modelled

* **Status notification** (`HA1Control_StatusCheck.cc`, `StatusList.cc`): a table
  of functions of the last sample of a device, each evaluated when it is asked
  for and posted once.
* **Configuration and tables** (`HA1Control_ReadConfig.cc`, `DeviceList.cc`,
  `CommandList.cc`, `GateList.cc`, `RemoconList.cc`): read once before anything
  runs and constant from then on, but for the lock, version and flags of a
  device, which the models have.
* **Contents**: of packets, of commands, of answers, of the URL, key and hash of
  the web socket, TLS, Base64, CRC and logging are encodings and wrappers.
* **Infrared** (`IRRemote.cc`, `IrAnalyze.cc` and its tables): a driver on
  registers, and an analysis of codes that is a program of its own.
* **Start of the program**: command line, the first fork into the background,
  pid file, opening the serial port and the listening socket.
* **The firmware file** that is read anew while a device receives the old one.

`PROJECT.json` has the status of every part.

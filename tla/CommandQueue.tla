---------------------------- MODULE CommandQueue ----------------------------
(***************************************************************************)
(* The write queue and the read queue of the daemon (HA1Control_Queue.cc): *)
(* commands of clients and of keypads become entries of the write queue,   *)
(* entries are sent to radio devices one transaction at a time per device, *)
(* replies come back into the read queue, are paired with entries, timed   *)
(* out and retried, and every SendResponse is counted in a ledger.         *)
(*                                                                         *)
(* The daemon is one thread.  Between two calls of select() it services    *)
(* ports (Submit, Receive, Notify) and then runs QueueCheck, whose phases  *)
(* are the actions below; time passes only while select() blocks (Tick).   *)
(* A phase that walks a list and handles every eligible item in list order *)
(* is a sequence of steps, each of which handles the first eligible item:  *)
(* no handler makes an earlier item of its own phase eligible.             *)
(***************************************************************************)
EXTENDS Integers, Sequences, SequencesExt

CONSTANTS
  Devices,          \* radio addresses; the local module "server" is one of them
  NoDevice,         \* the address 0xffffffff of entries that name no device
  Commands,         \* what clients and keypads may ask for
  NoCommand,        \* a notification that starts no command
  Notices,          \* what devices report on their own, and what it starts
  FrameMax,         \* frame identifiers are 1..FrameMax (255 in the code)
  SendCommandRetry, \* resends before giving up (3; 5 for firmware updates)
  SendTimeout,      \* ticks to wait for a reply (30 s)
  LongTimeout,      \* the same while the network address is unknown (180 s)
  ReceiveTimeout,   \* ticks an unpaired frame is kept (10 s)
  ATRetryWait,      \* ticks before resending after an AT error (5 s)
  TxRetryWait,      \* ticks before resending after a delivery error (2 s)
  MaxJobs,          \* bound on the commands started in a behaviour
  MaxFrames         \* bound on the frames waiting in the read queue

StepKinds == {"avr", "at", "wait", "done", "fail", "mute", "told"}

(* What one command does: send packets to a device ("avr", "at"), sleep    *)
(* ("wait"), or end at once with Finish ("done"), Error ("fail"), Success  *)
(* or NoExec and nothing queued ("mute"), NoRes after its own response     *)
(* ("told").                                                               *)
Steps == {s \in [kind: StepKinds, dev: Devices \cup {NoDevice},
                 packets: Nat \ {0}, gap: Nat] :
            s.dev \in Devices <=> s.kind \in {"avr", "at"}}

Queued(step) == step.kind \in {"avr", "at", "wait"}
Radio(step)  == step.kind \in {"avr", "at"}

ASSUME ConstantsAssumption ==
  /\ NoDevice \notin Devices
  /\ FrameMax \in Nat \ {0}
  /\ SendCommandRetry \in Nat
  /\ {SendTimeout, LongTimeout, ReceiveTimeout, ATRetryWait, TxRetryWait} \subseteq Nat
  /\ MaxJobs \in Nat /\ MaxFrames \in Nat
  /\ NoCommand \notin Commands
  /\ Notices \subseteq [type: {"keypad", "boot", "status"}, cmd: Commands \cup {NoCommand}]
  /\ \A c \in Commands :
       /\ c \in [combi: BOOLEAN, steps: Seq(Steps)]
       /\ c.steps # << >>

VARIABLES
  wq,       \* the write queue, in list order
  rq,       \* the read queue, in list order
  lock,     \* DeviceTable.SequenceID of each device, 0 when free
  FrameID,  \* the next frame identifier
  jobs,     \* jobs[s]: the command with SequenceID s and what was answered
  netKnown, \* devices whose network address is known
  air,      \* replies that may still arrive
  pc,       \* where the daemon is in its loop
  again,    \* checkFlag of QueueCheck
  cur       \* position of CommandCheck in the write queue

vars == <<wq, rq, lock, FrameID, jobs, netKnown, air, pc, again, cur>>

State == {0, 1, 2, 1000}   \* State 3 exists only inside one handler
Entry == [seq: Nat \ {0}, st: State, step: Steps, sub: BOOLEAN, pkt: Nat,
          wait: Nat, retry: Nat, frame: 0 .. FrameMax, t: Nat, rest: Seq(Steps)]
Reply == [type: {"at", "tx", "avr"}, frame: 0 .. FrameMax, dev: Devices,
          seq: Nat, pkt: Nat, try: Nat]
Frame == [type: {"at", "tx", "avr", "keypad", "boot", "status"}, frame: 0 .. FrameMax,
          dev: Devices, seq: Nat, pkt: Nat, try: Nat,
          age: Nat, cmd: Commands \cup {NoCommand}]
Job   == [cmd: Commands, client: BOOLEAN, ok: Nat, err: Nat, subs: Nat]
Phases == {"select", "pair", "read", "timer", "high", "timeout", "rtimeout", "command"}

(***************************************************************************)
(* Helpers                                                                 *)
(***************************************************************************)
NextFrame == IF FrameID = FrameMax THEN 1 ELSE FrameID + 1
NextSeq   == Len(jobs) + 1        \* HA1Control::SequenceID

NewEntry(seq, step, sub, pkt, wait) ==
  [seq |-> seq, st |-> 0, step |-> step, sub |-> sub, pkt |-> pkt, wait |-> wait,
   retry |-> 0, frame |-> IF Radio(step) THEN FrameID ELSE 0, t |-> 0, rest |-> << >>]

WaitTime(step) == IF step.kind = "wait" THEN step.gap ELSE 0

(* The ledger after responses to command s: under its own name (CombiCmd)  *)
(* "ok" OKs and "err" errors, and "subs" under the name of a step.         *)
Told(s, ok, err, subs) ==
  [jobs EXCEPT ![s] = [cmd |-> @.cmd, client |-> @.client,
                       ok |-> @.ok + ok, err |-> @.err + err, subs |-> @.subs + subs]]
Ok(s)  == Told(s, 1, 0, 0)
Err(s) == Told(s, 0, 1, 0)
(* A give-up: Retry responds under ExecCmd, the name of the step, and in   *)
(* the pairing phase its caller responds once more under CombiCmd.         *)
RetryErrSilent(e) == jobs   \* mutant: Retry gives up without a word
RetryErr(e)  == IF e.sub THEN Told(e.seq, 0, 0, 1) ELSE Told(e.seq, 0, 1, 0)
DoubleErr(e) == IF e.sub THEN Told(e.seq, 0, 1, 1) ELSE Told(e.seq, 0, 2, 0)

MatchesUnsent(e, q) == e.frame = q.frame   \* mutant: unsent entries match
Matches(e, q) == /\ e.st = 2
                 /\ e.frame = q.frame
                 /\ q.type = "tx" \/ e.step.dev = q.dev
                 /\ e.step.kind = "at" <=> q.type = "at"

Pairable(i, j) ==
  /\ i \in 1 .. Len(wq) /\ j \in 1 .. Len(rq)
  /\ rq[j].type \in {"at", "tx", "avr"}
  /\ Matches(wq[i], rq[j])
FirstPair(i, j) == /\ Pairable(i, j)
                   /\ \A k \in 1 .. i - 1, m \in 1 .. Len(rq) : ~Pairable(k, m)
                   /\ \A m \in 1 .. j - 1 : ~Pairable(i, m)

(* The least position at or after "from" of a sequence that satisfies P.   *)
First(P(_), s, from, i) == /\ i \in 1 .. Len(s) /\ i >= from /\ P(s[i])
                           /\ \A k \in 1 .. i - 1 : k >= from => ~P(s[k])
NoneOf(P(_), s, from)   == \A i \in 1 .. Len(s) : i >= from => ~P(s[i])

MineAny(e) == TRUE                  \* mutant: a device is taken from its holder
ReadyEarly(e) == e.st = 1000        \* mutant: a step starts before the last one ended
Mine(e)    == lock[e.step.dev] \in {0, e.seq}
Due(e)     == e.st = 1 /\ e.t = 0 /\ (Radio(e.step) => Mine(e))
Late(e)    == /\ e.st = 2
              /\ e.t > IF e.step.dev \in netKnown THEN SendTimeout ELSE LongTimeout
Expired(q) == q.age > ReceiveTimeout
Unsolicited(q) == q.type \in {"keypad", "boot", "status"}
Ready(e)   == /\ e.st = 1000
              /\ \A i \in 1 .. Len(wq) : wq[i].st < 1000 => wq[i].seq # e.seq

Free(d) == [lock EXCEPT ![d] = 0]

(* Retry: a new frame identifier, back to State 0; TRUE when exhausted.    *)
Exhausted(e)     == e.retry + 1 > SendCommandRetry
ResendSame(e, delay) ==   \* mutant: the frame identifier is kept
  [e EXCEPT !.retry = @ + 1, !.st = 0, !.wait = delay]
Resend(e, delay) == [e EXCEPT !.retry = @ + 1, !.st = 0, !.frame = FrameID, !.wait = delay]

(***************************************************************************)
(* Commands: ExecuteCommand and the functions it calls                     *)
(***************************************************************************)

(* The entry of a composite command: its steps are still to be executed.   *)
CombiStep == [kind |-> "mute", dev |-> NoDevice, packets |-> 1, gap |-> 0]
CombiEntry(seq, steps) ==
  [seq |-> seq, st |-> 1000, step |-> CombiStep, sub |-> FALSE, pkt |-> 0, wait |-> 0,
   retry |-> 0, frame |-> 0, t |-> 0, rest |-> steps]

(* A command gets the next SequenceID.  Only the handler of a client       *)
(* answers Finish and Error at once; keypads have nobody to answer.        *)
Start(c, client) ==
  LET step == c.steps[1]
  IN  /\ jobs' = Append(jobs,
           [cmd |-> c, client |-> client, subs |-> 0,
            ok  |-> IF ~c.combi /\ (step.kind = "told" \/ (client /\ step.kind = "done"))
                    THEN 1 ELSE 0,
            err |-> IF ~c.combi /\ client /\ step.kind = "fail" THEN 1 ELSE 0])
      /\ wq' = IF c.combi THEN Append(wq, CombiEntry(NextSeq, c.steps))
               ELSE IF Queued(step)
                    THEN Append(wq, NewEntry(NextSeq, step, FALSE, 0, WaitTime(step)))
                    ELSE wq
      /\ FrameID' = IF ~c.combi /\ Radio(step) THEN NextFrame ELSE FrameID

(***************************************************************************)
(* Ports: what happens while the daemon is out of QueueCheck               *)
(***************************************************************************)

(* CommandIFReceive: a client asks for command c.                          *)
Submit(c) ==
  /\ pc = "select" /\ Len(jobs) < MaxJobs
  /\ Start(c, TRUE)
  /\ UNCHANGED <<rq, lock, netKnown, air, pc, again, cur>>

Arrive(q) == rq' = Append(rq, q)

(* XBeeReceive: a reply arrives and may tell the network address of its    *)
(* device.  Its status byte is looked at only when it is paired, so that   *)
(* is where the model chooses it.                                          *)
Receive(r, known) ==
  /\ pc = "select" /\ Len(rq) < MaxFrames
  /\ known => r.type # "tx"
  /\ air' = air \ {r}
  /\ Arrive([type |-> r.type, frame |-> r.frame, dev |-> r.dev, seq |-> r.seq,
             pkt |-> r.pkt, try |-> r.try, age |-> 0, cmd |-> NoCommand])
  /\ netKnown' = IF known THEN netKnown \cup {r.dev} ELSE netKnown
  /\ UNCHANGED <<wq, lock, FrameID, jobs, pc, again, cur>>

(* XBeeReceive: a device reports a keypad code, a boot-mode entry or a     *)
(* status change on its own; such frames carry identifier 0.               *)
Notify(d, n) ==
  /\ pc = "select" /\ Len(rq) < MaxFrames
  /\ n.cmd # NoCommand => Len(jobs) + Len(rq) < MaxJobs
  /\ Arrive([type |-> n.type, frame |-> 0, dev |-> d, seq |-> 0, pkt |-> 0, try |-> 0,
             age |-> 0, cmd |-> n.cmd])
  /\ UNCHANGED <<wq, lock, FrameID, jobs, netKnown, air, pc, again, cur>>

(* Wakeup after select() returned because of a port.                       *)
Wakeup ==
  /\ pc = "select" /\ pc' = "pair"
  /\ UNCHANGED <<wq, rq, lock, FrameID, jobs, netKnown, air, again, cur>>

OlderStuck(e) == IF e.st = 2 THEN [e EXCEPT !.t = @ + 1] ELSE e  \* mutant: delays last
Older(e) == CASE e.st = 1 -> [e EXCEPT !.t = IF @ = 0 THEN 0 ELSE @ - 1]
              [] e.st = 2 -> [e EXCEPT !.t = @ + 1]
              [] OTHER    -> e

(* Time passes until the alarm signal ends select(), and Wakeup runs.      *)
Tick ==
  /\ pc = "select" /\ pc' = "pair"
  /\ wq' = [i \in 1 .. Len(wq) |-> Older(wq[i])]
  /\ rq' = [j \in 1 .. Len(rq) |-> [rq[j] EXCEPT !.age = @ + 1]]
  /\ UNCHANGED <<lock, FrameID, jobs, netKnown, air, again, cur>>

(***************************************************************************)
(* Pairing, once at the beginning of QueueCheck.  Entry i meets frame j.   *)
(***************************************************************************)
DropFrame(i, j) == wq' = wq /\ rq' = RemoveAt(rq, j)   \* mutant: the entry stays
Drop(i, j) == wq' = RemoveAt(wq, i) /\ rq' = RemoveAt(rq, j)

FinishedLocked(i, j, answers) ==   \* mutant: the device is not released
  /\ Drop(i, j)
  /\ jobs' = answers
  /\ UNCHANGED <<lock, netKnown, air, pc, again, cur>>

(* The transaction of entry e is over: entry and frame go, the device is   *)
(* released, and "answers" is the ledger after the responses.              *)
Finished(i, j, answers) ==
  /\ Drop(i, j)
  /\ lock' = Free(wq[i].step.dev)
  /\ jobs' = answers
  /\ UNCHANGED <<netKnown, air, pc, again, cur>>

TryAgainFree(i, j, delay) ==   \* mutant: the device is released before the resend
  /\ wq' = [wq EXCEPT ![i] = Resend(wq[i], delay)]
  /\ rq' = RemoveAt(rq, j)
  /\ FrameID' = NextFrame
  /\ lock' = Free(wq[i].step.dev)
  /\ UNCHANGED <<jobs, netKnown, air, pc, again, cur>>

TryAgain(i, j, delay) ==
  /\ wq' = [wq EXCEPT ![i] = Resend(wq[i], delay)]
  /\ rq' = RemoveAt(rq, j)
  /\ FrameID' = NextFrame
  /\ UNCHANGED <<lock, jobs, netKnown, air, pc, again, cur>>

PairEndTold(i, j, good) ==   \* mutant: the end of a step answers its composite
  /\ pc = "pair" /\ FirstPair(i, j)
  /\ rq[j].type \in {"at", "avr"}
  /\ good => wq[i].pkt + 1 >= wq[i].step.packets
  /\ Finished(i, j, IF good THEN Ok(wq[i].seq) ELSE Err(wq[i].seq))
  /\ UNCHANGED FrameID

(* A good reply that ends the transaction; the handler of the reply may    *)
(* also end it with an error.                                              *)
PairEnd(i, j, good) ==
  LET e == wq[i] IN
  /\ pc = "pair" /\ FirstPair(i, j)
  /\ rq[j].type \in {"at", "avr"}
  /\ good => e.pkt + 1 >= e.step.packets
  /\ Finished(i, j, IF e.sub THEN jobs ELSE IF good THEN Ok(e.seq) ELSE Err(e.seq))
  /\ UNCHANGED FrameID

PairNextFree(i, j) ==   \* mutant: the device is released between two packets
  LET e == wq[i] IN
  /\ pc = "pair" /\ FirstPair(i, j)
  /\ rq[j].type \in {"at", "avr"}
  /\ e.pkt + 1 < e.step.packets
  /\ wq' = Append(RemoveAt(wq, i), NewEntry(e.seq, e.step, e.sub, e.pkt + 1, e.step.gap))
  /\ rq' = RemoveAt(rq, j)
  /\ FrameID' = NextFrame
  /\ lock' = Free(e.step.dev)
  /\ UNCHANGED <<jobs, netKnown, air, pc, again, cur>>

(* A good reply whose handler queues the next packet of the transaction:   *)
(* the device stays locked.                                                *)
PairNext(i, j) ==
  LET e == wq[i] IN
  /\ pc = "pair" /\ FirstPair(i, j)
  /\ rq[j].type \in {"at", "avr"}
  /\ e.pkt + 1 < e.step.packets
  /\ wq' = Append(RemoveAt(wq, i), NewEntry(e.seq, e.step, e.sub, e.pkt + 1, e.step.gap))
  /\ rq' = RemoveAt(rq, j)
  /\ FrameID' = NextFrame
  /\ UNCHANGED <<lock, jobs, netKnown, air, pc, again, cur>>

(* A reply with an error status is retried after a pause.  An AVR reply is *)
(* retried only while the firmware of the device is not known to be up to  *)
(* date ("retry", FWUpdateFlag < 3); giving up answers twice after Retry.  *)
PairError(i, j, retry) ==
  LET e == wq[i] IN
  /\ pc = "pair" /\ FirstPair(i, j)
  /\ rq[j].type \in {"at", "avr"}
  /\ rq[j].type = "at" => retry
  /\ IF retry /\ ~Exhausted(e)
     THEN TryAgain(i, j, IF rq[j].type = "at" THEN ATRetryWait ELSE e.wait)
     ELSE /\ Finished(i, j, IF retry THEN DoubleErr(e) ELSE Err(e.seq))
          /\ FrameID' = IF retry THEN NextFrame ELSE FrameID

(* The radio reports the delivery of the packet: the entry goes on waiting *)
(* for the device's own reply.                                             *)
Delivered(i, j) ==
  /\ pc = "pair" /\ FirstPair(i, j)
  /\ rq[j].type = "tx"
  /\ rq' = RemoveAt(rq, j)
  /\ UNCHANGED <<wq, lock, FrameID, jobs, netKnown, air, pc, again, cur>>

(* The radio reports that the packet was not delivered.  Address not found *)
(* (status 0x24) gives up at once.                                         *)
NotDelivered(i, j, noaddr) ==
  LET e == wq[i] IN
  /\ pc = "pair" /\ FirstPair(i, j)
  /\ rq[j].type = "tx"
  /\ IF noaddr
     THEN Finished(i, j, Err(e.seq)) /\ UNCHANGED FrameID
     ELSE IF ~Exhausted(e)
          THEN TryAgain(i, j, TxRetryWait)
          ELSE Finished(i, j, DoubleErr(e)) /\ FrameID' = NextFrame

Pair == \E i \in 1 .. Len(wq), j \in 1 .. Len(rq) :
          \/ \E good \in BOOLEAN : PairEnd(i, j, good)
          \/ PairNext(i, j)
          \/ \E retry \in BOOLEAN : PairError(i, j, retry)
          \/ Delivered(i, j)
          \/ \E noaddr \in BOOLEAN : NotDelivered(i, j, noaddr)

Goto(from, to) == pc = from /\ pc' = to

PairDone ==
  /\ Goto("pair", "read")
  /\ \A i \in 1 .. Len(wq), j \in 1 .. Len(rq) : ~Pairable(i, j)
  /\ again' = FALSE
  /\ UNCHANGED <<wq, rq, lock, FrameID, jobs, netKnown, air, cur>>

(***************************************************************************)
(* The loop of QueueCheck: it repeats while checkFlag was raised           *)
(***************************************************************************)

(* ReadQueueCheck: the first notification of a device is consumed.  A      *)
(* keypad code runs its command and raises checkFlag, a boot-mode          *)
(* notification queues a reboot command.                                   *)
ReadNotification(j) ==
  /\ pc = "read"
  /\ First(Unsolicited, rq, 1, j)
  /\ IF rq[j].cmd = NoCommand THEN UNCHANGED <<wq, jobs, FrameID>>
                              ELSE Start(rq[j].cmd, FALSE)
  /\ again' = (again \/ (rq[j].type = "keypad" /\ rq[j].cmd # NoCommand))
  /\ rq' = RemoveAt(rq, j)
  /\ UNCHANGED <<lock, netKnown, air, pc, cur>>

ReadDone ==
  /\ Goto("read", "timer") /\ NoneOf(Unsolicited, rq, 1)
  /\ UNCHANGED <<wq, rq, lock, FrameID, jobs, netKnown, air, again, cur>>

(* WriteQueueTimerCheck: new and retried entries start their delay.        *)
TimerCheck ==
  /\ Goto("timer", "high")
  /\ wq' = [i \in 1 .. Len(wq) |->
              IF wq[i].st = 0 THEN [wq[i] EXCEPT !.st = 1, !.t = wq[i].wait] ELSE wq[i]]
  /\ UNCHANGED <<rq, lock, FrameID, jobs, netKnown, air, again, cur>>

(* The replies a packet may bring: the radio's delivery report and the     *)
(* device's answer, or the answer to an AT command alone.                  *)
Answers(e) ==
  {[type |-> ty, frame |-> e.frame, dev |-> e.step.dev,
    seq |-> e.seq, pkt |-> e.pkt, try |-> e.retry] :
     ty \in IF e.step.kind = "at" THEN {"at"} ELSE {"tx", "avr"}}

SendAny(i) ==   \* mutant: the walk does not keep the order of the queue
  LET e == wq[i] IN
  /\ pc = "high" /\ Due(e) /\ Radio(e.step)
  /\ lock' = [lock EXCEPT ![e.step.dev] = e.seq]
  /\ wq' = [wq EXCEPT ![i].st = 2, ![i].t = 0]
  /\ air' = air \cup Answers(e)
  /\ again' = TRUE
  /\ UNCHANGED <<rq, FrameID, jobs, netKnown, pc, cur>>

(* WriteQueueHighPriorityCheck: an entry whose delay is over and whose     *)
(* device is free, or held by its own sequence, takes the device and is    *)
(* sent.                                                                   *)
Send(i) ==
  LET e == wq[i] IN
  /\ pc = "high" /\ First(Due, wq, 1, i) /\ Radio(e.step)
  /\ lock' = [lock EXCEPT ![e.step.dev] = e.seq]
  /\ wq' = [wq EXCEPT ![i].st = 2, ![i].t = 0]
  /\ air' = air \cup Answers(e)
  /\ again' = TRUE
  /\ UNCHANGED <<rq, FrameID, jobs, netKnown, pc, cur>>

(* A "wait" has no packet: its entry just goes, and nobody is told.        *)
WaitOver(i) ==
  /\ pc = "high" /\ First(Due, wq, 1, i) /\ ~Radio(wq[i].step)
  /\ wq' = RemoveAt(wq, i)
  /\ UNCHANGED <<rq, lock, FrameID, jobs, netKnown, air, pc, again, cur>>

SendDone ==
  /\ Goto("high", "timeout") /\ NoneOf(Due, wq, 1)
  /\ UNCHANGED <<wq, rq, lock, FrameID, jobs, netKnown, air, again, cur>>


(* WriteQueueTimeoutCheck: an entry without its reply in time is resent,   *)
(* or given up with the response of Retry.                                 *)
Timeout(i) ==
  LET e == wq[i] IN
  /\ pc = "timeout" /\ First(Late, wq, 1, i)
  /\ FrameID' = NextFrame
  /\ IF Exhausted(e)
     THEN /\ wq' = RemoveAt(wq, i)
          /\ lock' = Free(e.step.dev)
          /\ jobs' = RetryErr(e)
     ELSE /\ wq' = [wq EXCEPT ![i] = Resend(e, 0)]
          /\ UNCHANGED <<lock, jobs>>
  /\ UNCHANGED <<rq, netKnown, air, pc, again, cur>>

TimeoutDone ==
  /\ Goto("timeout", "rtimeout") /\ NoneOf(Late, wq, 1)
  /\ UNCHANGED <<wq, rq, lock, FrameID, jobs, netKnown, air, again, cur>>

(* ReadQueueTimeoutCheck: a frame nobody paired with is discarded.         *)
Discard(j) ==
  /\ pc = "rtimeout" /\ First(Expired, rq, 1, j)
  /\ rq' = RemoveAt(rq, j)
  /\ UNCHANGED <<wq, lock, FrameID, jobs, netKnown, air, pc, again, cur>>

DiscardDone ==
  /\ Goto("rtimeout", "command") /\ NoneOf(Expired, rq, 1)
  /\ cur' = 1
  /\ UNCHANGED <<wq, rq, lock, FrameID, jobs, netKnown, air, again>>

(* CommandCheck: the composite command at position i has no step in        *)
(* progress.  Without a further step it is answered and goes away.         *)
CombiEnd(i) ==
  LET e == wq[i] IN
  /\ pc = "command" /\ First(Ready, wq, cur, i)
  /\ e.rest # << >> => Head(e.rest).kind = "fail"
  /\ jobs' = IF e.rest = << >> THEN Ok(e.seq) ELSE Err(e.seq)
  /\ wq' = RemoveAt(wq, i)
  /\ cur' = i /\ again' = TRUE
  /\ UNCHANGED <<rq, lock, FrameID, netKnown, air, pc>>

(* Otherwise the next step is executed under the SequenceID of the         *)
(* composite, whose answer is the composite's own.                         *)
CombiStepOn(i) ==
  LET e    == wq[i]
      step == Head(e.rest)
      rest == [wq EXCEPT ![i].rest = Tail(e.rest)]
  IN
  /\ pc = "command" /\ First(Ready, wq, cur, i)
  /\ e.rest # << >> /\ step.kind # "fail"
  /\ wq' = IF Queued(step)
           THEN Append(rest, NewEntry(e.seq, step, TRUE, 0, WaitTime(step)))
           ELSE rest
  /\ FrameID' = IF Radio(step) THEN NextFrame ELSE FrameID
  /\ jobs' = IF step.kind = "told" THEN Told(e.seq, 0, 0, 1) ELSE jobs
  /\ cur' = i + 1 /\ again' = TRUE
  /\ UNCHANGED <<rq, lock, netKnown, air, pc>>

CommandDone ==
  /\ pc = "command" /\ NoneOf(Ready, wq, cur)
  /\ pc' = IF again THEN "read" ELSE "select"
  /\ again' = FALSE /\ cur' = 1
  /\ UNCHANGED <<wq, rq, lock, FrameID, jobs, netKnown, air>>

(***************************************************************************)
(* The specification                                                       *)
(***************************************************************************)
Init ==
  /\ wq = << >> /\ rq = << >> /\ jobs = << >> /\ air = {} /\ netKnown = {}
  /\ lock = [d \in Devices |-> 0]
  /\ FrameID = 1
  /\ pc = "select" /\ again = FALSE /\ cur = 1

Ports == \/ \E c \in Commands : Submit(c)
         \/ \E r \in air, known \in BOOLEAN : Receive(r, known)
         \/ \E d \in Devices, n \in Notices : Notify(d, n)

OnEntry == \E i \in 1 .. Len(wq) :
             Send(i) \/ WaitOver(i) \/ Timeout(i) \/ CombiEnd(i) \/ CombiStepOn(i)
OnFrame == \E j \in 1 .. Len(rq) : ReadNotification(j) \/ Discard(j)

QueueCheck == \/ Pair \/ PairDone
              \/ OnFrame \/ ReadDone \/ TimerCheck
              \/ OnEntry \/ SendDone \/ TimeoutDone \/ DiscardDone \/ CommandDone

Next == Ports \/ Wakeup \/ Tick \/ QueueCheck

Spec == Init /\ [][Next]_vars

(* The thread of the daemon never stops inside QueueCheck, and the alarm   *)
(* of SetIntervalTimer ends select() again and again, whatever the ports   *)
(* do in between.                                                          *)
Fairness == WF_vars(QueueCheck) /\ SF_vars(Tick)
FairSpec == Spec /\ Fairness

(***************************************************************************)
(* Properties                                                              *)
(***************************************************************************)

(* Every variable keeps the values its declaration in HA1Control.h and     *)
(* DeviceList.h gives it.                                                  *)
TypeOK ==
  /\ wq \in Seq(Entry) /\ rq \in Seq(Frame) /\ jobs \in Seq(Job)
  /\ lock \in [Devices -> Nat]
  /\ FrameID \in 1 .. FrameMax
  /\ netKnown \subseteq Devices /\ air \subseteq Reply
  /\ pc \in Phases /\ again \in BOOLEAN /\ cur \in Nat \ {0}

Positions     == 1 .. Len(wq)
Has(s)        == \E i \in Positions : wq[i].seq = s
On(e, d)      == Radio(e.step) /\ e.step.dev = d
(* An entry has started once it was sent, or continues what was sent.      *)
Started(e)    == Radio(e.step) /\ (e.st = 2 \/ e.retry > 0 \/ e.pkt > 0)
Answered(s)   == jobs[s].ok + jobs[s].err > 0
(* Commands that owe an answer: all but a bare wait and those without one. *)
Owes(s)       == \/ jobs[s].cmd.combi
                 \/ Radio(jobs[s].cmd.steps[1])

(* A started transaction holds its device until its last entry goes: no    *)
(* give-up, retry or continuation path lets the device go too early.       *)
LockHeldByStarted ==
  \A i \in Positions : Started(wq[i]) => lock[wq[i].step.dev] = wq[i].seq

(* No path leaves a device locked with nobody to release it, which would   *)
(* make every later command to that device wait for ever.                  *)
NoLockLeak ==
  \A d \in Devices : lock[d] # 0 =>
    \E i \in Positions : Started(wq[i]) /\ On(wq[i], d) /\ wq[i].seq = lock[d]

(* A command has one entry at a time, besides the entry of the composite   *)
(* it belongs to: the steps of a composite never overlap.                  *)
OneEntryPerSequence ==
  \A i, j \in Positions :
    i # j /\ wq[i].seq = wq[j].seq => (wq[i].st = 1000) # (wq[j].st = 1000)

(* No two transactions are in progress on one device.                      *)
DeviceExclusive ==
  \A i, j \in Positions :
    Started(wq[i]) /\ Started(wq[j]) /\ wq[i].step.dev = wq[j].step.dev => i = j

(* A command that owes an answer is not dropped without one.               *)
NoSilentDrop ==
  \A s \in 1 .. Len(jobs) : Owes(s) /\ ~Has(s) => Answered(s)

(* A final answer is final: nothing of an answered command is left to act  *)
(* on a device.  (A composite whose step failed is told so while it goes   *)
(* on; its OK is final.)                                                   *)
AnswerIsFinal ==
  \A s \in 1 .. Len(jobs) :
    /\ ~jobs[s].cmd.combi /\ Answered(s) => ~Has(s)
    /\ jobs[s].ok > 0 => ~Has(s)

(* A single command is told OK once, or an error at most twice (Retry and  *)
(* its caller both report a give-up), and never both.                      *)
OutcomeConsistent ==
  \A s \in 1 .. Len(jobs) :
    /\ jobs[s].ok <= 1
    /\ ~jobs[s].cmd.combi => jobs[s].err <= 2 /\ (jobs[s].ok = 0 \/ jobs[s].err = 0)

(* What every entry has to do with its command.                            *)
EntryOfJob ==
  \A i \in Positions :
    LET e == wq[i]
        c == jobs[e.seq].cmd
    IN  /\ e.seq <= Len(jobs)
        /\ c.combi <=> (e.sub \/ e.st = 1000)
        /\ e.sub => e.st # 1000
        /\ e.st # 1000 /\ ~e.sub => e.step = c.steps[1] /\ ~Answered(e.seq)
        /\ jobs[e.seq].ok = 0
        /\ e.st = 2 => Radio(e.step)
        /\ e.st = 1000 => ~Radio(e.step)

(* The steps of a composite command run while its own entry is there.      *)
StepsBelong ==
  \A i \in Positions : wq[i].sub =>
    \E k \in Positions : wq[k].st = 1000 /\ wq[k].seq = wq[i].seq

(* The inductive invariant behind the lock and the answer properties.      *)
Inductive ==
  /\ TypeOK
  /\ LockHeldByStarted /\ NoLockLeak /\ OneEntryPerSequence
  /\ EntryOfJob /\ StepsBelong
  /\ OutcomeConsistent /\ NoSilentDrop

(* A frame is paired with the very attempt it answers, not with a resent   *)
(* or a later packet: Retry takes a new identifier for that reason.  It    *)
(* needs more identifiers than there are attempts within reach of a late   *)
(* reply.                                                                  *)
PairsOwnAttempt ==
  pc = "pair" => \A i \in Positions, j \in 1 .. Len(rq) : Pairable(i, j) =>
    /\ rq[j].seq = wq[i].seq /\ rq[j].pkt = wq[i].pkt /\ rq[j].try = wq[i].retry

(* A device serves commands in the order of the queue: the sequence that   *)
(* takes a free device is that of the first entry for it.                  *)
ServedInOrder ==
  [][\A d \in Devices : lock[d] = 0 /\ lock'[d] # 0 =>
       \E i \in Positions : /\ On(wq[i], d) /\ wq[i].seq = lock'[d]
                            /\ \A k \in 1 .. i - 1 : ~On(wq[k], d)]_vars

(* The queue implements the abstract account of transactions.              *)
Transactions == INSTANCE DeviceTransactions WITH
  issued  <- Len(jobs),
  running <- [d \in Devices |->
               {wq[i].seq : i \in {k \in Positions : Started(wq[k]) /\ On(wq[k], d)}}],
  over    <- {s \in 1 .. Len(jobs) : ~Has(s)}

ImplementsTransactions == Transactions!Spec

(* Every queued command is worked off, and those that owe an answer get    *)
(* one.                                                                    *)
EveryCommandEnds ==
  \A s \in 1 .. MaxJobs :
    Has(s) ~> (s <= Len(jobs) /\ ~Has(s) /\ (Owes(s) => Answered(s)))
=============================================================================

------------------------------ MODULE Clients ------------------------------
(***************************************************************************)
(* The clients of the daemon (HA1Control_Comunication.cc, Socket.cc):      *)
(* telnet and JSON clients that connect, talk and leave, and the link to   *)
(* the relay server (WebSocket.cc, SecureSocket.cc) that the daemon itself *)
(* opens, keeps alive and opens again.  All share the descriptors, and an  *)
(* answer that comes later knows its client by the descriptor alone.       *)
(*                                                                         *)
(* A message is two units, so that a read may end in the middle of it; a   *)
(* JSON message opens its brace in the first and closes it in the second.  *)
(* What a message says is its kind: a command that is answered later, a    *)
(* change of format, quit, and for JSON a mail, a report of rain, another  *)
(* type, text that does not parse, or braces that do not match.  The rings *)
(* of the clients count units, a unit is lost or kept as a whole.  Time    *)
(* counts in WebSocketAliveInterval.  A write may fail only if its peer    *)
(* has gone; one that TCP still takes then does not count as an access.    *)
(***************************************************************************)
EXTENDS Integers, Sequences, SequencesExt, FiniteSets

CONSTANTS
  WSSServerURL,        \* TRUE if a relay server is configured
  MaxConnect,          \* descriptors that clients may get
  ConnectionTimeout,   \* ticks after which a silent client is dropped
  BufferSize,          \* units of a read; the ring of a client holds one less
  Kinds, WebKinds,     \* what clients, and the relay server, send
  MaxSessions,         \* bound on the connections made
  MaxMessages,         \* bound on the messages of a client,
  MaxPushed,           \* and of the relay server on one link
  MaxUnread            \* bound on the frames of the relay server on their way

Changes == {"text", "json"}             \* format text, format json
Commands == Changes \cup {"cmd", "quit"}
Repeaters == {"rain", "other"}          \* leave cmdBuf as it is
Reports == Repeaters \cup {"mail", "junk"}
Unbalanced == {"stray", "unclosed"}     \* a closing, an opening brace alone
JsonOnly == Reports \cup Unbalanced

ASSUME ClientsAssumption ==
  /\ WSSServerURL \in BOOLEAN
  /\ {MaxConnect, BufferSize, MaxSessions, MaxMessages, MaxPushed, MaxUnread} \subseteq Nat \ {0}
  /\ ConnectionTimeout \in Nat /\ ConnectionTimeout >= 2
  /\ Kinds \subseteq Commands \cup JsonOnly
  /\ WebKinds \subseteq {"cmd"} \cup Reports

Fds == 1 .. MaxConnect
None == 0                   \* no descriptor: -1 in the code

VARIABLES
  ClientIF, Format, InputBuffer,  \* ClientInfo and InputBuffer
  ports,          \* TargetFDs
  age,            \* ticks since LastAccess
  webFd,          \* SocketFd of WebSocketIF
  Sequence, ReceiveLastPacketFin, ReceiveLastOpcode, WebSocketIntialState,
  rx,             \* the call of CommandIFReceive in progress
  jobs,           \* commands in the queue
  peer,           \* the connection behind a descriptor
  made,           \* connections made so far, which number them
  sent,           \* the kinds of the messages of that connection
  line,           \* units, or frames of the relay server, not yet read
  eof,            \* the peer has closed its end
  half,           \* the peer is in the middle of a message
  relay,          \* the relay server's side of the handshake
  pinged,         \* it owes a pong
  upTo,           \* for the properties: the message a connection was served up to,
  lost,           \* the first of its messages that the ring did not take whole,
  ran,            \* the command that the last step ran,
  heard           \* and who heard the answer of a queued command in it

table == <<ClientIF, Format, InputBuffer, ports, age>>
web   == <<webFd, Sequence, ReceiveLastPacketFin, ReceiveLastOpcode, WebSocketIntialState>>
net   == <<peer, made, sent, line, eof, half, relay, pinged>>
past  == <<upTo, lost>>
daemon == <<table, web, rx, jobs, past>>
vars  == <<daemon, net, ran, heard>>

NoCall == [fd |-> None, cmd |-> << >>, fin |-> FALSE]
Quiet == rx = NoCall
Unit(s, n, k, end) == [s |-> s, n |-> n, kind |-> k, end |-> end]
Whole(s, n, k) == <<Unit(s, n, k, FALSE), Unit(s, n, k, TRUE)>>
NoRun == [s |-> 0, cmd |-> << >>, by |-> 0, format |-> "text"]
Nobody == [by |-> {}, format |-> "text"]
RunsNothing == ran' = NoRun
TellsNobody == heard' = Nobody
Silent == RunsNothing /\ TellsNobody

(***************************************************************************)
(* The clients and the relay server                                        *)
(***************************************************************************)
Says(fd, items, more) ==
  /\ line' = [line EXCEPT ![fd] = @ \o items]
  /\ half' = [half EXCEPT ![fd] = more]

(* The format a client is in after its first n messages.                   *)
Mode(fd, n) ==
  LET changes == {i \in 1 .. n : sent[fd][i] \in Changes}
  IN IF changes = {} THEN "text" ELSE sent[fd][Max(changes)]

Adds(fd, k) ==
  /\ ~eof[fd] /\ ~half[fd]
  /\ Len(sent[fd]) < (IF fd = webFd THEN MaxPushed ELSE MaxMessages)
  /\ sent' = [sent EXCEPT ![fd] = Append(@, k)]

Say(fd, k) ==
  /\ ClientIF[fd] = "tcp" /\ Adds(fd, k)
  /\ k \in JsonOnly => Mode(fd, Len(sent[fd])) = "json"
  /\ Says(fd, <<Unit(peer[fd], Len(sent[fd]) + 1, k, FALSE)>>, TRUE)
  /\ Silent /\ UNCHANGED <<daemon, peer, made, eof, relay, pinged>>

SayRest(fd) ==
  /\ ClientIF[fd] = "tcp" /\ ~eof[fd] /\ half[fd]
  /\ Says(fd, <<Unit(peer[fd], Len(sent[fd]), Last(sent[fd]), TRUE)>>, FALSE)
  /\ Silent /\ UNCHANGED <<daemon, peer, made, sent, eof, relay, pinged>>

Leave(fd) ==
  /\ ClientIF[fd] # "none" /\ ~eof[fd]
  /\ eof' = [eof EXCEPT ![fd] = TRUE]
  /\ Silent /\ UNCHANGED <<daemon, peer, made, sent, line, half, relay, pinged>>

Linked == webFd # None /\ ClientIF[webFd] = "web" /\ ~eof[webFd] /\ Len(line[webFd]) < MaxUnread
Frame(op, units) == <<[op |-> op, units |-> units]>>

(* The relay server accepts the handshake, or refuses it.                  *)
Shake ==
  /\ Linked /\ relay = "waiting"
  /\ relay' \in {"up", "refusing"}
  /\ Says(webFd, Frame(IF relay' = "up" THEN "101" ELSE "refusal", << >>), FALSE)
  /\ Silent /\ UNCHANGED <<daemon, peer, made, sent, eof, pinged>>

(* It sends a message in one frame or in two.  Of two frames in one record *)
(* SecureSocket::Receive returns both, WebSocket::Receive looks at the     *)
(* first: a merged one is lost.                                            *)
Push(op, k, merged) ==
  LET s == peer[webFd]
      n == Len(sent[webFd]) + 1
      units == IF op = "text" THEN Whole(s, n, k) ELSE <<Unit(s, n, k, FALSE)>>
  IN /\ Linked /\ relay = "up" /\ Adds(webFd, k)
     /\ merged => line[webFd] # << >>
     /\ Says(webFd, IF merged THEN << >> ELSE Frame(op, units), op = "first")
     /\ Silent /\ UNCHANGED <<daemon, peer, made, eof, relay, pinged>>

PushLast ==
  LET said == sent[webFd] IN
  /\ Linked /\ half[webFd]
  /\ Says(webFd, Frame("last", <<Unit(peer[webFd], Len(said), Last(said), TRUE)>>), FALSE)
  /\ Silent /\ UNCHANGED <<daemon, peer, made, sent, eof, relay, pinged>>

Control(op) ==
  /\ Linked /\ relay = "up"
  /\ op = "pong" => pinged
  /\ \A i \in 1 .. Len(line[webFd]) : line[webFd][i].op # op
  /\ Says(webFd, Frame(op, << >>), half[webFd])
  /\ pinged' = (pinged /\ op # "pong")
  /\ Silent /\ UNCHANGED <<daemon, peer, made, sent, eof, relay>>

(***************************************************************************)
(* Connections                                                             *)
(***************************************************************************)
Free == {fd \in Fds : ClientIF[fd] = "none" /\ fd # webFd}
NewSocket(free) == Min(free)   \* what the kernel hands out

(* A client that connects.  One beyond the table is turned away at once.   *)
CleanInput(fd) == InputBuffer' = [InputBuffer EXCEPT ![fd] = << >>]
AcceptCleans(fd) == CleanInput(fd) /\ Format' = [Format EXCEPT ![fd] = "text"]
AcceptCommandIF ==
  LET fd == NewSocket(Free) IN
  /\ Quiet /\ Free # {} /\ made < MaxSessions
  /\ ClientIF' = [ClientIF EXCEPT ![fd] = "tcp"]
  /\ AcceptCleans(fd)
  /\ ports' = ports \cup {fd}
  /\ age' = [age EXCEPT ![fd] = 0]
  /\ peer' = [peer EXCEPT ![fd] = made + 1]
  /\ made' = made + 1
  /\ Silent /\ UNCHANGED <<web, rx, jobs, past, sent, line, eof, half, relay, pinged>>

(* The peer of a closed descriptor hears and says no more.  The format and *)
(* the input of the client stay behind.                                    *)
PeersGo(fds, new) ==
  /\ peer' = [fd \in Fds |-> IF fd = new THEN made + 1 ELSE IF fd \in fds THEN 0 ELSE peer[fd]]
  /\ made' = IF new = None THEN made ELSE made + 1
  /\ sent' = [fd \in Fds |-> IF fd \in fds THEN << >> ELSE sent[fd]]
  /\ line' = [fd \in Fds |-> IF fd \in fds THEN << >> ELSE line[fd]]
  /\ eof'  = [fd \in Fds |-> fd \notin fds /\ eof[fd]]
  /\ half' = [fd \in Fds |-> fd \notin fds /\ half[fd]]
  /\ upTo' = [fd \in Fds |-> IF fd \in fds THEN 0 ELSE upTo[fd]]
  /\ lost' = [fd \in Fds |-> IF fd \in fds THEN 0 ELSE lost[fd]]

Close(fd) ==
  IF fd = webFd
  THEN webFd' = None /\ Sequence' = 0 /\ ReceiveLastPacketFin' = TRUE
  ELSE UNCHANGED <<webFd, Sequence, ReceiveLastPacketFin>>

DeleteNoPort(fds) == ports   \* mutant: the descriptors are still listened to
DeleteExternalPort(fds) == ports \ fds
Disconnect(fd) ==
  /\ Close(fd)
  /\ ports' = DeleteExternalPort({fd})
  /\ ClientIF' = [ClientIF EXCEPT ![fd] = "none"]
  /\ PeersGo({fd}, None)
  /\ UNCHANGED <<Format, ReceiveLastOpcode, relay, pinged>>

(***************************************************************************)
(* What is told: a JSON answer goes to every JSON client, as a notice does *)
(* (SendNotify), and a write that succeeds counts as an access.            *)
(***************************************************************************)
SendText(fd) == ClientIF[fd] = "web" => Sequence = 3
JsonClients == {fd \in Fds : ClientIF[fd] # "none" /\ Format[fd] = "json"}
Notified == {fd \in JsonClients : SendText(fd)}

HearersTcp(client) ==   \* mutant: the relay server is left out
  IF Format[client] = "json" THEN {fd \in JsonClients : ClientIF[fd] = "tcp"} ELSE {client}
Hearers(client) == IF Format[client] = "json" THEN Notified ELSE {client}

Sent(fds) == {fd \in fds : ~eof[fd]}
Accessed(fds) == age' = [fd \in Fds |-> IF fd \in fds THEN 0 ELSE age[fd]]

(***************************************************************************)
(* CommandIFReceive: the read, of which the ring takes what fits           *)
(* (InputBufferFull), ...                                                  *)
(***************************************************************************)
Ready(fd) == Quiet /\ fd \in ports /\ (line[fd] # << >> \/ eof[fd])

Room(fd) == BufferSize - 1 - Len(InputBuffer[fd])
AddBuffer(fd, units) ==
  IF Len(units) <= Room(fd)
  THEN /\ InputBuffer' = [InputBuffer EXCEPT ![fd] = @ \o units]
       /\ UNCHANGED lost
  ELSE /\ InputBuffer' = [InputBuffer EXCEPT ![fd] = @ \o SubSeq(units, 1, Room(fd))]
       /\ lost' = [lost EXCEPT ![fd] = IF @ = 0 THEN units[Room(fd) + 1].n ELSE @]

ReadClient(fd) ==
  LET size == Min({Len(line[fd]), BufferSize}) IN
  /\ Ready(fd) /\ ClientIF[fd] = "tcp" /\ line[fd] # << >>
  /\ AddBuffer(fd, SubSeq(line[fd], 1, size))
  /\ line' = [line EXCEPT ![fd] = SubSeq(@, size + 1, Len(@))]
  /\ age' = [age EXCEPT ![fd] = 0]
  /\ rx' = [fd |-> fd, cmd |-> << >>, fin |-> TRUE]
  /\ Silent /\ UNCHANGED <<ClientIF, Format, ports, web, jobs, peer, made, sent, eof, half, relay, pinged, upTo>>

(* ... for the relay server WebSocket::Receive.  At every call it is told  *)
(* client_ui and allowClient, until both went out: SendNotify fails while  *)
(* the link is not up, and if any JSON client has gone (fails).            *)
InitialStateOnce(seq, fails) ==   \* mutant: tried only when the link comes up
  WebSocketIntialState' = IF seq = 3 /\ Sequence = 2 /\ ~fails THEN 1 ELSE WebSocketIntialState
InitialState(seq, fails) ==
  WebSocketIntialState' = IF seq = 3 /\ ~fails THEN 1 ELSE WebSocketIntialState

Handshake(op) ==
  /\ op \in {"101", "refusal"}
  /\ Sequence' = IF op = "101" THEN 3 ELSE Sequence
  /\ UNCHANGED <<ReceiveLastPacketFin, ReceiveLastOpcode, InputBuffer, lost, rx>>

Untold == IF WebSocketIntialState = 0 THEN Sent(Notified) ELSE {}

KeepsOpcodeLate(op, opcode) == IF op = "last" THEN opcode ELSE ReceiveLastOpcode   \* mutant
KeepsOpcode(op, opcode) == opcode
Data(op, units) ==
  /\ op \in {"text", "first", "last"}
  /\ IF ReceiveLastPacketFin \/ op = "last"
     THEN LET opcode == IF op = "last" THEN ReceiveLastOpcode ELSE 1 IN
          /\ ReceiveLastPacketFin' = (op # "first")
          /\ ReceiveLastOpcode' = KeepsOpcode(op, opcode)
          /\ AddBuffer(webFd, units)
          /\ rx' = [fd |-> webFd, cmd |-> << >>, fin |-> op # "first" /\ opcode = 1]
     ELSE UNCHANGED <<ReceiveLastPacketFin, ReceiveLastOpcode, InputBuffer, lost, rx>>
  /\ UNCHANGED Sequence

(* A ping is answered, unless a message is under way in fragments.         *)
Echo(op) ==
  /\ op \in {"ping", "pong"}
  /\ UNCHANGED <<Sequence, ReceiveLastPacketFin, ReceiveLastOpcode, InputBuffer, lost, rx>>

(* A close frame ends the message under way, and nothing else.             *)
Goodbye(op) ==
  /\ op = "close"
  /\ ReceiveLastPacketFin' = TRUE
  /\ UNCHANGED <<Sequence, ReceiveLastOpcode, InputBuffer, lost, rx>>

ReadFrame(fails) ==
  LET f == Head(line[webFd]) IN
  /\ webFd # None /\ Ready(webFd) /\ line[webFd] # << >>
  /\ fails => \E fd \in JsonClients : eof[fd]
  /\ line' = [line EXCEPT ![webFd] = Tail(@)]
  /\ Accessed({webFd} \cup Untold)
  /\ Handshake(f.op) \/ Data(f.op, f.units) \/ Echo(f.op) \/ Goodbye(f.op)
  /\ InitialState(Sequence', fails)
  /\ Silent
  /\ UNCHANGED <<ClientIF, Format, ports, webFd, jobs, peer, made, sent, eof, half, relay, pinged, upTo>>

(* The end of a connection leaves the loop at once                         *)
(* (HA1Control_Comunication.cc:71-74), before the code that closes it: the *)
(* descriptor stays, and is ready again and again, until                   *)
(* ClientTimeoutCheck.  For a client nothing changes, the link is not used *)
(* any more.                                                               *)
ReadEnd ==
  /\ webFd # None /\ Ready(webFd) /\ line[webFd] = << >>
  /\ Sequence' = 0
  /\ Accessed(Untold)
  /\ Silent
  /\ UNCHANGED <<ClientIF, Format, InputBuffer, ports, webFd, ReceiveLastPacketFin, ReceiveLastOpcode>>
  /\ UNCHANGED <<WebSocketIntialState, rx, jobs, net, past>>

(***************************************************************************)
(* ... and its loop over the messages of the input.  Text ends at a        *)
(* newline, JSON where its braces match, a message of the relay server     *)
(* with its last fragment.                                                 *)
(***************************************************************************)
Input == InputBuffer[rx.fd]
Web == ClientIF[rx.fd] = "web"

Braced(u) == Mode(rx.fd, u.n - 1) = "json"
Opens  == {i \in 1 .. Len(Input) : Braced(Input[i]) /\ ~Input[i].end /\ Input[i].kind # "stray"}
Closes == {i \in 1 .. Len(Input) : Braced(Input[i]) /\ Input[i].end /\ Input[i].kind # "unclosed"}
Nest(i) == Cardinality(Opens \cap 1 .. i) - Cardinality(Closes \cap 1 .. i)

TextEnds == {i \in 1 .. Len(Input) : Input[i].end}
JsonEnds == {i \in 1 .. Len(Input) : Opens \cap 1 .. i # {} /\ Nest(i) = 0}
Ends == IF Format[rx.fd] = "text" THEN TextEnds ELSE JsonEnds
Complete == IF Web THEN rx.fin /\ Input # << >> ELSE Ends # {}
Taken == IF Web THEN Input ELSE SubSeq(Input, 1, Min(Ends))

(* The connection is in step up to its message n: nothing of it was lost   *)
(* and its braces match.  Behind that a client may be taken to say         *)
(* anything, as pieces of messages are put together; JSON that ends with   *)
(* the brace it opens, or is a part of one message or two, never parses.   *)
InStep(fd, n) ==
  /\ lost[fd] = 0 \/ n < lost[fd]
  /\ \A i \in 1 .. n : sent[fd][i] \notin Unbalanced
IsWhole(cmd) == cmd = Whole(Last(cmd).s, Last(cmd).n, Last(cmd).kind)
ReadAs(cmd) ==
  IF IsWhole(cmd) /\ (Web \/ InStep(rx.fd, Last(cmd).n)) THEN {Last(cmd).kind}
  ELSE {"garbled"} \cup (IF Web \/ ~Last(cmd).end THEN {} ELSE Kinds)

Served == upTo' = [upTo EXCEPT ![rx.fd] = IF Last(Taken).end THEN Last(Taken).n ELSE Last(Taken).n - 1]
RemainsLast(cmd, input) == SubSeq(input, Len(cmd), Len(input))   \* mutant: its end stays as well
Remains(cmd, input) == SubSeq(input, Len(cmd) + 1, Len(input))
Take == /\ rx.fd # None /\ Complete
        /\ InputBuffer' = [InputBuffer EXCEPT ![rx.fd] = Remains(Taken, @)]

(* ExecuteCommand; what is no command is refused.  All but a queued        *)
(* command is answered at once, and client_ui goes out for format json.    *)
Runs(cmd, k) ==
  /\ k # "quit"
  /\ jobs' = IF k = "cmd"
             THEN jobs \cup {[fd |-> rx.fd, s |-> peer[rx.fd], n |-> Last(cmd).n, by |-> Last(Taken).n]}
             ELSE jobs
  /\ Format' = IF k \in Changes THEN [Format EXCEPT ![rx.fd] = k] ELSE Format
  /\ Accessed(Sent((IF k = "cmd" THEN {} ELSE Hearers(rx.fd)) \cup (IF k = "json" THEN Notified ELSE {})))
  /\ ran' = [s |-> peer[rx.fd], cmd |-> cmd, by |-> Last(Taken).n, format |-> Format[rx.fd]]

StopsThere(cmd) == NoCall     \* mutant: one message for each read
Continue(cmd) == [rx EXCEPT !.cmd = cmd]

TakeCommand ==
  /\ Take
  /\ \E k \in ReadAs(Taken) :
       /\ Format[rx.fd] = "text" \/ k \in Commands
       /\ Runs(Taken, k)
  /\ rx' = Continue(Taken)
  /\ Served /\ TellsNobody /\ UNCHANGED <<ClientIF, ports, web, lost, net>>

TakeQuit ==
  /\ Take
  /\ "quit" \in ReadAs(Taken)
  /\ Accessed({rx.fd} \cup Sent(Hearers(rx.fd)))
  /\ Disconnect(rx.fd)
  /\ rx' = NoCall
  /\ Silent /\ UNCHANGED <<jobs, WebSocketIntialState>>

(* A report of rain sets RainInfo, a type that is not known does nothing.  *)
(* Both leave the command buffer as it is: a command that came in the same *)
(* read runs once more.                                                    *)
TakeRepeater ==
  /\ Take
  /\ Format[rx.fd] = "json" /\ ReadAs(Taken) \cap Repeaters # {}
  /\ IF rx.cmd = << >> THEN RunsNothing /\ UNCHANGED <<jobs, Format, age>>
     ELSE \E k \in ReadAs(rx.cmd) : Runs(rx.cmd, k)
  /\ Served /\ TellsNobody /\ UNCHANGED <<ClientIF, ports, web, lost, net, rx>>

TakeMail ==
  /\ Take
  /\ Format[rx.fd] = "json" /\ "mail" \in ReadAs(Taken)
  /\ rx' = Continue(<< >>)
  /\ Accessed(Sent(Notified))
  /\ Served /\ Silent /\ UNCHANGED <<ClientIF, Format, ports, web, jobs, lost, net>>

(* Text that does not parse ends the loop, whatever follows it.            *)
TakeJunk ==
  /\ Take
  /\ Format[rx.fd] = "json" /\ ReadAs(Taken) \cap {"junk", "garbled"} # {}
  /\ rx' = NoCall
  /\ Served /\ Silent /\ UNCHANGED <<ClientIF, Format, ports, age, web, jobs, lost, net>>

(* No message is complete: the read ends.  JSON that closes more braces    *)
(* than it opens is thrown away, with all that came behind it.             *)
Excess == ~Web /\ Format[rx.fd] = "json" /\ Nest(Len(Input)) < 0
Return ==
  /\ rx.fd # None /\ ~Complete
  /\ IF Excess THEN CleanInput(rx.fd) ELSE UNCHANGED InputBuffer
  /\ rx' = NoCall
  /\ Silent /\ UNCHANGED <<ClientIF, Format, ports, age, web, jobs, net, past>>

(***************************************************************************)
(* SendResponse: a command of the queue has come to its end.               *)
(***************************************************************************)
Answer(j) ==
  /\ Quiet /\ j \in jobs
  /\ Format[j.fd] = "text" => ClientIF[j.fd] # "none"
  /\ jobs' = jobs \ {j}
  /\ heard' = [by |-> {peer[fd] : fd \in Hearers(j.fd)}, format |-> Format[j.fd]]
  /\ Accessed(Sent(Hearers(j.fd)))
  /\ RunsNothing /\ UNCHANGED <<ClientIF, Format, InputBuffer, ports, web, rx, net, past>>

NewDaemon ==
  /\ ClientIF' = [fd \in Fds |-> "none"] /\ Format' = [fd \in Fds |-> "text"]
  /\ InputBuffer' = [fd \in Fds |-> << >>] /\ ports' = {}
  /\ age' = [fd \in Fds |-> 0]
  /\ webFd' = None /\ Sequence' = 0 /\ ReceiveLastPacketFin' = TRUE
  /\ ReceiveLastOpcode' = 0 /\ WebSocketIntialState' = 0
  /\ rx' = NoCall /\ jobs' = {}

(* A text client has gone: ResWrite follows the null pointer of its IF.    *)
(* The watchdog starts a new daemon.                                       *)
AnswerNobody(j) ==
  /\ Quiet /\ j \in jobs
  /\ Format[j.fd] = "text" /\ ClientIF[j.fd] = "none"
  /\ NewDaemon
  /\ PeersGo(Fds, None)
  /\ Silent /\ UNCHANGED <<relay, pinged>>

(***************************************************************************)
(* ClientTimeoutCheck: a ping for a quiet relay server, then the silent    *)
(* clients are dropped, then the link is opened if it is not: it comes up, *)
(* fails, or is cut while the handshake is being sent.                     *)
(***************************************************************************)
OldLink(fd) == ClientIF[fd] = "web" /\ age[fd] >= 2   \* mutant: clients may stay
Old(fd) == ClientIF[fd] # "none" /\ age[fd] >= (IF ClientIF[fd] = "web" THEN 2 ELSE ConnectionTimeout)

SendPingBlind == webFd # None /\ ClientIF[webFd] = "web" /\ age[webFd] >= 1   \* mutant: a ping in the handshake
SendPing == webFd # None /\ ClientIF[webFd] = "web" /\ age[webFd] >= 1 /\ Sequence = 3

(* A new link, whose handshake is sent; if that fails the descriptor stays *)
(* with WebSocketIF, and nobody listens to it.                             *)
Outcomes == {"fail", "up", "cut"}
Connect(free, outcome) == IF outcome = "fail" THEN None ELSE NewSocket(free)
WebSocketConnect(again, new) ==
  /\ webFd' = IF again THEN new ELSE webFd
  /\ Sequence' = IF ~again THEN Sequence ELSE IF new = None THEN 0 ELSE 2
  /\ ReceiveLastPacketFin' = (again \/ ReceiveLastPacketFin)

ClientTimeoutCheck(pingFails, outcome) ==
  LET gone == {fd \in Fds : Old(fd)}
      again == webFd = None \/ webFd \in gone
      free == Free \cup gone
      new == Connect(free, outcome)
      up == outcome = "up"
  IN /\ Quiet
     /\ pingFails => SendPing /\ eof[webFd]
     /\ up => made < MaxSessions
     /\ outcome # "fail" => WSSServerURL /\ again /\ free # {}
     /\ WebSocketConnect(again, new)
     /\ ClientIF' = [fd \in Fds |-> IF up /\ fd = new THEN "web" ELSE IF fd \in gone THEN "none" ELSE ClientIF[fd]]
     /\ Format' = IF up THEN [Format EXCEPT ![new] = "json"] ELSE Format
     /\ InputBuffer' = IF up THEN [InputBuffer EXCEPT ![new] = << >>] ELSE InputBuffer
     /\ ports' = DeleteExternalPort(gone) \cup (IF up THEN {new} ELSE {})
     /\ age' = [fd \in Fds |-> IF fd \in gone \cup {new} \/ (fd = webFd /\ SendPing /\ ~pingFails)
                               THEN 0 ELSE age[fd]]
     /\ WebSocketIntialState' = IF up THEN 0 ELSE WebSocketIntialState
     /\ PeersGo(gone, IF up THEN new ELSE None)
     /\ relay' = IF up THEN "waiting" ELSE relay
     /\ pinged' = (~up /\ (pinged \/ SendPing))
     /\ Silent /\ UNCHANGED <<ReceiveLastOpcode, rx, jobs>>

Tick ==
  /\ Quiet
  /\ age' = [fd \in Fds |-> IF ClientIF[fd] = "none" \/ age[fd] = ConnectionTimeout THEN age[fd] ELSE age[fd] + 1]
  /\ Silent /\ UNCHANGED <<ClientIF, Format, InputBuffer, ports, web, rx, jobs, net, past>>

Init ==
  /\ ClientIF = [fd \in Fds |-> "none"] /\ Format = [fd \in Fds |-> "text"]
  /\ InputBuffer = [fd \in Fds |-> << >>] /\ ports = {}
  /\ age = [fd \in Fds |-> 0]
  /\ webFd = None /\ Sequence = 0 /\ ReceiveLastPacketFin = TRUE
  /\ ReceiveLastOpcode = 0 /\ WebSocketIntialState = 0
  /\ rx = NoCall /\ jobs = {}
  /\ peer = [fd \in Fds |-> 0] /\ made = 0 /\ sent = [fd \in Fds |-> << >>]
  /\ line = [fd \in Fds |-> << >>]
  /\ eof = [fd \in Fds |-> FALSE] /\ half = [fd \in Fds |-> FALSE]
  /\ relay = "waiting" /\ pinged = FALSE
  /\ upTo = [fd \in Fds |-> 0] /\ lost = [fd \in Fds |-> 0] /\ ran = NoRun /\ heard = Nobody

CommandIFReceive == TakeCommand \/ TakeQuit \/ TakeRepeater \/ TakeMail \/ TakeJunk \/ Return
Read == \/ \E fd \in Fds : ReadClient(fd)
        \/ \E fails \in BOOLEAN : ReadFrame(fails)
        \/ ReadEnd
Answers == \E j \in jobs : Answer(j) \/ AnswerNobody(j)
TimeoutCheck == \E pingFails \in BOOLEAN, outcome \in Outcomes : ClientTimeoutCheck(pingFails, outcome)
Talk == \/ \E fd \in Fds : (\E k \in Kinds : Say(fd, k)) \/ SayRest(fd) \/ Leave(fd)
        \/ Shake \/ PushLast
        \/ \E op \in {"text", "first"}, k \in WebKinds, merged \in BOOLEAN : Push(op, k, merged)
        \/ \E op \in {"ping", "pong", "close"} : Control(op)
(* What peers say during a call of CommandIFReceive is not seen before its *)
(* end: they may as well wait.                                             *)
Next == (Quiet /\ Talk) \/ AcceptCommandIF \/ Read \/ CommandIFReceive \/ Answers \/ TimeoutCheck \/ Tick

Spec == Init /\ [][Next]_vars

(* The loop of the daemon and the alarm go on, time passes, and a relay    *)
(* server that owes a pong on a link sends it or its connection breaks;    *)
(* before the link is up it may be silent.                                 *)
Fairness ==
  /\ WF_vars(CommandIFReceive) /\ WF_vars(TimeoutCheck) /\ WF_vars(Tick)
  /\ \A fd \in Fds : WF_vars(ReadClient(fd))
  /\ WF_vars((\E fails \in BOOLEAN : ReadFrame(fails)) \/ ReadEnd)
  /\ WF_vars(Control("pong") \/ (relay = "up" /\ webFd # None /\ Leave(webFd)))
FairSpec == Spec /\ Fairness

(***************************************************************************)
(* Properties                                                              *)
(***************************************************************************)
Items == [s : 1 .. made, n : Nat, kind : Kinds \cup WebKinds, end : BOOLEAN]
TypeOK ==
  /\ ClientIF \in [Fds -> {"none", "tcp", "web"}] /\ Format \in [Fds -> {"text", "json"}]
  /\ InputBuffer \in [Fds -> Seq(Items)] /\ ports \subseteq Fds
  /\ age \in [Fds -> 0 .. ConnectionTimeout]
  /\ webFd \in Fds \cup {None} /\ Sequence \in {0, 2, 3} /\ ReceiveLastPacketFin \in BOOLEAN
  /\ ReceiveLastOpcode \in {0, 1} /\ (ReceiveLastPacketFin \/ ReceiveLastOpcode = 1)
  /\ WebSocketIntialState \in {0, 1}
  /\ rx \in [fd : Fds \cup {None}, cmd : Seq(Items), fin : BOOLEAN]
  /\ jobs \subseteq [fd : Fds, s : 1 .. made, n : Nat, by : Nat]
  /\ peer \in [Fds -> 0 .. made] /\ sent \in [Fds -> Seq(Kinds \cup WebKinds)]
  /\ \A fd \in Fds : Len(InputBuffer[fd]) < BufferSize /\ {upTo[fd], lost[fd]} \subseteq 0 .. Len(sent[fd])

(* What the daemon holds of a descriptor agrees in all places: it listens  *)
(* to a descriptor that has a client and to no other, no two clients share *)
(* one, and the relay server has the one WebSocketIF holds, unless its     *)
(* connection was cut in WebSocket::Connect (WebSocket.cc:136).            *)
DescriptorsAgree ==
  /\ ports = {fd \in Fds : ClientIF[fd] # "none"}
  /\ \A fd \in Fds : /\ ClientIF[fd] = "none" <=> peer[fd] = 0
                     /\ ClientIF[fd] = "web" => fd = webFd
                     /\ \A g \in Fds : peer[fd] = peer[g] /\ peer[fd] # 0 => fd = g
  /\ webFd # None => ClientIF[webFd] \in {"web", "none"}
  /\ webFd = None => Sequence = 0
  /\ webFd # None /\ Sequence = 0 => ClientIF[webFd] = "web"

(* A command that runs for a client was put together from what this client *)
(* sent and was not served yet.  As long as the connection is in step, and *)
(* for the relay server always, it is one whole message, read in the       *)
(* format it was written in, and runs once; only a report of rain or JSON  *)
(* of an unknown type in the same read runs the command before it again    *)
(* (HA1Control_Comunication.cc:177-216).                                   *)
OwnCommands ==
  [][ran' # NoRun =>
       LET m == Last(ran'.cmd)
           fd == rx.fd
       IN /\ \A i \in 1 .. Len(ran'.cmd) : ran'.cmd[i].s = ran'.s /\ ran'.cmd[i].n <= m.n
          /\ upTo[fd] < ran'.by /\ m.n <= ran'.by
          /\ ClientIF[fd] = "web" \/ InStep(fd, ran'.by) =>
               /\ ran'.cmd = Whole(ran'.s, m.n, sent[fd][m.n])
               /\ m.n = ran'.by \/ sent[fd][ran'.by] \in Repeaters
               /\ ClientIF[fd] = "tcp" => ran'.format = Mode(fd, ran'.by - 1)]_vars

(* CommandIFReceive leaves no end of a message behind that nothing would   *)
(* make it look at, except JSON behind JSON that does not parse (it leaves *)
(* the loop at HA1Control_Comunication.cc:174), and JSON of a connection   *)
(* out of step, which waits for braces that do not come (152).             *)
NothingLeft ==
  Quiet => \A fd \in Fds : ClientIF[fd] = "tcp" =>
             \A i \in 1 .. Len(InputBuffer[fd]) : InputBuffer[fd][i].end =>
               /\ Format[fd] = "json"
               /\ ~InStep(fd, InputBuffer[fd][i].n) \/ (upTo[fd] # 0 /\ sent[fd][upTo[fd]] = "junk")

(* A client that is still there gets the answer to its command, whoever    *)
(* came and went in between, and a text answer goes to nobody else while   *)
(* its asker is there.                                                     *)
AnswersGoHome ==
  [][\A j \in jobs \ jobs', fd \in Fds :
       peer[fd] = j.s /\ peer'[fd] = j.s =>
         /\ j.s \in heard'.by \/ (ClientIF[fd] = "web" /\ Sequence # 3)
         /\ heard'.format = "text" => heard'.by = {j.s}]_vars

LinkAt(seq) == webFd # None /\ ClientIF[webFd] = "web" /\ Sequence = seq

(* No handshake with the relay server hangs: it succeeds, or the           *)
(* connection is given up.  Links are finitely many here, so a handshake   *)
(* that is there for ever is in the end that of one link.                  *)
HandshakeEnds == []<>~LinkAt(2)

(* While a link is up the relay server learns client_ui and allowClient,   *)
(* also when a client that is told with it has just gone.                  *)
RelayIsTold == []<>(LinkAt(3) => WebSocketIntialState = 1)

(* A client or a relay server that has gone without a word is dropped and  *)
(* its descriptor free again, though the read that ends closes nothing and *)
(* the daemon goes on telling things to the others.                        *)
GoneAreDropped ==
  \A fd \in Fds : (ClientIF[fd] # "none" /\ eof[fd]) ~> ~(ClientIF[fd] # "none" /\ eof[fd])
=============================================================================

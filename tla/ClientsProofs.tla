---------------------------- MODULE ClientsProofs ----------------------------
(***************************************************************************)
(* Proofs about Clients, for any number of descriptors and connections.    *)
(*                                                                         *)
(* A descriptor has one client, connections are numbered upwards, and so a *)
(* command in the queue is that of the client behind its descriptor, or of *)
(* one that has gone: Owner.                                               *)
(***************************************************************************)
EXTENDS Clients, WellFoundedInduction, TLAPS

(* A set of numbers that is not empty has a least one.                     *)
LEMMA LowestExists ==
  ASSUME NEW T \in SUBSET Nat, T # {}
  PROVE  Min(T) \in T /\ \A m \in T : Min(T) <= m
<1> DEFINE R == {ss \in Nat \X Nat : ss[1] < ss[2]}
<1>0. R = OpToRel(<, Nat)
  BY Zenon DEF OpToRel
<1>1. IsWellFoundedOn(R, Nat)
  BY <1>0, NatLessThanWellFounded
<1>2. PICK n \in T : \A m \in T : ~(<<m, n>> \in R)
  <2> HIDE DEF R
  <2> QED  BY <1>1, WFMin
<1>3. ASSUME NEW m \in T, m < n  PROVE FALSE
  <2>1. <<m, n>> \in Nat \X Nat /\ <<m, n>>[1] < <<m, n>>[2]
    BY <1>3
  <2>2. <<m, n>> \in R
    BY <2>1
  <2> QED  BY <1>2, <2>2
<1>4. \A m \in T : n <= m
  BY <1>3
<1> QED  BY <1>4 DEF Min

Typed == /\ ClientIF \in [Fds -> {"none", "tcp", "web"}]
         /\ webFd \in Fds \cup {None} /\ Sequence \in {0, 2, 3}
         /\ made \in Nat /\ peer \in [Fds -> 0 .. made]
         /\ rx = [fd |-> rx.fd, cmd |-> rx.cmd, fin |-> rx.fin] /\ rx.fd \in Fds \cup {None}

(* The call in progress is about a client, a queued command has its owner. *)
Called == rx.fd # None => ClientIF[rx.fd] # "none"
Owner  == \A j \in jobs : /\ j.s \in 1 .. made /\ j.fd \in Fds
                          /\ \A fd \in Fds : peer[fd] = j.s => fd = j.fd

Inductive == Typed /\ DescriptorsAgree /\ Called /\ Owner

LEMMA FdFacts == Fds \subseteq Nat /\ None \notin Fds /\ 0 \notin Fds /\ NoCall.fd = None
BY ClientsAssumption DEF Fds, None, NoCall

LEMMA SocketIsFree ==
  ASSUME NEW free \in SUBSET Fds, free # {}
  PROVE  NewSocket(free) \in free
BY FdFacts, LowestExists DEF NewSocket

LEMMA Stays ==
  ASSUME Inductive, UNCHANGED <<ClientIF, ports, webFd, Sequence, peer, made>>,
         rx' = rx \/ rx' = NoCall, jobs' \subseteq jobs
  PROVE  Inductive'
<1>1. Typed' /\ Called'
  <2>1. CASE rx' = rx
    BY <2>1 DEF Inductive, Typed, Called
  <2>2. CASE rx' = NoCall
    BY <2>2, FdFacts DEF Inductive, Typed, Called, NoCall
  <2> QED  BY <2>1, <2>2
<1>2. Owner'
  BY DEF Inductive, Owner
<1> QED  BY <1>1, <1>2 DEF Inductive, DescriptorsAgree

(* A descriptor that is closed is closed everywhere.                       *)
LEMMA DisconnectStep ==
  ASSUME Inductive, NEW fd \in Fds, Disconnect(fd),
         rx' = NoCall, jobs' = jobs
  PROVE  Inductive'
<1>1. /\ \A g \in Fds : /\ ClientIF'[g] = IF g = fd THEN "none" ELSE ClientIF[g]
                        /\ peer'[g] = IF g = fd THEN 0 ELSE peer[g]
      /\ ClientIF' \in [Fds -> {"none", "tcp", "web"}]
      /\ peer' \in [Fds -> 0 .. made] /\ made' = made /\ ports' = ports \ {fd}
  <2>1. PeersGo({fd}, None)
    BY DEF Disconnect
  <2>2. /\ peer' = [g \in Fds |-> IF g = None THEN made + 1 ELSE IF g \in {fd} THEN 0 ELSE peer[g]]
        /\ made' = made
    BY <2>1 DEF PeersGo
  <2> QED  BY <2>2, FdFacts DEF Disconnect, DeleteExternalPort, Inductive, Typed
<1>2. /\ fd = webFd => webFd' = None /\ Sequence' = 0
      /\ fd # webFd => webFd' = webFd /\ Sequence' = Sequence
  BY DEF Disconnect, Close
<1>3. Typed'
  BY <1>1, <1>2, FdFacts DEF Inductive, Typed, NoCall
<1>4. DescriptorsAgree'
  BY <1>1, <1>2, FdFacts DEF Inductive, Typed, DescriptorsAgree
<1>5. Called'
  BY FdFacts DEF Called
<1>6. Owner'
  BY <1>1, FdFacts DEF Inductive, Owner, Typed
<1> QED  BY <1>3, <1>4, <1>5, <1>6 DEF Inductive

LEMMA AcceptStep == ASSUME Inductive, AcceptCommandIF  PROVE Inductive'
<1> DEFINE fd == NewSocket(Free)
<1>1. fd \in Fds /\ ClientIF[fd] = "none" /\ fd # webFd
  <2>1. Free \in SUBSET Fds /\ Free # {}
    BY DEF AcceptCommandIF, Free
  <2> QED  BY <2>1, SocketIsFree DEF Free
<1>2. /\ ClientIF' = [ClientIF EXCEPT ![fd] = "tcp"] /\ ports' = ports \cup {fd}
      /\ peer' = [peer EXCEPT ![fd] = made + 1] /\ made' = made + 1
      /\ UNCHANGED <<webFd, Sequence, rx, jobs>> /\ rx = NoCall
  BY DEF AcceptCommandIF, AcceptCleans, web, Quiet
<1> HIDE DEF fd
<1>3. Typed'
  BY <1>1, <1>2 DEF Inductive, Typed
<1>4. DescriptorsAgree'
  BY <1>1, <1>2, FdFacts DEF Inductive, Typed, DescriptorsAgree
<1>5. Called'
  BY <1>2, FdFacts DEF Called
<1>6. Owner'
  BY <1>1, <1>2 DEF Inductive, Owner, Typed
<1> QED  BY <1>3, <1>4, <1>5, <1>6 DEF Inductive

LEMMA TalkStep == ASSUME Inductive, Talk  PROVE Inductive'
<1>1. UNCHANGED <<daemon, peer, made>>
  BY DEF Talk, Say, SayRest, Leave, Shake, Push, PushLast, Control
<1> QED  BY <1>1, Stays DEF daemon, table, web

LEMMA ReadFrameStep ==
  ASSUME Inductive, NEW fails \in BOOLEAN, ReadFrame(fails)
  PROVE  Inductive'
<1>1. /\ UNCHANGED <<ClientIF, ports, webFd, jobs, peer, made>>
      /\ webFd # None /\ webFd \in ports
      /\ Sequence' = Sequence \/ Sequence' = 3
      /\ rx' = rx \/ \E fin : rx' = [fd |-> webFd, cmd |-> << >>, fin |-> fin]
  BY DEF ReadFrame, Ready, Handshake, Data, Echo, Goodbye
<1>2. Typed'
  <2>1. rx' = [fd |-> rx'.fd, cmd |-> rx'.cmd, fin |-> rx'.fin] /\ rx'.fd \in Fds \cup {None}
    BY <1>1 DEF Inductive, Typed
  <2> QED  BY <1>1, <2>1 DEF Inductive, Typed
<1>3. DescriptorsAgree' /\ Owner'
  BY <1>1 DEF Inductive, Typed, DescriptorsAgree, Owner
<1>4. Called'
  BY <1>1 DEF Inductive, Called, DescriptorsAgree
<1> QED  BY <1>2, <1>3, <1>4 DEF Inductive

LEMMA ReadStep == ASSUME Inductive, Read  PROVE Inductive'
<1>1. CASE \E fd \in Fds : ReadClient(fd)
  <2> SUFFICES ASSUME NEW fd \in Fds, ReadClient(fd)  PROVE Inductive'
    BY <1>1
  <2>1. /\ UNCHANGED <<ClientIF, ports, webFd, Sequence, jobs, peer, made>>
        /\ ClientIF[fd] = "tcp" /\ rx' = [fd |-> fd, cmd |-> << >>, fin |-> TRUE]
    BY DEF ReadClient, web
  <2> QED  BY <2>1 DEF Inductive, Typed, DescriptorsAgree, Owner, Called
<1>2. CASE ReadEnd
  <2>1. /\ UNCHANGED <<ClientIF, ports, webFd, rx, jobs, peer, made>>
        /\ Sequence' = 0 /\ webFd # None /\ webFd \in ports
    BY <1>2 DEF ReadEnd, Ready, net
  <2>2. ClientIF[webFd] = "web"
    BY <2>1 DEF Inductive, DescriptorsAgree
  <2> QED  BY <2>1, <2>2 DEF Inductive, Typed, DescriptorsAgree, Owner, Called
<1>3. CASE \E fails \in BOOLEAN : ReadFrame(fails)
  BY <1>3, ReadFrameStep
<1> QED  BY <1>1, <1>2, <1>3 DEF Read

(* A command that is queued has the client of the call for its owner.      *)
LEMMA RunsOwner ==
  ASSUME Inductive, rx.fd # None, NEW cmd, NEW k, Runs(cmd, k), UNCHANGED <<peer, made>>
  PROVE  Owner'
<1>1. rx.fd \in Fds /\ peer[rx.fd] \in 1 .. made
  BY DEF Inductive, Typed, Called, DescriptorsAgree
<1>2. \A fd \in Fds : peer[fd] = peer[rx.fd] => fd = rx.fd
  BY <1>1 DEF Inductive, DescriptorsAgree
<1>3. PICK n, by : jobs' \subseteq jobs \cup {[fd |-> rx.fd, s |-> peer[rx.fd], n |-> n, by |-> by]}
  BY DEF Runs
<1> QED  BY <1>1, <1>2, <1>3 DEF Inductive, Owner

LEMMA CallStep == ASSUME Inductive, CommandIFReceive  PROVE Inductive'
<1>1. CASE TakeCommand
  <2>1. /\ UNCHANGED <<ClientIF, ports, webFd, Sequence, peer, made>> /\ rx.fd # None
        /\ rx' = [rx EXCEPT !.cmd = Taken] /\ \E k : Runs(Taken, k)
    BY <1>1 DEF TakeCommand, Take, Continue, web, net
  <2>2. Typed' /\ Called'
    BY <2>1 DEF Inductive, Typed, Called
  <2>3. Owner'
    BY <2>1, RunsOwner
  <2>4. DescriptorsAgree'
    BY <2>1 DEF Inductive, DescriptorsAgree
  <2> QED  BY <2>2, <2>3, <2>4 DEF Inductive
<1>2. CASE TakeQuit
  <2>1. rx.fd \in Fds
    BY <1>2 DEF TakeQuit, Take, Inductive, Typed
  <2> QED  BY <1>2, <2>1, DisconnectStep DEF TakeQuit
<1>3. CASE TakeRepeater
  <2>1. /\ UNCHANGED <<ClientIF, ports, webFd, Sequence, peer, made, rx>> /\ rx.fd # None
        /\ jobs' = jobs \/ \E k : Runs(rx.cmd, k)
    BY <1>3 DEF TakeRepeater, Take, web, net
  <2>2. Owner'
    BY <2>1, RunsOwner DEF Inductive, Owner
  <2> QED  BY <2>1, <2>2 DEF Inductive, Typed, Called, DescriptorsAgree
<1>4. CASE TakeMail
  <2>1. /\ UNCHANGED <<ClientIF, ports, webFd, Sequence, peer, made, jobs>>
        /\ rx' = [rx EXCEPT !.cmd = << >>]
    BY <1>4 DEF TakeMail, Continue, web, net
  <2> QED  BY <2>1 DEF Inductive, Typed, Called, DescriptorsAgree, Owner
<1>5. CASE TakeJunk
  BY <1>5, Stays DEF TakeJunk, web, net
<1>6. CASE Return
  BY <1>6, Stays DEF Return, web, net
<1> QED  BY <1>1, <1>2, <1>3, <1>4, <1>5, <1>6 DEF CommandIFReceive

LEMMA AnswerStep == ASSUME Inductive, Answers  PROVE Inductive'
<1>1. ASSUME NEW j \in jobs, Answer(j)  PROVE Inductive'
  BY <1>1, Stays DEF Answer, web, net
<1>2. ASSUME NEW j \in jobs, AnswerNobody(j)  PROVE Inductive'
  <2>1. /\ ClientIF' = [fd \in Fds |-> "none"] /\ ports' = {} /\ webFd' = None /\ Sequence' = 0
        /\ rx' = NoCall /\ jobs' = {} /\ made' = made
        /\ peer' = [fd \in Fds |-> IF fd = None THEN made + 1 ELSE IF fd \in Fds THEN 0 ELSE peer[fd]]
    BY <1>2 DEF AnswerNobody, NewDaemon, PeersGo
  <2>2. made \in Nat /\ peer' = [fd \in Fds |-> 0]
    BY <2>1, FdFacts DEF Inductive, Typed
  <2> QED  BY <2>1, <2>2, FdFacts
           DEF Inductive, Typed, DescriptorsAgree, Called, Owner, NoCall
<1> QED  BY <1>1, <1>2 DEF Answers

(* The drop of the silent clients and a new link at once.                  *)
LEMMA TimeoutStep ==
  ASSUME Inductive, NEW pingFails \in BOOLEAN, NEW outcome \in Outcomes,
         ClientTimeoutCheck(pingFails, outcome)
  PROVE  Inductive'
<1> DEFINE gone  == {fd \in Fds : Old(fd)}
           again == webFd = None \/ webFd \in gone
           free  == Free \cup gone
           new   == Connect(free, outcome)
           up    == outcome = "up"
<1>1. /\ WebSocketConnect(again, new)
      /\ ClientIF' = [fd \in Fds |-> IF up /\ fd = new THEN "web"
                                     ELSE IF fd \in gone THEN "none" ELSE ClientIF[fd]]
      /\ ports' = (ports \ gone) \cup (IF up THEN {new} ELSE {})
      /\ PeersGo(gone, IF up THEN new ELSE None)
      /\ outcome # "fail" => again /\ free # {}
      /\ rx = NoCall /\ rx' = NoCall /\ jobs' = jobs
  BY DEF ClientTimeoutCheck, DeleteExternalPort, Quiet
<1>2. gone \subseteq Fds /\ free \in SUBSET Fds
  BY DEF Free
<1>3. \A fd \in free : fd \in gone \/ (ClientIF[fd] = "none" /\ fd # webFd)
  BY DEF Free
<1>4. IF outcome = "fail" THEN new = None ELSE new \in free /\ again
  BY <1>1, <1>2, SocketIsFree DEF Connect
<1> HIDE DEF gone, free, new
<1>5. /\ peer' = [fd \in Fds |-> IF fd = (IF up THEN new ELSE None) THEN made + 1
                                 ELSE IF fd \in gone THEN 0 ELSE peer[fd]]
      /\ made' = IF up THEN made + 1 ELSE made
  <2>1. up => new # None
    BY <1>2, <1>4, FdFacts
  <2> QED  BY <1>1, <2>1 DEF PeersGo
<1>6. up => new \in Fds
  BY <1>2, <1>4
<1>7. \A fd \in Fds : peer'[fd] = IF up /\ fd = new THEN made + 1
                                  ELSE IF fd \in gone THEN 0 ELSE peer[fd]
  BY <1>5, FdFacts
<1>8. /\ webFd' = IF again THEN new ELSE webFd
      /\ Sequence' = IF ~again THEN Sequence ELSE IF new = None THEN 0 ELSE 2
  BY <1>1 DEF WebSocketConnect
<1>9. new \in Fds \cup {None}
  BY <1>2, <1>4
<1>10. Typed'
  <2>1. peer' \in [Fds -> 0 .. made'] /\ made' \in Nat
    <3>1. made \in Nat /\ made' \in {made, made + 1} /\ \A fd \in Fds : peer[fd] \in 0 .. made
      BY <1>5 DEF Inductive, Typed
    <3>2. \A fd \in Fds : peer'[fd] \in 0 .. made'
      BY <1>5, <1>7, <3>1
    <3>3. peer' = [fd \in Fds |-> peer'[fd]]
      BY <1>5
    <3> HIDE DEF up
    <3> QED  BY <3>1, <3>2, <3>3
  <2>2. ClientIF' \in [Fds -> {"none", "tcp", "web"}]
    BY <1>1 DEF Inductive, Typed
  <2>3. webFd' \in Fds \cup {None} /\ Sequence' \in {0, 2, 3}
    BY <1>8, <1>9 DEF Inductive, Typed
  <2> QED  BY <1>1, <2>1, <2>2, <2>3, FdFacts DEF Typed, NoCall
<1>11. DescriptorsAgree'
  <2>1. ports' = {fd \in Fds : ClientIF'[fd] # "none"}
    BY <1>1, <1>2, <1>6 DEF Inductive, DescriptorsAgree
  <2>2. \A fd \in Fds : ClientIF'[fd] = "none" <=> peer'[fd] = 0
    BY <1>1, <1>7 DEF Inductive, Typed, DescriptorsAgree
  <2>3. \A fd \in Fds : ClientIF'[fd] = "web" => fd = webFd'
    <3> SUFFICES ASSUME NEW fd \in Fds, ClientIF'[fd] = "web"  PROVE fd = webFd'
      OBVIOUS
    <3>1. CASE up /\ fd = new
      BY <1>4, <1>8, <3>1
    <3>2. CASE ~(up /\ fd = new)
      <4>1. fd \notin gone /\ ClientIF[fd] = "web"
        BY <1>1, <3>2
      <4>2. fd = webFd /\ webFd # None
        BY <4>1, FdFacts DEF Inductive, DescriptorsAgree
      <4> QED  BY <1>8, <4>1, <4>2
    <3> QED  BY <3>1, <3>2
  <2>4. \A fd, g \in Fds : peer'[fd] = peer'[g] /\ peer'[fd] # 0 => fd = g
    <3>1. \A fd \in Fds : peer[fd] # made + 1
      BY DEF Inductive, Typed
    <3> QED  BY <1>7, <3>1 DEF Inductive, DescriptorsAgree
  <2>5. webFd' # None => ClientIF'[webFd'] \in {"web", "none"}
    <3>1. CASE again
      <4>1. webFd' # None => new \in free /\ webFd' = new /\ new \in Fds
        BY <1>2, <1>4, <1>8, <3>1
      <4> QED  BY <1>1, <1>3, <4>1
    <3>2. CASE ~again
      <4>1. outcome = "fail" /\ webFd' = webFd /\ webFd \in Fds
        BY <1>4, <1>8, <3>2 DEF Inductive, Typed
      <4> QED  BY <1>1, <4>1 DEF Inductive, DescriptorsAgree
    <3> QED  BY <3>1, <3>2
  <2>6. webFd' = None => Sequence' = 0
    BY <1>8 DEF Inductive, DescriptorsAgree
  <2>7. webFd' # None /\ Sequence' = 0 => ClientIF'[webFd'] = "web"
    <3>1. CASE again
      BY <1>8, <3>1
    <3>2. CASE ~again
      <4>1. outcome = "fail" /\ webFd' = webFd /\ webFd \in Fds /\ webFd \notin gone
        BY <1>4, <1>8, <3>2 DEF Inductive, Typed
      <4> QED  BY <1>1, <1>8, <3>2, <4>1 DEF Inductive, DescriptorsAgree
    <3> QED  BY <3>1, <3>2
  <2> QED  BY <2>1, <2>2, <2>3, <2>4, <2>5, <2>6, <2>7 DEF DescriptorsAgree
<1>12. Called'
  BY <1>1, FdFacts DEF Called
<1>13. Owner'
  <2>1. made \in Nat /\ made' >= made
    BY <1>5 DEF Inductive, Typed
  <2> QED  BY <1>1, <1>5, <1>7, <2>1 DEF Inductive, Owner
<1> QED  BY <1>10, <1>11, <1>12, <1>13 DEF Inductive

(* What holds of the table of clients in every reachable state.            *)
THEOREM TableInvariant == Spec => []Inductive
<1>1. Init => Inductive
  BY FdFacts DEF Init, Inductive, Typed, DescriptorsAgree, Called, Owner, NoCall
<1>2. Inductive /\ [Next]_vars => Inductive'
  <2> SUFFICES ASSUME Inductive, [Next]_vars  PROVE Inductive'
    OBVIOUS
  <2>1. CASE Tick
    BY <2>1, Stays DEF Tick, web, net
  <2>2. CASE UNCHANGED vars
    BY <2>2, Stays DEF vars, daemon, table, web, net
  <2> QED  BY <2>1, <2>2, TalkStep, AcceptStep, ReadStep, CallStep, AnswerStep, TimeoutStep
           DEF Next, TimeoutCheck
<1> QED  BY <1>1, <1>2, PTL DEF Spec

(* Accepting, dropping, the end of a link and its renewal keep the         *)
(* descriptors of ClientIF, TargetFDs and WebSocketIF in agreement.        *)
THEOREM TableAgrees == Spec => []DescriptorsAgree
<1>1. Inductive => DescriptorsAgree
  BY DEF Inductive
<1> QED  BY <1>1, TableInvariant, PTL

Home == \A j \in jobs \ jobs', fd \in Fds :
          peer[fd] = j.s /\ peer'[fd] = j.s =>
            /\ j.s \in heard'.by \/ (ClientIF[fd] = "web" /\ Sequence # 3)
            /\ heard'.format = "text" => heard'.by = {j.s}

(* The descriptor kept with a command is enough to find its client, for    *)
(* every client that is still there (SendResponse).                        *)
THEOREM AnswersFindTheirClient == Spec => AnswersGoHome
<1>1. Inductive /\ [Next]_vars => [Home]_vars
  <2> SUFFICES ASSUME Inductive, [Next]_vars, NEW j \in jobs \ jobs', NEW fd \in Fds,
                      peer[fd] = j.s, peer'[fd] = j.s
               PROVE  /\ j.s \in heard'.by \/ (ClientIF[fd] = "web" /\ Sequence # 3)
                      /\ heard'.format = "text" => heard'.by = {j.s}
    BY DEF Home
  <2>1. j.s # 0 /\ fd = j.fd
    BY DEF Inductive, Owner
  <2>2. ClientIF[fd] # "none"
    BY <2>1 DEF Inductive, DescriptorsAgree
  <2>3. PICK k \in jobs : Answer(k) \/ AnswerNobody(k)
    <3>1. CASE Answers
      BY <3>1 DEF Answers
    <3>2. CASE ~Answers
      <4>1. jobs \subseteq jobs'
        BY <3>2 DEF Next, Talk, Say, SayRest, Leave, Shake, Push, PushLast, Control,
           AcceptCommandIF, Read, ReadClient, ReadEnd, ReadFrame, CommandIFReceive,
           TakeCommand, TakeQuit, TakeRepeater, TakeMail, TakeJunk, Return, Runs, TimeoutCheck,
           ClientTimeoutCheck, Tick, vars, daemon
      <4> QED  BY <4>1
    <3> QED  BY <3>1, <3>2
  <2>4. CASE AnswerNobody(k)
    <3>1. PeersGo(Fds, None)
      BY <2>4 DEF AnswerNobody
    <3>2. peer'[fd] = 0
      BY <3>1, FdFacts DEF PeersGo
    <3> QED  BY <2>1, <3>2
  <2>5. CASE Answer(k)
    <3>1. /\ jobs' = jobs \ {k}
          /\ heard' = [by |-> {peer[g] : g \in Hearers(k.fd)}, format |-> Format[k.fd]]
      BY <2>5 DEF Answer
    <3>2. k = j
      BY <3>1
    <3>3. CASE Format[fd] = "json"
      <4>1. Hearers(j.fd) = Notified /\ fd \in JsonClients
        BY <2>1, <2>2, <3>3 DEF Hearers, Notified, JsonClients
      <4>2. SendText(fd) => j.s \in heard'.by
        BY <3>1, <3>2, <4>1 DEF Notified
      <4>3. heard'.format # "text"
        BY <2>1, <3>1, <3>2, <3>3
      <4> QED  BY <4>2, <4>3 DEF SendText
    <3>4. CASE Format[fd] # "json"
      <4>1. Hearers(j.fd) = {fd}
        BY <2>1, <3>4 DEF Hearers
      <4> QED  BY <3>1, <3>2, <4>1
    <3> QED  BY <3>3, <3>4
  <2> QED  BY <2>3, <2>4, <2>5
<1> QED  BY <1>1, TableInvariant, PTL DEF Spec, AnswersGoHome, Home
=============================================================================

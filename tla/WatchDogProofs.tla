--------------------------- MODULE WatchDogProofs ---------------------------
(***************************************************************************)
(* Proofs about WatchDog, for every interval and every number of daemons.  *)
(*                                                                         *)
(* The invariant adds two things to the types.  Born: the daemons before   *)
(* the last one were waited for, and none was left when the watchdog forks *)
(* or returns.  Awake: whoever sets a flag of TrapFlag writes to the       *)
(* self-pipe, and only select() followed by the check empties it.          *)
(*                                                                         *)
(* OnTime, at the end, weighs the two clocks of a keep-alive.              *)
(***************************************************************************)
EXTENDS WatchDog, TLAPS

Places == {"unborn", "starting", "hung", "zombie", "reaped"} \cup Looping

Born ==
  /\ \A p \in Pids : p > pid => pc[p] = "unborn"
  /\ \A p \in Pids : p < pid => pc[p] = "reaped"
  /\ wd \in {"fork", "returned"} => \A p \in Pids : p = pid => pc[p] = "reaped"
  /\ wd \in {"setup", "sigwait", "busy", "wait"} => pid \in Pids

Awake ==
  /\ "ALRM" \in trap => pipe
  /\ \A p \in Pids :
       /\ pc[p] = "asleep" => trap = {}
       /\ pc[p] \in {"wakeup", "select", "connecting"} /\ "TERM" \in trap => pipe

Inductive == TypeOK /\ Born /\ Awake

LEMMA ConstantTypes ==
  /\ W \in Nat \ {0} /\ MaxForks \in Nat \ {0} /\ MaxLate \in Nat
  /\ Pids \subseteq Nat /\ OldAge \in Nat /\ None \notin Signals
BY WatchDogAssumption DEF W, Pids, OldAge, None, Signals

LEMMA OnlyTheLast ==
  ASSUME Inductive, NEW p \in Pids, Alive(p)
  PROVE  p = pid /\ wd \notin {"fork", "returned"}
BY ConstantTypes DEF Inductive, TypeOK, Born, Alive

(* Where a daemon goes while it lives does not matter to Born.             *)
LEMMA MovesBorn ==
  ASSUME Inductive, NEW p \in Pids, Alive(p), NEW there,
         pc' = [pc EXCEPT ![p] = there], pid' = pid,
         wd' \notin {"fork", "returned"}, wd' \in {"setup", "sigwait", "busy", "wait"} => pid \in Pids
  PROVE  Born'
<1>1. p = pid
  BY OnlyTheLast
<1>2. pc \in [Pids -> Places]
  BY DEF Inductive, TypeOK, Places
<1> QED  BY <1>1, <1>2, ConstantTypes DEF Inductive, Born, TypeOK

LEMMA StaysBorn ==
  ASSUME Inductive, pc' = pc, pid' = pid,
         wd' \in {"fork", "returned"} => wd \in {"fork", "returned"},
         wd' \in {"setup", "sigwait", "busy", "wait"} => wd \in {"setup", "sigwait", "busy", "wait"}
  PROVE  Born'
BY DEF Inductive, Born

(* What a SIGTERM or a SIGKILL of the watchdog does to the last daemon.    *)
LEMMA KillTermFacts ==
  ASSUME Inductive, wd = "busy", wd' \in {"sigwait", "wait"}, pid' = pid, KillTerm(pid)
  PROVE  /\ pc' \in [Pids -> Places] /\ toWd' \subseteq Signals
         /\ trap' \subseteq {"TERM", "ALRM"} /\ pipe' \in BOOLEAN
         /\ Born' /\ Awake'
<1>1. /\ pid \in Pids /\ pc \in [Pids -> Places] /\ toWd \subseteq Signals
      /\ trap \subseteq {"TERM", "ALRM"} /\ pipe \in BOOLEAN /\ Awake
  BY DEF Inductive, TypeOK, Born, Places
<1>2. CASE UNCHANGED <<pc, trap, pipe, toWd>>
  <2>1. Born'
    BY <1>2, StaysBorn
  <2>2. Awake'
    BY <1>1, <1>2 DEF Awake
  <2> QED  BY <1>1, <1>2, <2>1, <2>2
<1>3. CASE Alive(pid) /\ Dies(pid) /\ (UNCHANGED <<trap, pipe>> \/ SetTrapFlag(pid, "TERM"))
  <2>1. Born'
    BY <1>1, <1>3, MovesBorn DEF Dies
  <2>2. /\ pc' \in [Pids -> Places] /\ toWd' \subseteq Signals
        /\ \A p \in Pids : pc'[p] = IF p = pid THEN "zombie" ELSE pc[p]
    BY <1>1, <1>3 DEF Dies, Places, Signals
  <2>3. trap' \subseteq {"TERM", "ALRM"} /\ pipe' \in BOOLEAN /\ ("ALRM" \in trap' => pipe')
    <3>1. CASE UNCHANGED <<trap, pipe>>
      BY <1>1, <3>1 DEF Awake
    <3>2. CASE SetTrapFlag(pid, "TERM")
      <4>1. pipe' = TRUE /\ trap' \subseteq trap \cup {"TERM"}
        BY <3>2 DEF SetTrapFlag
      <4> QED  BY <1>1, <4>1
    <3> QED  BY <1>3, <3>1, <3>2
  <2>4. \A p \in Pids : p # pid => ~Alive(p)
    BY OnlyTheLast
  <2>5. Awake'
    BY <2>2, <2>3, <2>4 DEF Awake, Alive
  <2> QED  BY <2>1, <2>2, <2>3, <2>5
<1>4. CASE pc[pid] # "asleep" /\ Alive(pid) /\ SetTrapFlag(pid, "TERM") /\ UNCHANGED <<pc, toWd>>
  <2>1. Born'
    BY <1>4, StaysBorn
  <2>2. trap' = trap \cup {"TERM"} /\ pipe' = TRUE
    BY <1>4 DEF SetTrapFlag
  <2>3. \A p \in Pids : p # pid => ~Alive(p)
    BY OnlyTheLast
  <2>4. Awake'
    BY <1>1, <1>4, <2>2, <2>3 DEF Awake, Alive
  <2> QED  BY <1>1, <1>4, <2>1, <2>2, <2>4
<1> QED  BY <1>2, <1>3, <1>4 DEF KillTerm, Alive

LEMMA KillKillFacts ==
  ASSUME Inductive, wd = "busy", wd' \in {"sigwait", "wait"}, pid' = pid, KillKill(pid)
  PROVE  /\ pc' \in [Pids -> Places] /\ toWd' \subseteq Signals
         /\ UNCHANGED <<trap, pipe>>
         /\ Born' /\ Awake'
<1>1. /\ pid \in Pids /\ pc \in [Pids -> Places] /\ toWd \subseteq Signals /\ Awake
  BY DEF Inductive, TypeOK, Born, Places
<1>2. CASE ~Alive(pid)
  <2>1. UNCHANGED <<pc, trap, pipe, toWd>>
    BY <1>2 DEF KillKill
  <2> QED  BY <1>1, <2>1, StaysBorn DEF Awake
<1>3. CASE Alive(pid)
  <2>1. Dies(pid) /\ UNCHANGED <<trap, pipe>>
    BY <1>3 DEF KillKill
  <2>2. Born'
    BY <1>1, <1>3, <2>1, MovesBorn DEF Dies
  <2>3. /\ pc' \in [Pids -> Places] /\ toWd' \subseteq Signals
        /\ \A p \in Pids : pc'[p] = IF p = pid THEN "zombie" ELSE pc[p]
    BY <1>1, <2>1 DEF Dies, Places, Signals
  <2>4. Awake'
    BY <1>1, <2>1, <2>3 DEF Awake
  <2> QED  BY <2>1, <2>2, <2>3, <2>4
<1> QED  BY <1>2, <1>3

-----------------------------------------------------------------------------
(* The steps of the watchdog                                               *)

LEMMA InductiveTypes ==
  ASSUME Inductive
  PROVE  /\ pc \in [Pids -> Places] /\ toWd \subseteq Signals /\ pid \in 0 .. MaxForks
         /\ trap \subseteq {"TERM", "ALRM"} /\ pipe \in BOOLEAN
         /\ alarmIn \in 0 .. W /\ age \in 0 .. OldAge /\ keepIn \in -MaxLate .. W
         /\ requests \in Nat /\ crashes \in Nat /\ lostRow \in 0 .. 2
         /\ TypeOK /\ Born /\ Awake
BY DEF Inductive, TypeOK, Places

LEMMA ForkStep == ASSUME Inductive, Fork  PROVE Inductive'
<1>1. /\ pid + 1 \in Pids /\ pid \in Nat
      /\ \A p \in Pids : pc'[p] = IF p = pid + 1 THEN "starting" ELSE pc[p]
      /\ pc' \in [Pids -> Places]
  BY InductiveTypes, ConstantTypes DEF Fork, Places, Pids
<1>0. 0 \in -MaxLate .. W /\ pid + 1 \in 0 .. MaxForks
  BY <1>1, ConstantTypes DEF Pids
<1>2. TypeOK'
  BY <1>0, <1>1, InductiveTypes DEF Fork, TypeOK, Places
<1>3. Born'
  <2>1. \A p \in Pids : p \in Nat /\ (p > pid => pc[p] = "unborn")
                        /\ (p < pid => pc[p] = "reaped") /\ (p = pid => pc[p] = "reaped")
    BY InductiveTypes, ConstantTypes DEF Born, Fork
  <2>2. pid' = pid + 1 /\ wd' = "setup"
    BY DEF Fork
  <2> QED  BY <1>1, <2>1, <2>2 DEF Born
<1>4. Awake'
  BY DEF Fork, Awake
<1> QED  BY <1>2, <1>3, <1>4 DEF Inductive

LEMMA QuietWatchdogSteps ==
  ASSUME Inductive, ForkFails \/ Setup \/ TakeKeepAlive \/ AlarmFires \/ (\E s \in Signals : Arrives(s))
  PROVE  Inductive'
<1>1. UNCHANGED <<pc, trap, pipe, keepIn, inherited, pid, requests, crashes>>
  BY DEF ForkFails, Setup, TakeKeepAlive, AlarmFires, Arrives, daemon, history
<1>2. /\ wd' \in {"fork", "returned"} => wd \in {"fork", "returned"}
      /\ wd' \in {"setup", "sigwait", "busy", "wait"} => wd \in {"setup", "sigwait", "busy", "wait"}
      /\ wd' \in {"fork", "setup", "sigwait", "busy", "wait", "returned", "killed"}
  BY InductiveTypes DEF TypeOK, ForkFails, Setup, TakeKeepAlive, AlarmFires, Arrives
<1>3. Born'
  BY <1>1, <1>2, StaysBorn
<1>4. Awake'
  BY <1>1, InductiveTypes DEF Awake
<1>5. armed' \in BOOLEAN /\ taken' \in Signals \cup {None} /\ toWd' \subseteq Signals
  <2>1. armed \in BOOLEAN /\ taken \in Signals \cup {None} /\ toWd \subseteq Signals
    BY InductiveTypes DEF TypeOK
  <2>2. CASE ForkFails \/ Setup \/ TakeKeepAlive \/ AlarmFires
    BY <2>1, <2>2 DEF ForkFails, Setup, TakeKeepAlive, AlarmFires, Signals
  <2>3. ASSUME NEW s \in Signals, Arrives(s)
        PROVE  armed' = armed /\ taken' \in {taken, s} /\ toWd' \in {toWd \ {s}, {}}
    BY <2>3 DEF Arrives
  <2> QED  BY <2>1, <2>2, <2>3
<1>6. alarmIn' \in 0 .. W /\ age' \in 0 .. OldAge
  <2>1. alarmIn' \in {alarmIn, W} /\ age' \in {age, 0}
    BY DEF ForkFails, Setup, TakeKeepAlive, AlarmFires, Arrives
  <2>2. W \in 0 .. W /\ 0 \in 0 .. OldAge
    BY ConstantTypes
  <2> QED  BY <2>1, <2>2, InductiveTypes
<1>7. lostRow' \in 0 .. 2
  <2>1. lostRow' \in {lostRow, 0, Min2(lostRow + 1, 2)}
    BY DEF ForkFails, Setup, TakeKeepAlive, AlarmFires, Arrives, history
  <2>2. Min2(lostRow + 1, 2) \in 0 .. 2
    BY InductiveTypes DEF Min2
  <2> QED  BY <2>1, <2>2, InductiveTypes
<1>8. late' \in BOOLEAN
  BY InductiveTypes DEF TypeOK, ForkFails, Setup, TakeKeepAlive, AlarmFires, Arrives, history
<1>9. missed' \in BOOLEAN
  BY InductiveTypes DEF TypeOK, ForkFails, Setup, TakeKeepAlive, AlarmFires, Arrives, history
<1>10. TypeOK'
  BY <1>1, <1>2, <1>5, <1>6, <1>7, <1>8, <1>9, InductiveTypes DEF TypeOK
<1> QED  BY <1>3, <1>4, <1>10 DEF Inductive

LEMMA TakeAlarmStep == ASSUME Inductive, TakeAlarm  PROVE Inductive'
<1>1. wd = "busy" /\ wd' = "sigwait" /\ pid' = pid /\ taken' = None
  BY DEF TakeAlarm
<1>2. \/ KillKill(pid) \/ KillTerm(pid)
      \/ UNCHANGED <<pc, trap, pipe, toWd>>
  BY DEF TakeAlarm
<1>3. /\ pc' \in [Pids -> Places] /\ toWd' \subseteq Signals
      /\ trap' \subseteq {"TERM", "ALRM"} /\ pipe' \in BOOLEAN
      /\ Born' /\ Awake'
  <2>1. CASE KillKill(pid)
    BY <1>1, <2>1, KillKillFacts, InductiveTypes
  <2>2. CASE KillTerm(pid)
    BY <1>1, <2>2, KillTermFacts
  <2>3. CASE UNCHANGED <<pc, trap, pipe, toWd>>
    BY <1>1, <2>3, StaysBorn, InductiveTypes DEF Awake
  <2> QED  BY <1>2, <2>1, <2>2, <2>3
<1>4. TypeOK'
  BY <1>1, <1>3, InductiveTypes DEF TakeAlarm, TypeOK, Places, history
<1> QED  BY <1>3, <1>4 DEF Inductive

LEMMA TakeEndStep == ASSUME Inductive, TakeEnd  PROVE Inductive'
<1>1. wd = "busy" /\ wd' = "wait" /\ pid' = pid /\ taken' = taken
  BY DEF TakeEnd
<1>2. KillTerm(pid) \/ UNCHANGED <<pc, trap, pipe, toWd>>
  BY DEF TakeEnd
<1>3. /\ pc' \in [Pids -> Places] /\ toWd' \subseteq Signals
      /\ trap' \subseteq {"TERM", "ALRM"} /\ pipe' \in BOOLEAN
      /\ Born' /\ Awake'
  <2>1. CASE KillTerm(pid)
    BY <1>1, <2>1, KillTermFacts
  <2>2. CASE UNCHANGED <<pc, trap, pipe, toWd>>
    BY <1>1, <2>2, StaysBorn, InductiveTypes DEF Awake
  <2> QED  BY <1>2, <2>1, <2>2
<1>4. TypeOK'
  BY <1>1, <1>3, InductiveTypes DEF TakeEnd, TypeOK, Places, history
<1> QED  BY <1>3, <1>4 DEF Inductive

LEMMA WaitReturnsStep == ASSUME Inductive, WaitReturns  PROVE Inductive'
<1>1. /\ pid \in Pids /\ wd' \in {"fork", "returned"} /\ pid' = pid
      /\ \A p \in Pids : pc'[p] = IF p = pid THEN "reaped" ELSE pc[p]
      /\ pc' \in [Pids -> Places] /\ toWd' \subseteq Signals
  BY InductiveTypes DEF WaitReturns, Born, Places
<1>2. TypeOK'
  BY <1>1, InductiveTypes DEF WaitReturns, TypeOK, Places, history
<1>3. Born'
  BY <1>1, InductiveTypes, ConstantTypes DEF Born
<1>4. Awake'
  BY <1>1, InductiveTypes DEF WaitReturns, Awake
<1> QED  BY <1>2, <1>3, <1>4 DEF Inductive

-----------------------------------------------------------------------------
(* The steps of the daemon                                                 *)

(* One daemon goes from one place to another.                              *)
LEMMA DaemonMoves ==
  ASSUME Inductive, NEW p \in Pids, Alive(p), NEW there \in Places,
         pc' = [pc EXCEPT ![p] = there], UNCHANGED watchdog,
         toWd' \subseteq Signals, trap' \subseteq {"TERM", "ALRM"}, pipe' \in BOOLEAN,
         keepIn' \in -MaxLate .. W, inherited' \in BOOLEAN, crashes' \in Nat, requests' = requests,
         UNCHANGED history,
         "ALRM" \in trap' => pipe',
         there = "asleep" => trap' = {},
         there \in {"wakeup", "select", "connecting"} /\ "TERM" \in trap' => pipe'
  PROVE  Inductive'
<1>1. p = pid /\ wd \notin {"fork", "returned"} /\ \A q \in Pids : q # p => ~Alive(q)
  BY OnlyTheLast
<1>2. /\ pc' \in [Pids -> Places]
      /\ \A q \in Pids : pc'[q] = IF q = p THEN there ELSE pc[q]
  BY InductiveTypes
<1>3. Born'
  BY <1>1, MovesBorn DEF watchdog
<1>4. Awake'
  BY <1>1, <1>2 DEF Awake, Alive
<1>5. TypeOK'
  BY <1>2, InductiveTypes DEF TypeOK, watchdog, history, Places
<1> QED  BY <1>3, <1>4, <1>5 DEF Inductive

LEMMA ConnectStep == ASSUME Inductive, NEW p \in Pids, Connect(p)  PROVE Inductive'
<1>1. 0 \in -MaxLate .. W
  BY ConstantTypes
<1>2. Alive(p) /\ pc' = [pc EXCEPT ![p] = "check"]
  BY DEF Connect, At, Alive
<1> QED  BY <1>1, <1>2, DaemonMoves, InductiveTypes DEF Connect, Places, Looping, Awake

(* Crash, and a check that finds SIGTERM.                                  *)
LEMMA DiesStep ==
  ASSUME Inductive, NEW p \in Pids, Alive(p), Dies(p),
         UNCHANGED <<watchdog, trap, pipe, keepIn, inherited, requests, history>>, crashes' \in Nat
  PROVE  Inductive'
<1>1. toWd' \subseteq Signals
  BY InductiveTypes DEF Dies, Signals
<1> QED  BY <1>1, DaemonMoves, InductiveTypes DEF Dies, Places, Awake, TypeOK

LEMMA CrashStep == ASSUME Inductive, NEW p \in Pids, Crash(p)  PROVE Inductive'
<1>1. crashes' \in Nat
  BY InductiveTypes DEF Crash
<1> QED  BY <1>1, DiesStep DEF Crash

LEMMA CheckTrapsStep == ASSUME Inductive, NEW p \in Pids, CheckTraps(p)  PROVE Inductive'
<1>1. Alive(p) /\ crashes' \in Nat
  BY InductiveTypes DEF CheckTraps, Alive
<1>2. CASE "TERM" \in trap
  BY <1>1, <1>2, DiesStep DEF CheckTraps
<1>3. CASE "TERM" \notin trap
  BY <1>1, <1>3, DaemonMoves, InductiveTypes DEF CheckTraps, Places, Looping, Awake, TypeOK
<1> QED  BY <1>2, <1>3

LEMMA WakeupStep == ASSUME Inductive, NEW p \in Pids, Wakeup(p)  PROVE Inductive'
<1>1. PICK next \in {"select", "connecting", "hung"} :
         pc[p] = "wakeup" /\ pc' = [pc EXCEPT ![p] = next]
  BY DEF Wakeup, At
<1>2. Alive(p) /\ next \in Places /\ next # "asleep"
  BY <1>1 DEF Alive, Places, Looping
<1>3. toWd' \subseteq Signals
  BY InductiveTypes DEF Wakeup, KeepAlive, Signals
<1>4. keepIn' \in -MaxLate .. W
  BY InductiveTypes, ConstantTypes DEF Wakeup, KeepAlive
<1>5. "TERM" \in trap => pipe
  BY <1>1, InductiveTypes DEF Awake
<1> QED  BY <1>1, <1>2, <1>3, <1>4, <1>5, DaemonMoves, InductiveTypes DEF Wakeup, Awake, TypeOK

LEMMA SelectSteps ==
  ASSUME Inductive, NEW p \in Pids, DrainPipe(p) \/ Sleep(p) \/ ServePort(p) \/ Unblock(p)
  PROVE  Inductive'
<1>0. /\ UNCHANGED <<watchdog, toWd, keepIn, inherited, requests, crashes, history>>
      /\ inherited \in BOOLEAN
  BY InductiveTypes DEF DrainPipe, Sleep, ServePort, Unblock, TypeOK
<1>1. CASE DrainPipe(p)
  <2>1. Alive(p) /\ pc' = [pc EXCEPT ![p] = "check"] /\ trap' = trap \ {"ALRM"} /\ pipe' = FALSE
    BY <1>1 DEF DrainPipe, At, Alive
  <2> QED  BY <1>0, <2>1, DaemonMoves, InductiveTypes DEF Places, Looping
<1>2. CASE Sleep(p)
  <2>1. /\ Alive(p) /\ pc[p] = "select" /\ pc' = [pc EXCEPT ![p] = "asleep"]
        /\ ~pipe /\ trap' = trap /\ pipe' = pipe
    BY <1>2 DEF Sleep, At, Alive
  <2>2. trap = {}
    BY <2>1, InductiveTypes DEF Awake
  <2> QED  BY <1>0, <2>1, <2>2, DaemonMoves, InductiveTypes DEF Places, Looping
<1>3. CASE ServePort(p)
  <2>1. PICK next \in {"check", "serving", "hung"} :
           pc[p] = "asleep" /\ pc' = [pc EXCEPT ![p] = next]
    BY <1>3 DEF ServePort, At
  <2>2. Alive(p) /\ trap = {} /\ trap' = trap /\ pipe' = pipe
    BY <1>3, <2>1, InductiveTypes DEF ServePort, Alive, Awake
  <2> QED  BY <1>0, <2>1, <2>2, DaemonMoves, InductiveTypes DEF Places, Looping
<1>4. CASE Unblock(p)
  <2>1. PICK next \in {"select", "check"} :
           /\ pc[p] \in {"connecting", "serving"} /\ pc' = [pc EXCEPT ![p] = next]
           /\ next = "select" => pc[p] = "connecting"
    BY <1>4 DEF Unblock, At
  <2>2. /\ Alive(p) /\ trap' = trap /\ pipe' = pipe /\ ("ALRM" \in trap => pipe)
        /\ next = "select" /\ "TERM" \in trap => pipe
    BY <1>4, <2>1, InductiveTypes DEF Unblock, Alive, Awake
  <2> QED  BY <1>0, <2>1, <2>2, DaemonMoves, InductiveTypes DEF Places, Looping
<1> QED  BY <1>1, <1>2, <1>3, <1>4

LEMMA DaemonAlarmStep == ASSUME Inductive, NEW p \in Pids, DaemonAlarm(p)  PROVE Inductive'
<1>0. /\ UNCHANGED <<watchdog, toWd, keepIn, inherited, requests, crashes, history>>
      /\ inherited \in BOOLEAN
  BY InductiveTypes DEF DaemonAlarm, TypeOK
<1>1. trap' \subseteq {"TERM", "ALRM"} /\ pipe' = TRUE
  <2>1. SetTrapFlag(p, "ALRM")
    BY DEF DaemonAlarm
  <2> QED  BY <2>1, InductiveTypes DEF SetTrapFlag
<1>2. CASE pc[p] = "asleep"
  <2>1. Alive(p) /\ pc' = [pc EXCEPT ![p] = "check"]
    BY <1>2 DEF DaemonAlarm, Alive
  <2> QED  BY <1>0, <1>1, <2>1, DaemonMoves, InductiveTypes DEF Places, Looping
<1>3. CASE pc[p] = "select"
  <2>1. Alive(p) /\ pc' = [pc EXCEPT ![p] = "select"]
    BY <1>3, InductiveTypes DEF DaemonAlarm, Alive
  <2> QED  BY <1>0, <1>1, <2>1, DaemonMoves, InductiveTypes DEF Places, Looping
<1> QED  BY <1>2, <1>3 DEF DaemonAlarm

-----------------------------------------------------------------------------
(* Time and the operator                                                   *)

LEMMA TickStep == ASSUME Inductive, Tick  PROVE Inductive'
<1>1. UNCHANGED <<pid, wd, armed, taken, toWd, pc, trap, pipe, inherited, requests, crashes, lostRow, missed>>
  BY DEF Tick
<1>2. alarmIn' \in 0 .. W
  BY InductiveTypes, ConstantTypes DEF Tick, Idle
<1>3. age' \in 0 .. OldAge
  BY InductiveTypes, ConstantTypes DEF Tick, Min2
<1>4. keepIn' \in -MaxLate .. W
  <2>1. keepIn' = Max2(keepIn - 1, -MaxLate)
    BY DEF Tick
  <2> QED  BY <2>1, InductiveTypes, ConstantTypes DEF Max2
<1>5. late' \in BOOLEAN
  BY DEF Tick
<1>6. TypeOK'
  BY <1>1, <1>2, <1>3, <1>4, <1>5, InductiveTypes DEF TypeOK
<1> QED  BY <1>1, <1>6, StaysBorn, InductiveTypes DEF Awake, Inductive

LEMMA RequestStep == ASSUME Inductive, NEW s \in Requests, Request(s)  PROVE Inductive'
<1>1. UNCHANGED <<watchdog, daemon, crashes, history>> /\ toWd' \subseteq Signals /\ requests' \in Nat
  BY InductiveTypes DEF Request, Requests, Signals
<1>2. TypeOK'
  BY <1>1, InductiveTypes DEF TypeOK, watchdog, daemon, history
<1> QED  BY <1>1, <1>2, StaysBorn, InductiveTypes DEF Awake, Inductive, watchdog, daemon

(* What holds in every reachable state of the two processes.               *)
THEOREM SupervisionInvariant == Spec => []Inductive
<1>1. Init => Inductive
  <2> SUFFICES ASSUME Init  PROVE Inductive
    OBVIOUS
  <2>1. 0 \in 0 .. W /\ 0 \in 0 .. OldAge /\ 0 \in 0 .. MaxForks /\ 0 \in -MaxLate .. W
        /\ \A p \in Pids : p > 0
    BY ConstantTypes DEF Pids
  <2>2. TypeOK
    <3>1. /\ alarmIn \in 0 .. W /\ age \in 0 .. OldAge /\ pid \in 0 .. MaxForks
          /\ keepIn \in -MaxLate .. W /\ requests \in Nat /\ crashes \in Nat /\ lostRow \in 0 .. 2
      BY <2>1 DEF Init
    <3>2. /\ wd \in {"fork", "setup", "sigwait", "busy", "wait", "returned", "killed"}
          /\ armed \in BOOLEAN /\ taken \in Signals \cup {None} /\ toWd \subseteq Signals
          /\ trap \subseteq {"TERM", "ALRM"} /\ pipe \in BOOLEAN /\ inherited \in BOOLEAN
          /\ late \in BOOLEAN /\ missed \in BOOLEAN
      BY DEF Init
    <3>3. pc \in [Pids -> {"unborn", "starting", "hung", "zombie", "reaped"} \cup Looping]
      BY DEF Init
    <3> QED  BY <3>1, <3>2, <3>3 DEF TypeOK
  <2>3. Born
    BY <2>1, ConstantTypes DEF Init, Born
  <2> QED  BY <2>2, <2>3 DEF Init, Awake, Inductive
<1>2. Inductive /\ [Next]_vars => Inductive'
  <2> SUFFICES ASSUME Inductive, [Next]_vars  PROVE Inductive'
    OBVIOUS
  <2>1. CASE WatchDogStep
    BY <2>1, ForkStep, QuietWatchdogSteps, TakeAlarmStep, TakeEndStep, WaitReturnsStep
       DEF WatchDogStep
  <2>2. CASE \E p \in Pids : DaemonStep(p) \/ ServePort(p) \/ Crash(p)
    BY <2>2, ConnectStep, CheckTrapsStep, WakeupStep, SelectSteps, DaemonAlarmStep, CrashStep
       DEF DaemonStep
  <2>3. CASE Tick
    BY <2>3, TickStep
  <2>4. CASE \E s \in Requests : Request(s)
    BY <2>4, RequestStep
  <2>5. CASE UNCHANGED vars
    <3>1. UNCHANGED <<watchdog, toWd, daemon, requests, crashes, history>>
      BY <2>5 DEF vars
    <3>2. TypeOK'
      BY <3>1, InductiveTypes DEF TypeOK, watchdog, daemon, history
    <3> QED  BY <3>1, <3>2, StaysBorn, InductiveTypes DEF Awake, Inductive, watchdog, daemon
  <2> QED  BY <2>1, <2>2, <2>3, <2>4, <2>5 DEF Next
<1> QED  BY <1>1, <1>2, PTL DEF Spec

(* The timers of both processes and their signals keep to their ranges.    *)
THEOREM SupervisionTypes == Spec => []TypeOK
<1>1. Inductive => TypeOK
  BY DEF Inductive
<1> QED  BY <1>1, SupervisionInvariant, PTL

(* main() never has two daemons: WatchDog() returns only after the wait()  *)
(* for the last one, however signals and crashes fall.                     *)
THEOREM DaemonsDoNotOverlap == Spec => []OneDaemon
<1>1. Inductive => OneDaemon
  BY OnlyTheLast DEF OneDaemon
<1> QED  BY <1>1, SupervisionInvariant, PTL

(* When the watchdog has stopped no daemon is left to hold the ports.      *)
THEOREM StopLeavesNothing == Spec => []StopStops
<1>1. Inductive => StopStops
  BY OnlyTheLast DEF StopStops
<1> QED  BY <1>1, SupervisionInvariant, PTL

(* The self-pipe closes the window between the check of the trap flags and *)
(* select(), wherever in the loop a signal falls.                          *)
THEOREM NoSignalIsSlept == Spec => []SleepsSoundly
<1>1. Inductive => SleepsSoundly
  BY DEF SleepsSoundly, Inductive, Awake
<1> QED  BY <1>1, SupervisionInvariant, PTL

-----------------------------------------------------------------------------
(* The clocks.  While the daemon is always asleep when time passes, its    *)
(* keep-alive is never overdue: age and keepIn, the time since the last    *)
(* one that was heard and the time to the next, add up to an interval, and *)
(* to one more for each that was lost.  A keep-alive on its way may raise  *)
(* the sum, but no time passes before it is heard or lost.                 *)
OnItsWay == "USR1" \in toWd \/ (wd = "busy" /\ taken = "USR1")
Due == IF lostRow = 0 THEN W ELSE 2 * W
OnTime == wd \in {"sigwait", "busy"} /\ ~late /\ lostRow < 2
            => age <= Due /\ (OnItsWay \/ age + keepIn <= Due)

LEMMA ClockTypes ==
  ASSUME Inductive
  PROVE  /\ age \in Nat /\ keepIn \in Int /\ keepIn <= W /\ lostRow \in 0 .. 2 /\ late \in BOOLEAN
         /\ W \in Nat /\ 2 * W \in Nat /\ W <= 2 * W
BY ConstantTypes DEF Inductive, TypeOK

LEMMA ClocksStand ==
  ASSUME OnTime, UNCHANGED <<age, keepIn, lostRow, late>>,
         wd' \in {"sigwait", "busy"} => wd \in {"sigwait", "busy"} /\ (OnItsWay => OnItsWay')
  PROVE  OnTime'
BY DEF OnTime, Due

LEMMA ClockStarts ==
  ASSUME Inductive, age' = 0, lostRow' = 0, keepIn' = keepIn
  PROVE  OnTime'
BY ClockTypes DEF OnTime, Due

LEMMA ArrivesOnTime ==
  ASSUME Inductive, OnTime, NEW s \in Signals, Arrives(s)
  PROVE  OnTime'
<1>1. UNCHANGED <<age, keepIn, late>>
  BY DEF Arrives, daemon
<1>2. CASE wd = "sigwait"
  <2>1. wd' = "busy" /\ taken' = s /\ toWd' = toWd \ {s} /\ lostRow' = lostRow
    BY <1>2 DEF Arrives
  <2> QED  BY <1>1, <1>2, <2>1, ClocksStand DEF OnItsWay
<1>3. CASE wd = "busy" /\ wd' = "busy"
  <2>1. /\ toWd' = toWd \ {s} /\ taken' = taken
        /\ lostRow' = IF s = "USR1" THEN Min2(lostRow + 1, 2) ELSE lostRow
    BY <1>3 DEF Arrives
  <2>2. CASE s # "USR1"
    BY <1>1, <1>3, <2>1, <2>2, ClocksStand DEF OnItsWay
  <2>3. CASE s = "USR1" /\ lostRow = 0
    <3>1. lostRow' = 1
      BY <2>1, <2>3 DEF Min2
    <3>2. ~late => age <= W
      BY <1>3, <2>3 DEF OnTime, Due
    <3> QED  BY <1>1, <3>1, <3>2, ClockTypes DEF OnTime, Due
  <2>4. CASE s = "USR1" /\ lostRow # 0
    <3>1. lostRow' = 2
      BY <2>1, <2>4, ClockTypes DEF Min2
    <3> QED  BY <3>1 DEF OnTime
  <2> QED  BY <2>2, <2>3, <2>4
<1>4. CASE wd # "sigwait" /\ ~(wd = "busy" /\ wd' = "busy")
  <2>1. wd' \notin {"sigwait", "busy"}
    BY <1>4 DEF Arrives
  <2> QED  BY <2>1 DEF OnTime
<1> QED  BY <1>2, <1>3, <1>4

LEMMA AlarmOnTime == ASSUME Inductive, OnTime, TakeAlarm  PROVE OnTime'
<1>1. /\ wd = "busy" /\ taken = "ALRM" /\ UNCHANGED <<age, keepIn, lostRow, late>>
      /\ KillKill(pid) \/ KillTerm(pid) \/ toWd' = toWd
  BY DEF TakeAlarm, history
<1>2. toWd \subseteq toWd'
  BY <1>1 DEF KillKill, KillTerm, Dies
<1> QED  BY <1>1, <1>2, ClocksStand DEF OnItsWay

LEMMA WatchdogOnTime == ASSUME Inductive, OnTime, WatchDogStep  PROVE OnTime'
<1>1. CASE Setup \/ TakeKeepAlive
  BY <1>1, ClockStarts DEF Setup, TakeKeepAlive, daemon
<1>2. CASE AlarmFires
  BY <1>2, ClocksStand DEF AlarmFires, daemon, history, OnItsWay
<1>3. CASE Fork \/ ForkFails \/ TakeEnd \/ WaitReturns
  <2>1. wd' \in {"setup", "returned", "wait", "fork"}
    BY <1>3 DEF Fork, ForkFails, TakeEnd, WaitReturns
  <2> QED  BY <2>1 DEF OnTime
<1> QED  BY <1>1, <1>2, <1>3, ArrivesOnTime, AlarmOnTime DEF WatchDogStep

(* A keep-alive is sent when its time has come, and then it is on its way. *)
LEMMA WakeupOnTime == ASSUME Inductive, OnTime, NEW p \in Pids, Wakeup(p)  PROVE OnTime'
<1>1. UNCHANGED <<age, lostRow, late, wd, taken>> /\ KeepAlive(p)
  BY DEF Wakeup, watchdog, history
<1>2. CASE wd \in {"sigwait", "busy"} /\ keepIn <= 0
  <2>1. OnItsWay'
    BY <1>1, <1>2 DEF KeepAlive, Watching, OnItsWay
  <2> QED  BY <1>1, <1>2, <2>1 DEF OnTime, Due
<1>3. CASE wd \in {"sigwait", "busy"} /\ ~(keepIn <= 0)
  <2>1. keepIn' = keepIn /\ toWd' = toWd
    BY <1>1, <1>3 DEF KeepAlive
  <2> QED  BY <1>1, <2>1, ClocksStand DEF OnItsWay
<1>4. CASE wd \notin {"sigwait", "busy"}
  BY <1>1, <1>4 DEF OnTime
<1> QED  BY <1>2, <1>3, <1>4

LEMMA DaemonOnTime ==
  ASSUME Inductive, OnTime, NEW p \in Pids, DaemonStep(p) \/ ServePort(p) \/ Crash(p)
  PROVE  OnTime'
<1>1. CASE Connect(p)
  <2>1. UNCHANGED <<age, lostRow, late, wd, taken, toWd>> /\ keepIn' = 0
    BY <1>1 DEF Connect, watchdog, history
  <2>2. age + 0 = age
    BY ClockTypes
  <2> QED  BY <2>1, <2>2 DEF OnTime, Due, OnItsWay
<1>2. CASE CheckTraps(p) \/ DrainPipe(p) \/ Sleep(p) \/ Unblock(p) \/ DaemonAlarm(p) \/ ServePort(p) \/ Crash(p)
  <2>1. UNCHANGED <<age, keepIn, lostRow, late, wd, taken>> /\ toWd \subseteq toWd'
    BY <1>2 DEF CheckTraps, DrainPipe, Sleep, Unblock, DaemonAlarm, ServePort, Crash, Dies, watchdog, history
  <2> QED  BY <2>1, ClocksStand DEF OnItsWay
<1> QED  BY <1>1, <1>2, WakeupOnTime DEF DaemonStep

(* Time passes only while no keep-alive is on its way or due.              *)
LEMMA TickOnTime == ASSUME Inductive, OnTime, Tick  PROVE OnTime'
<1>1. SUFFICES ASSUME wd \in {"sigwait", "busy"}, ~late', lostRow < 2
               PROVE  age' <= Due /\ age' + keepIn' <= Due
  BY DEF Tick, OnTime, Due
<1>2. wd = "sigwait" /\ toWd = {} /\ ~late /\ pid # 0 /\ pc[pid] = "asleep"
  BY <1>1 DEF Tick, Idle
<1>3. keepIn > 0
  <2>1. pid \in Pids
    BY <1>2 DEF Inductive, Born
  <2> QED  BY <1>2, <2>1 DEF Tick, Idle, Alive
<1>4. age <= Due /\ age + keepIn <= Due
  BY <1>1, <1>2 DEF OnTime, OnItsWay
<1>5. Due \in Nat
  BY ClockTypes DEF Due
<1>6. age' <= age + 1 /\ age' \in Nat
  BY ClockTypes, ConstantTypes DEF Tick, Min2
<1>7. keepIn' = keepIn - 1
  BY <1>3, ClockTypes, ConstantTypes DEF Tick, Max2
<1> QED  BY <1>3, <1>4, <1>5, <1>6, <1>7, ClockTypes

(* The keep-alives of a daemon that is on time outrun the watchdog.        *)
THEOREM KeepAlivesInTime == Spec => [](Inductive /\ OnTime)
<1>1. Init => OnTime
  BY DEF Init, OnTime
<1>2. Inductive /\ OnTime /\ [Next]_vars => OnTime'
  <2> SUFFICES ASSUME Inductive, OnTime, [Next]_vars  PROVE OnTime'
    OBVIOUS
  <2>1. CASE \E s \in Requests : Request(s)
    BY <2>1, ClocksStand DEF Request, watchdog, daemon, history, OnItsWay
  <2>2. CASE UNCHANGED vars
    BY <2>2, ClocksStand DEF vars, watchdog, daemon, history, OnItsWay
  <2> QED  BY <2>1, <2>2, WatchdogOnTime, DaemonOnTime, TickOnTime DEF Next
<1> QED  BY <1>1, <1>2, SupervisionInvariant, PTL DEF Spec

Spared == wd = "busy" /\ taken = "ALRM" /\ wd' = "sigwait" /\ <<pc, trap>>' # <<pc, trap>>
            => lostRow >= 2 \/ late

(* The watchdog sends no signal to a daemon that has always been in        *)
(* select() in time, unless two of its keep-alives in a row were lost.     *)
THEOREM PunctualDaemonsAreSpared == Spec => PunctualIsSpared
<1>1. Inductive /\ OnTime /\ [Next]_vars => [Spared]_vars
  <2> SUFFICES ASSUME Inductive, OnTime, Next, wd = "busy", taken = "ALRM", wd' = "sigwait",
                      <<pc, trap>>' # <<pc, trap>>, ~(lostRow >= 2), ~late
               PROVE  FALSE
    BY DEF Spared
  <2>1. TakeAlarm
    BY DEF Next, WatchDogStep, Fork, ForkFails, Setup, TakeKeepAlive, TakeEnd, WaitReturns, AlarmFires,
           Arrives, DaemonStep, Connect, CheckTraps, Wakeup, DrainPipe, Sleep, Unblock, DaemonAlarm,
           ServePort, Crash, Request, Tick, watchdog
  <2>2. age > 2 * W
    <3>1. age > 3 * W \/ age > 2 * W
      BY <2>1 DEF TakeAlarm
    <3> QED  BY <3>1, ClockTypes
  <2>3. age <= Due /\ Due <= 2 * W /\ Due \in Nat
    BY ClockTypes DEF OnTime, Due
  <2> QED  BY <2>2, <2>3, ClockTypes
<1> QED  BY <1>1, KeepAlivesInTime, PTL DEF Spec, PunctualIsSpared, Spared
=============================================================================

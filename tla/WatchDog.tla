------------------------------ MODULE WatchDog ------------------------------
(***************************************************************************)
(* The two processes of the daemon (Main.cc, Service.cc): main() forks the *)
(* daemon and watches it with signals, the daemon sleeps in select() and   *)
(* is woken by signals of its own.                                         *)
(*                                                                         *)
(* The watchdog takes signals with sigwait() but never blocks them: a      *)
(* signal that arrives while it is not inside sigwait() runs the empty     *)
(* handler TrapSignalWatchdog and is gone.  Before the first sigaction()   *)
(* it meets the default action.  A daemon that is forked anew inherits the *)
(* empty handlers until Scheduler installs its own.                        *)
(*                                                                         *)
(* Time passes (Tick) while nobody has anything to do.  What the daemon    *)
(* does when it serves a port or wakes up may take long (a connection to   *)
(* the relay server, a recording) or never end.                            *)
(***************************************************************************)
EXTENDS Integers

CONSTANTS
  WatchDogInterval, \* ticks between two keep-alives and between two alarms
  MaxForks,         \* bound on the daemons started; pids are 1..MaxForks
  MaxLate,          \* bound on how overdue a keep-alive is remembered to be
  MaxRequests,      \* bound on the signals of the operator
  MaxCrashes        \* bound on the daemons that crash or fail to connect

ASSUME WatchDogAssumption ==
  /\ WatchDogInterval \in Nat \ {0}
  /\ MaxForks \in Nat \ {0}
  /\ {MaxLate, MaxRequests, MaxCrashes} \subseteq Nat

W == WatchDogInterval
OldAge == 3 * W + 1                 \* ages are not told apart from here on
Pids == 1 .. MaxForks

Signals == {"INT", "HUP", "TERM", "CHLD", "ALRM", "USR1"}
Requests == {"INT", "HUP", "TERM"}  \* what an operator may send
None == "none"                  \* the loop goes on: the variable signal is dead
EndsNoChild == {"INT", "HUP", "TERM"}   \* mutant: SIGCHLD does not end the loop
Ends == {"INT", "HUP", "TERM", "CHLD"}

VARIABLES
  wd,        \* what the watchdog is doing
  armed,     \* its handlers are installed
  taken,     \* the signal sigwait() returned
  toWd,      \* signals on their way to it
  alarmIn,   \* ticks to its next SIGALRM
  age,       \* ticks since lastKeepAliveTime
  pid,       \* the daemon forked last
  pc,        \* pc[p]: where daemon p is
  trap,      \* TrapFlag of the daemon
  pipe,      \* its SelfPipe holds a byte
  keepIn,    \* ticks to KeepAliveTime
  inherited, \* its handlers were inherited from the watchdog
  requests, crashes,
  lostRow, late, missed    \* for the properties: keep-alives lost in a row, the daemon
                           \* was busy in between, its SIGCHLD was lost

watchdog == <<wd, armed, taken, alarmIn, age, pid>>
daemon   == <<pc, trap, pipe, keepIn, inherited>>
history  == <<lostRow, late, missed>>
vars == <<watchdog, toWd, daemon, requests, crashes, history>>

Alive(p)  == pc[p] \notin {"unborn", "zombie", "reaped"}
Looping == {"check", "wakeup", "select", "asleep", "connecting", "serving"}
Watching == wd \in {"fork", "setup", "sigwait", "busy", "wait"}

Min2(a, b) == IF a < b THEN a ELSE b
Max2(a, b) == IF a > b THEN a ELSE b

(***************************************************************************)
(* Signals to the daemon                                                   *)
(***************************************************************************)
(* The daemon ends: SIGCHLD goes to its parent, if that still lives.       *)
Dies(p) == /\ pc' = [pc EXCEPT ![p] = "zombie"]
           /\ toWd' = IF Watching THEN toWd \cup {"CHLD"} ELSE toWd

(* SetTrapFlag; a sleeping select() returns with EINTR and its branch      *)
(* clears the flag: SIGTERM ends the loop, SIGALRM starts the next round.  *)
SetTrapFlagOnly(p, s) ==   \* mutant: the flag without the byte
  /\ trap' = trap \cup {s}
  /\ UNCHANGED pipe
SetTrapFlag(p, s) ==
  /\ trap' = IF pc[p] = "asleep" THEN trap \ {s} ELSE trap \cup {s}
  /\ pipe' = TRUE

KillTerm(p) ==
  CASE ~Alive(p) -> UNCHANGED <<pc, trap, pipe, toWd>>
    [] pc[p] = "starting" /\ inherited -> UNCHANGED <<pc, trap, pipe, toWd>>
    [] pc[p] = "starting" /\ ~inherited -> Dies(p) /\ UNCHANGED <<trap, pipe>>
    [] pc[p] = "asleep" -> Dies(p) /\ SetTrapFlag(p, "TERM")
    [] OTHER -> SetTrapFlag(p, "TERM") /\ UNCHANGED <<pc, toWd>>

KillKill(p) == /\ IF Alive(p) THEN Dies(p) ELSE UNCHANGED <<pc, toWd>>
               /\ UNCHANGED <<trap, pipe>>

(***************************************************************************)
(* The watchdog                                                            *)
(***************************************************************************)
Fork ==
  /\ wd = "fork"
  /\ pid < MaxForks
  /\ wd' = "setup"
  /\ pid' = pid + 1
  /\ pc' = [pc EXCEPT ![pid + 1] = "starting"]
  /\ trap' = {} /\ pipe' = FALSE /\ keepIn' = 0
  /\ inherited' = armed
  /\ missed' = FALSE
  /\ UNCHANGED <<armed, taken, alarmIn, age, toWd, requests, crashes, lostRow, late>>

ForkFails ==
  /\ wd = "fork"
  /\ wd' = "returned"
  /\ toWd' = {}
  /\ UNCHANGED <<pid, armed, taken, alarmIn, age, daemon, requests, crashes, history>>

(* WatchDog() up to its loop: handlers, the interval timer, the time.      *)
Setup ==
  /\ wd = "setup"
  /\ wd' = "sigwait"
  /\ armed' = TRUE
  /\ alarmIn' = W
  /\ age' = 0 /\ lostRow' = 0 /\ late' = FALSE
  /\ UNCHANGED <<pid, taken, toWd, daemon, requests, crashes, missed>>

(* A signal arrives: sigwait() returns it, or a handler swallows it, or it *)
(* meets the default action (SIGCHLD is ignored, the others kill).         *)
Arrives(s) ==
  /\ s \in toWd
  /\ CASE wd = "sigwait" ->
            /\ wd' = "busy" /\ taken' = s
            /\ toWd' = toWd \ {s}
            /\ UNCHANGED <<lostRow, missed>>
       [] wd # "sigwait" /\ (armed \/ s = "CHLD") ->
            /\ toWd' = toWd \ {s}
            /\ lostRow' = IF s = "USR1" THEN Min2(lostRow + 1, 2) ELSE lostRow
            /\ missed' = (missed \/ s = "CHLD")
            /\ UNCHANGED <<wd, taken>>
       [] wd # "sigwait" /\ ~armed /\ s # "CHLD" ->
            /\ wd' = "killed"
            /\ toWd' = {}
            /\ UNCHANGED <<taken, lostRow, missed>>
  /\ UNCHANGED <<pid, armed, alarmIn, age, daemon, requests, crashes, late>>

TakeKeepAlive ==
  /\ wd = "busy" /\ taken \notin Ends \cup {"ALRM"}
  /\ wd' = "sigwait"
  /\ age' = 0 /\ lostRow' = 0 /\ late' = FALSE
  /\ taken' = None
  /\ UNCHANGED <<pid, armed, alarmIn, toWd, daemon, requests, crashes, missed>>

TakeAlarmHasty ==   \* mutant: one interval of silence is enough
  /\ wd = "busy" /\ taken = "ALRM"
  /\ wd' = "sigwait"
  /\ IF age > 2 * W THEN KillKill(pid)
     ELSE IF age >= W THEN KillTerm(pid)
     ELSE UNCHANGED <<pc, trap, pipe, toWd>>
  /\ taken' = None
  /\ UNCHANGED <<pid, armed, alarmIn, age, keepIn, inherited, requests, crashes, history>>
TakeAlarmMild ==   \* mutant: SIGKILL is never sent
  /\ wd = "busy" /\ taken = "ALRM"
  /\ wd' = "sigwait"
  /\ IF age > 2 * W THEN KillTerm(pid) ELSE UNCHANGED <<pc, trap, pipe, toWd>>
  /\ taken' = None
  /\ UNCHANGED <<pid, armed, alarmIn, age, keepIn, inherited, requests, crashes, history>>
TakeAlarm ==
  /\ wd = "busy" /\ taken = "ALRM"
  /\ wd' = "sigwait"
  /\ IF age > 3 * W THEN KillKill(pid)          \* SIGTERM first, and SIGKILL at once
     ELSE IF age > 2 * W THEN KillTerm(pid)
     ELSE UNCHANGED <<pc, trap, pipe, toWd>>
  /\ taken' = None
  /\ UNCHANGED <<pid, armed, alarmIn, age, keepIn, inherited, requests, crashes, history>>

TakeEnd ==
  /\ wd = "busy" /\ taken \in Ends
  /\ wd' = "wait"
  /\ IF taken = "TERM" THEN KillTerm(pid) ELSE UNCHANGED <<pc, trap, pipe, toWd>>
  /\ UNCHANGED <<pid, armed, taken, alarmIn, age, keepIn, inherited, requests, crashes, history>>

(* wait() returns; main() ends after a SIGTERM and forks anew otherwise.   *)
WaitReturnsAnyway ==   \* mutant: the result of wait() is not waited for
  /\ wd = "wait"
  /\ pc' = IF pc[pid] = "zombie" THEN [pc EXCEPT ![pid] = "reaped"] ELSE pc
  /\ wd' = IF taken = "TERM" THEN "returned" ELSE "fork"
  /\ toWd' = IF taken = "TERM" THEN {} ELSE toWd
  /\ UNCHANGED <<pid, armed, taken, alarmIn, age, trap, pipe, keepIn, inherited, requests, crashes, history>>
WaitReturns ==
  /\ wd = "wait"
  /\ pc[pid] = "zombie"
  /\ pc' = [pc EXCEPT ![pid] = "reaped"]
  /\ wd' = IF taken = "TERM" THEN "returned" ELSE "fork"
  /\ toWd' = IF taken = "TERM" THEN {} ELSE toWd
  /\ UNCHANGED <<pid, armed, taken, alarmIn, age, trap, pipe, keepIn, inherited, requests, crashes, history>>

AlarmFires ==
  /\ Watching /\ wd \notin {"fork", "setup"}
  /\ alarmIn = 0
  /\ alarmIn' = W
  /\ toWd' = toWd \cup {"ALRM"}
  /\ UNCHANGED <<pid, wd, armed, taken, age, daemon, requests, crashes, history>>

(***************************************************************************)
(* The daemon                                                              *)
(***************************************************************************)
At(p, here, there) == pc[p] = here /\ pc' = [pc EXCEPT ![p] = there]

(* Connect() succeeds, Scheduler installs its handlers.                    *)
Connect(p) ==
  /\ At(p, "starting", "check")
  /\ inherited' = FALSE
  /\ keepIn' = 0
  /\ UNCHANGED <<watchdog, toWd, trap, pipe, requests, crashes, history>>

(* Connect() fails, or the daemon crashes.                                 *)
Crash(p) ==
  /\ Alive(p)
  /\ crashes < MaxCrashes
  /\ crashes' = crashes + 1
  /\ Dies(p)
  /\ UNCHANGED <<watchdog, trap, pipe, keepIn, inherited, requests, history>>

(* The condition of Scheduler's loop.                                      *)
CheckTrapsDeaf(p) ==   \* mutant: the loop does not look for SIGTERM
  /\ pc[p] = "check"
  /\ pc' = [pc EXCEPT ![p] = "wakeup"]
  /\ UNCHANGED <<watchdog, toWd, trap, pipe, keepIn, inherited, requests, crashes, history>>
CheckTraps(p) ==
  /\ pc[p] = "check"
  /\ IF "TERM" \in trap THEN Dies(p)
     ELSE pc' = [pc EXCEPT ![p] = "wakeup"] /\ UNCHANGED toWd
  /\ UNCHANGED <<watchdog, trap, pipe, keepIn, inherited, requests, crashes, history>>

(* Wakeup: KeepAlive sends SIGUSR1 if KeepAliveTime has come; connecting   *)
(* to the relay server may take long, or for ever.                         *)
KeepAlive(p) ==
  /\ keepIn' = IF keepIn <= 0 THEN keepIn + W ELSE keepIn
  /\ toWd' = IF keepIn <= 0 /\ Watching THEN toWd \cup {"USR1"} ELSE toWd

Wakeup(p) ==
  /\ \E next \in {"select", "connecting", "hung"} : At(p, "wakeup", next)
  /\ KeepAlive(p)
  /\ UNCHANGED <<watchdog, trap, pipe, inherited, requests, crashes, history>>

(* select() finds the self-pipe readable: only that is read in this round. *)
DrainPipe(p) ==
  /\ At(p, "select", "check")
  /\ pipe
  /\ pipe' = FALSE
  /\ trap' = trap \ {"ALRM"}
  /\ UNCHANGED <<watchdog, toWd, keepIn, inherited, requests, crashes, history>>

Sleep(p) ==
  /\ At(p, "select", "asleep")
  /\ ~pipe
  /\ UNCHANGED <<watchdog, toWd, trap, pipe, keepIn, inherited, requests, crashes, history>>

(* A port is ready: ReadExternalPort, which may take long too.             *)
ServePort(p) ==
  /\ \E next \in {"check", "serving", "hung"} : At(p, "asleep", next)
  /\ UNCHANGED <<watchdog, toWd, trap, pipe, keepIn, inherited, requests, crashes, history>>

Unblock(p) ==
  /\ At(p, "connecting", "select") \/ At(p, "serving", "check")
  /\ UNCHANGED <<watchdog, toWd, trap, pipe, keepIn, inherited, requests, crashes, history>>

(* The timer that SetIntervalTimer set for KeepAliveTime.  (One that fires *)
(* earlier in a round leaves a byte in the pipe: it only adds a round.)    *)
DaemonAlarm(p) ==
  /\ pc[p] \in {"select", "asleep"}
  /\ keepIn <= 0
  /\ "ALRM" \notin trap /\ (~pipe \/ pc[p] = "asleep")
  /\ SetTrapFlag(p, "ALRM")
  /\ pc' = IF pc[p] = "asleep" THEN [pc EXCEPT ![p] = "check"] ELSE pc
  /\ UNCHANGED <<watchdog, toWd, keepIn, inherited, requests, crashes, history>>

(***************************************************************************)
(* The operator and time                                                   *)
(***************************************************************************)
Request(s) ==
  /\ Watching
  /\ requests < MaxRequests
  /\ requests' = requests + 1
  /\ toWd' = toWd \cup {s}
  /\ UNCHANGED <<watchdog, daemon, crashes, history>>

Idle == /\ toWd = {}
        /\ wd \in {"sigwait", "wait", "returned", "killed"}
        /\ wd \in {"sigwait", "wait"} => alarmIn > 0
        /\ wd = "wait" => pc[pid] # "zombie"
        /\ \A p \in Pids : Alive(p) => \/ pc[p] = "asleep" /\ keepIn > 0
                                       \/ pc[p] \in {"starting", "connecting", "serving", "hung"}
Tick ==
  /\ Idle
  /\ alarmIn' = IF wd \in {"sigwait", "wait"} THEN alarmIn - 1 ELSE alarmIn
  /\ age' = Min2(age + 1, OldAge)
  /\ keepIn' = Max2(keepIn - 1, -MaxLate)
  /\ late' = (late \/ pid = 0 \/ pc[pid] # "asleep")
  /\ UNCHANGED <<pid, wd, armed, taken, toWd, pc, trap, pipe, inherited, requests, crashes, lostRow, missed>>

Init ==
  /\ wd = "fork" /\ armed = FALSE /\ taken = None /\ toWd = {}
  /\ alarmIn = 0 /\ age = 0
  /\ pid = 0 /\ pc = [p \in Pids |-> "unborn"]
  /\ trap = {} /\ pipe = FALSE /\ keepIn = 0 /\ inherited = FALSE
  /\ requests = 0 /\ crashes = 0
  /\ lostRow = 0 /\ late = FALSE /\ missed = FALSE

WatchDogStep == \/ Fork \/ ForkFails \/ Setup \/ TakeKeepAlive \/ TakeAlarm \/ TakeEnd
                \/ WaitReturns \/ AlarmFires
                \/ \E s \in Signals : Arrives(s)
DaemonStep(p) == \/ Connect(p) \/ CheckTraps(p) \/ Wakeup(p) \/ DrainPipe(p) \/ Sleep(p)
                 \/ Unblock(p) \/ DaemonAlarm(p)
Next == \/ WatchDogStep
        \/ \E p \in Pids : DaemonStep(p) \/ ServePort(p) \/ Crash(p)
        \/ \E s \in Requests : Request(s)
        \/ Tick

Spec == Init /\ [][Next]_vars

(* Both processes get the processor, and time passes.                      *)
Fairness == /\ WF_vars(WatchDogStep)
            /\ \A p \in Pids : WF_vars(DaemonStep(p))
            /\ WF_vars(Tick)
FairSpec == Spec /\ Fairness

(***************************************************************************)
(* Properties                                                              *)
(***************************************************************************)
TypeOK ==
  /\ wd \in {"fork", "setup", "sigwait", "busy", "wait", "returned", "killed"}
  /\ armed \in BOOLEAN /\ taken \in Signals \cup {None} /\ toWd \subseteq Signals
  /\ alarmIn \in 0 .. W /\ age \in 0 .. OldAge
  /\ pc \in [Pids -> {"unborn", "starting", "hung", "zombie", "reaped"} \cup Looping]
  /\ trap \subseteq {"TERM", "ALRM"} /\ pipe \in BOOLEAN
  /\ pid \in 0 .. MaxForks
  /\ keepIn \in -MaxLate .. W /\ inherited \in BOOLEAN
  /\ requests \in Nat /\ crashes \in Nat
  /\ lostRow \in 0 .. 2 /\ late \in BOOLEAN /\ missed \in BOOLEAN

(* main() forks again only when the last daemon has been waited for: two   *)
(* daemons never run side by side on one serial port.                      *)
OneDaemon == \A p, q \in Pids : Alive(p) /\ Alive(q) => p = q

(* Once the watchdog has returned from a SIGTERM no daemon is left behind. *)
StopStops == wd = "returned" => \A p \in Pids : ~Alive(p)

(* No signal is lost between the check of the trap flags and select(): a   *)
(* daemon asleep in select() has none left to see (Service.cc:70-106).     *)
SleepsSoundly == \A p \in Pids : pc[p] = "asleep" => trap = {}

(* The watchdog ends no daemon that was always on time, unless two of its  *)
(* keep-alives in a row were lost outside sigwait().                       *)
PunctualIsSpared ==
  [][wd = "busy" /\ taken = "ALRM" /\ wd' = "sigwait" /\ <<pc, trap>>' # <<pc, trap>>
       => lostRow >= 2 \/ late]_vars

(* A daemon that hangs is ended while the watchdog watches (KeepAlive,     *)
(* WatchDog): only a signal that takes the watchdog out of its loop leaves *)
(* a hanging daemon alone.                                                 *)
HungIsEnded == \A p \in Pids :
  (wd = "sigwait" /\ pc[p] = "hung") ~> (~Alive(p) \/ wd \notin {"sigwait", "busy"})

(* A stop completes if the daemon was in its loop and does not hang: it    *)
(* sees SIGTERM wherever it is, leaves the loop and is waited for.  (One   *)
(* that is still starting swallows it with the handlers it inherited.)     *)
StopCompletes == \A p \in Pids :
  (wd = "busy" /\ taken = "TERM" /\ pc[p] \in Looping) ~> (wd = "returned" \/ pc[p] = "hung")

(* A dead daemon is replaced or its stop completed, unless its SIGCHLD     *)
(* came while the watchdog was outside sigwait().                          *)
DeadIsReplaced == \A p \in Pids :
  (pc[p] = "zombie") ~> (pc[p] = "reaped" \/ missed \/ wd = "killed")
=============================================================================

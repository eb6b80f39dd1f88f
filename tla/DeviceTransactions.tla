------------------------- MODULE DeviceTransactions -------------------------
(***************************************************************************)
(* What the queue of the daemon promises about devices: the commands       *)
(* issued so far run their transactions, on each device one at a time, and *)
(* a command that is over never begins a transaction again.  Resends,      *)
(* packets, frame identifiers, time and the queues themselves are hidden.  *)
(***************************************************************************)
EXTENDS Naturals

CONSTANT Devices

VARIABLES
  issued,   \* how many commands there were; they are 1 .. issued
  running,  \* running[d]: the commands with a transaction on device d
  over      \* the commands that are finished

vars == <<issued, running, over>>

Pending == (1 .. issued) \ over

Init == issued = 0 /\ running = [d \in Devices |-> {}] /\ over = {}

(* A command is issued; one that asks no device may be over at once.       *)
Issue(atOnce) ==
  /\ issued' = issued + 1
  /\ over' = IF atOnce THEN over \cup {issued + 1} ELSE over
  /\ UNCHANGED running

Begin(d, s) ==
  /\ s \in Pending /\ running[d] = {}
  /\ running' = [running EXCEPT ![d] = {s}]
  /\ UNCHANGED <<issued, over>>

(* A transaction ends, and its command with it unless it has further steps. *)
End(d, s, last) ==
  /\ s \in Pending /\ running[d] = {s}
  /\ running' = [running EXCEPT ![d] = {}]
  /\ over' = IF last THEN over \cup {s} ELSE over
  /\ UNCHANGED issued

Finish(s) ==
  /\ s \in Pending /\ \A d \in Devices : s \notin running[d]
  /\ over' = over \cup {s}
  /\ UNCHANGED <<issued, running>>

Next == \/ \E atOnce \in BOOLEAN : Issue(atOnce)
        \/ \E d \in Devices, s \in Pending :
             Begin(d, s) \/ \E last \in BOOLEAN : End(d, s, last)
        \/ \E s \in Pending : Finish(s)

Spec == Init /\ [][Next]_vars
=============================================================================

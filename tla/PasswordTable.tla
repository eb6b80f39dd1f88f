---------------------------- MODULE PasswordTable ----------------------------
(***************************************************************************)
(* Gate passwords (PasswordList.cc): clients set and revoke them (setpw),  *)
(* keypads are judged by them, they expire, they are kept in a registry    *)
(* file, and a relay server is told the list over a web socket.            *)
(*                                                                         *)
(* The list is a set of entries that know their place.  Every handler      *)
(* sweeps expired entries out before it does its own work, writes the file *)
(* when that changed the list, and may fail to do so.  Time stands still   *)
(* within a handler.                                                       *)
(***************************************************************************)
EXTENDS Integers

CONSTANTS
  Gates, Customers, Passwords,
  LongNames,      \* customers whose names exceed the 31 characters that are stored
  Validities,     \* the pairs of start and end that clients ask for
  None,           \* no password
  Relay,          \* a relay server is configured (WSSServerURL)
  ShortWrites,    \* a full disk may show only when the file is closed
  InPlaceRestart, \* the watchdog forks the daemon anew (option -d)
  MaxTime,        \* bound on the clock
  MaxRequests,    \* bound on the requests of clients
  MaxRestarts     \* bound on the restarts of the daemon

ASSUME PasswordAssumption ==
  /\ LongNames \subseteq Customers
  /\ Validities \subseteq [start: Nat, end: Nat]
  /\ None \notin [password: Passwords, start: Nat, end: Nat]
  /\ {Relay, ShortWrites, InPlaceRestart} \subseteq BOOLEAN
  /\ {MaxTime, MaxRequests, MaxRestarts} \subseteq Nat

VARIABLES
  now,       \* the clock
  table,     \* the list in the memory of the daemon
  DirtyFlag, \* the relay server has not been told of the list
  file,      \* the list in the registry file
  origin,    \* the list in the memory of the watchdog, which the daemon is forked from
  link,      \* the connection to the relay server
  sent,      \* the list the relay server knows
  missed,    \* the last list was not sent
  wanted,    \* what was asked last since the daemon started
  owed,      \* what the answers of the daemon promised clients
  requests, restarts

vars == <<now, table, DirtyFlag, file, origin, link, sent, missed, wanted, owed,
          requests, restarts>>

Code  == [password: Passwords, start: Nat, end: Nat]
Entry == [gate: Gates, customer: Customers, code: Code, place: Nat]
Pairs == Gates \X Customers

(***************************************************************************)
(* The list                                                                *)
(***************************************************************************)
First(t)   == CHOOSE p \in t : \A q \in t : p.place <= q.place
Expired(t) == {p \in t : p.code.end <= now}
(* The test compares the stored name with the given one.                   *)
Named(t, g, c) == {p \in t : p.gate = g /\ p.customer = c /\ c \notin LongNames}

WalkHead(t, S) ==   \* mutant: the walk looks at the head only
  IF t # {} /\ First(t) \in S THEN t \ {First(t)} ELSE t
(* Walking the list with DeletePassword, which returns the predecessor:    *)
(* the walk ends when the head is deleted.                                 *)
Walk(t, S) == IF t # {} /\ First(t) \in S THEN t \ {First(t)} ELSE t \ S
Swept(t)   == Walk(t, Expired(t))

FoundEarly(t, g, w) ==   \* mutant: a password is good before its time
  \E p \in t : p.gate = g /\ p.code.password = w /\ now <= p.code.end
(* SearchByName after the sweep.                                           *)
Found(t, g, w) == \E p \in t : /\ p.gate = g /\ p.code.password = w
                              /\ p.code.start <= now /\ now <= p.code.end

(***************************************************************************)
(* What a handler makes of the table: outcomes                             *)
(***************************************************************************)
Outcome(t, f, dirty, ok, told) ==
  [list |-> t, file |-> f, dirty |-> dirty, ok |-> ok, told |-> told]
Present == Outcome(table, file, DirtyFlag, TRUE, FALSE)

Prefixes(t) == {f \in SUBSET t : \A p \in f, q \in t : q.place <= p.place => q \in f}

WriteQuiet(o, t) ==   \* mutant: a failed write is reported as success
  {Outcome(t, f, 1, TRUE, o.told) : f \in {t, o.file}}
(* The new file takes the place of the old one only when all was written;  *)
(* that closing it may fail is not looked at.                              *)
Write(o, t) ==
  {Outcome(t, t, 1, TRUE, o.told), Outcome(t, o.file, 1, FALSE, o.told)}
    \cup IF ShortWrites THEN {Outcome(t, f, 1, TRUE, o.told) : f \in Prefixes(t)} ELSE {}

UpdateQuiet(o, changed) ==   \* mutant: a sweep leaves the flag alone
  IF changed \/ Swept(o.list) # o.list
  THEN {[r EXCEPT !.dirty = IF changed THEN 1 ELSE o.dirty] : r \in Write(o, Swept(o.list))}
  ELSE {[o EXCEPT !.ok = TRUE]}
UpdatePasswordFile(o, changed) ==
  IF changed \/ Swept(o.list) # o.list THEN Write(o, Swept(o.list)) ELSE {[o EXCEPT !.ok = TRUE]}

(* PasswordCheck: the first GetEntry sweeps again.  Whether the list was   *)
(* sent is not looked at.                                                  *)
PasswordCheck(o, force) ==
  UNION {IF r.dirty = 1 \/ force
         THEN {[q EXCEPT !.dirty = 0, !.told = TRUE] : q \in UpdatePasswordFile(r, FALSE)}
         ELSE {r} : r \in UpdatePasswordFile(o, FALSE)}

RenewedKept(t, g, c, code) ==   \* mutant: a new password leaves the old one
  t \cup {[gate |-> g, customer |-> c, code |-> code, place |-> requests + 1]}
Renewed(t, g, c, code) ==
  Walk(t, Named(t, g, c))
    \cup {[gate |-> g, customer |-> c, code |-> code, place |-> requests + 1]}
Revoked(t, g, c) == Walk(t, Named(t, g, c))

Adopt(o) == /\ table' = o.list /\ file' = o.file /\ DirtyFlag' = o.dirty
Contents(t) == {<<p.gate, p.customer, p.code>> : p \in t}
(* The relay server gets what is sent while it is connected, unless that   *)
(* fails.                                                                  *)
Tell(o, connected) ==
  \/ o.told /\ connected /\ sent' = Contents(o.list) /\ missed' = FALSE
  \/ o.told /\ connected /\ missed' = TRUE /\ UNCHANGED sent
  \/ ~(o.told /\ connected) /\ UNCHANGED <<sent, missed>>

(***************************************************************************)
(* Handlers                                                                *)
(***************************************************************************)

(* SetPW with a list changed to t and so wanted: Update, then              *)
(* PasswordCheck if that succeeded.                                        *)
Request(k, t, code) ==
  /\ requests < MaxRequests /\ requests' = requests + 1
  /\ wanted' = [wanted EXCEPT ![k] = code]
  /\ \E u \in UpdatePasswordFile([Present EXCEPT !.list = t], TRUE) :
       /\ owed' = [owed EXCEPT ![k] = IF u.ok THEN {code} ELSE @ \cup {code}]
       /\ \E o \in IF u.ok THEN PasswordCheck(u, FALSE) ELSE {u} :
            Adopt(o) /\ Tell(o, link = "up")
  /\ UNCHANGED <<now, origin, link, restarts>>

(* setpw with a password; a start after the end is refused, an empty       *)
(* validity revokes.                                                       *)
SetPW(g, c, w, v) ==
  LET code == [password |-> w, start |-> v.start, end |-> v.end] IN
  \/ v.start < v.end /\ Request(<<g, c>>, Renewed(table, g, c, code), code)
  \/ v.start = v.end /\ Request(<<g, c>>, Revoked(table, g, c), None)

Delete(g, c) == Request(<<g, c>>, Revoked(table, g, c), None)

(* KeypadReceive: the code is looked up after a sweep.                     *)
Keypad ==
  /\ \E o \in UpdatePasswordFile(Present, FALSE) : Adopt(o)
  /\ UNCHANGED <<now, origin, link, sent, missed, wanted, owed, requests, restarts>>

(* IntervalCheck                                                           *)
Interval ==
  /\ \E o \in PasswordCheck(Present, FALSE) : Adopt(o) /\ Tell(o, link = "up")
  /\ UNCHANGED <<now, origin, link, wanted, owed, requests, restarts>>

(* ClientTimeoutCheck connects to the relay server when it is not          *)
(* connected.                                                              *)
Connect ==
  /\ Relay /\ link = "down" /\ link' = "new"
  /\ UNCHANGED <<now, table, DirtyFlag, file, origin, sent, missed, wanted, owed, requests, restarts>>

(* CommandIFReceive on a new connection: the handshake fails, or succeeds  *)
(* and the first notifications go out or not; the list is sent in any case.*)
Receive(state) ==
  /\ link = "new" /\ link' = state
  /\ \E o \in PasswordCheck(Present, TRUE) : Adopt(o) /\ Tell(o, state # "down")
  /\ UNCHANGED <<now, origin, wanted, owed, requests, restarts>>

Lost ==
  /\ link # "down" /\ link' = "down"
  /\ UNCHANGED <<now, table, DirtyFlag, file, origin, sent, missed, wanted, owed, requests, restarts>>

Tick ==
  /\ now < MaxTime /\ now' = now + 1
  /\ UNCHANGED <<table, DirtyFlag, file, origin, link, sent, missed, wanted, owed, requests, restarts>>

(* What the list t of a started daemon holds.                              *)
Held(t) == [k \in Pairs |->
  IF \E p \in t : <<p.gate, p.customer>> = k
  THEN (CHOOSE p \in t : <<p.gate, p.customer>> = k).code ELSE None]

(* The program starts and reads the file.                                  *)
Restart ==
  /\ restarts < MaxRestarts /\ restarts' = restarts + 1
  /\ \E o \in UpdatePasswordFile(Outcome(file, file, 1, TRUE, FALSE), FALSE) :
       Adopt(o) /\ origin' = o.list /\ wanted' = Held(o.list)
  /\ link' = "down"
  /\ UNCHANGED <<now, sent, missed, owed, requests>>

(* The watchdog forks the daemon anew: it has the list the watchdog read   *)
(* when the program started.                                               *)
Respawn ==
  /\ InPlaceRestart
  /\ restarts < MaxRestarts /\ restarts' = restarts + 1
  /\ table' = origin /\ DirtyFlag' = 1 /\ wanted' = Held(origin)
  /\ link' = "down"
  /\ UNCHANGED <<now, file, origin, sent, missed, owed, requests>>

(***************************************************************************)
(* The specification                                                       *)
(***************************************************************************)
Init ==
  /\ now = 0 /\ table = {} /\ file = {} /\ origin = {} /\ DirtyFlag = 1
  /\ link = "down" /\ sent = {} /\ missed = FALSE
  /\ wanted = [k \in Pairs |-> None] /\ owed = [k \in Pairs |-> {None}]
  /\ requests = 0 /\ restarts = 0

Next ==
  \/ \E g \in Gates, c \in Customers :
       \/ Delete(g, c)
       \/ \E w \in Passwords, v \in Validities : SetPW(g, c, w, v)
  \/ Keypad \/ Interval \/ Tick
  \/ Connect \/ (\E state \in {"up", "new", "down"} : Receive(state)) \/ Lost
  \/ Restart \/ Respawn

Spec == Init /\ [][Next]_vars

(* The alarm of the daemon brings IntervalCheck every AliveInterval.       *)
FairSpec == Spec /\ WF_vars(Interval)

(***************************************************************************)
(* Properties                                                              *)
(***************************************************************************)

(* The lists hold entries whose validity is not empty, the flag is 0 or 1. *)
TypeOK ==
  /\ now \in 0 .. MaxTime /\ DirtyFlag \in {0, 1}
  /\ table \subseteq Entry /\ file \subseteq Entry /\ origin \subseteq Entry
  /\ \A p \in table \cup file \cup origin : p.code.start < p.code.end
  /\ link \in {"down", "new", "up"}
  /\ missed \in BOOLEAN /\ sent \subseteq Gates \X Customers \X Code
  /\ wanted \in [Pairs -> Code \cup {None}]
  /\ owed \in [Pairs -> SUBSET (Code \cup {None})]
  /\ requests \in 0 .. MaxRequests /\ restarts \in 0 .. MaxRestarts

Of(t, k) == {p \in t : <<p.gate, p.customer>> = k}
Short    == {k \in Pairs : k[2] \notin LongNames}
(* A list honours a promise when it holds nothing else for anybody, and    *)
(* nothing that is valid is missing.                                       *)
Honours(t, promise) ==
  \A k \in Short :
    /\ \A p \in Of(t, k) : p.code \in promise[k]
    /\ Of(t, k) = {} =>
         None \in promise[k] \/ \E code \in promise[k] : code.end <= now

(* The list in memory is what clients asked for, however requests, sweeps  *)
(* that end early and failed writes followed each other.                   *)
TableIsWanted == Honours(table, [k \in Pairs |-> {wanted[k]}])

(* A restart keeps what was answered: a revoked password does not come     *)
(* back, one that was confirmed does not get lost.  An error leaves open   *)
(* whether the request took effect.                                        *)
DiskHonoursAnswers == ~ShortWrites /\ ~InPlaceRestart => Honours(file, owed)

(* A keypad opens its gate to those who may pass now, and to nobody else:  *)
(* entries that linger in the list do not matter.  Only customers with     *)
(* long names keep passwords that were replaced or revoked.                *)
KeypadJudgedRight ==
  \A g \in Gates, w \in Passwords :
    /\ Found(Swept(table), g, w) =>
         \/ \E c \in Customers \ LongNames :
              /\ wanted[<<g, c>>] # None /\ wanted[<<g, c>>].password = w
              /\ wanted[<<g, c>>].start <= now /\ now <= wanted[<<g, c>>].end
         \/ \E p \in table : p.customer \in LongNames /\ p.gate = g /\ p.code.password = w
    /\ \A c \in Customers \ LongNames :
         /\ wanted[<<g, c>>] # None /\ wanted[<<g, c>>].password = w
         /\ wanted[<<g, c>>].start <= now /\ now < wanted[<<g, c>>].end
         => Found(Swept(table), g, w)

(* Unless it is due to be told, or the last attempt to tell it failed, the *)
(* relay server knows the list.                                            *)
SentIsTable == link = "up" /\ DirtyFlag = 0 /\ ~missed => sent = Contents(table)

(* Whatever the order of the list, expired entries leave it.               *)
ExpiredGo == \A k \in Pairs :
  (\E p \in Of(table, k) : p.code.end <= now) ~> (\A p \in Of(table, k) : p.code.end > now)
=============================================================================

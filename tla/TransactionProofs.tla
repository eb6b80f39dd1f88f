-------------------------- MODULE TransactionProofs --------------------------
(***************************************************************************)
(* The queue implements DeviceTransactions, and serves a device in order,  *)
(* for every value of the constants.                                       *)
(*                                                                         *)
(* The invariant of the queue makes the refinement mapping simple: what    *)
(* runs on a device is what its lock says.  A step of the queue is then    *)
(* known by three things: the locks, the number of commands, and which of  *)
(* them have an entry.                                                     *)
(***************************************************************************)
EXTENDS CommandQueueProofs

Running == [d \in Devices |->
             {wq[i].seq : i \in {k \in Positions : Started(wq[k]) /\ On(wq[k], d)}}]
Over == {s \in 1 .. Len(jobs) : ~Has(s)}

(* What runs on a device is what its lock says.                            *)
AsLocked ==
  /\ Running = [d \in Devices |-> IF lock[d] = 0 THEN {} ELSE {lock[d]}]
  /\ \A d \in Devices : lock[d] # 0 => Has(lock[d])

LEMMA RunningIsLock == Inductive => AsLocked
<1> SUFFICES ASSUME Inductive  PROVE AsLocked
  OBVIOUS
<1>1. /\ \A i \in Positions : wq[i].seq \in Nat \ {0} /\ wq[i].seq <= Len(jobs)
      /\ \A i \in Positions : Started(wq[i]) => lock[wq[i].step.dev] = wq[i].seq
  <2>1. \A i \in Positions : wq[i] \in Entry
    BY ElementOfSeq DEF Inductive, TypeOK, Positions
  <2> QED  BY <2>1 DEF Inductive, EntryOfJob, LockHeldByStarted, Entry
<1>2. \A d \in Devices : lock[d] # 0 =>
        \E i \in Positions : Started(wq[i]) /\ On(wq[i], d) /\ wq[i].seq = lock[d]
  BY DEF Inductive, NoLockLeak
<1>3. ASSUME NEW d \in Devices
      PROVE  {wq[i].seq : i \in {k \in Positions : Started(wq[k]) /\ On(wq[k], d)}}
               = IF lock[d] = 0 THEN {} ELSE {lock[d]}
  <2>1. ASSUME NEW i \in Positions, Started(wq[i]), On(wq[i], d)
        PROVE  lock[d] = wq[i].seq /\ lock[d] # 0
    BY <1>1, <2>1 DEF On
  <2> QED  BY <1>2, <2>1
<1>4. \A d \in Devices : lock[d] # 0 => Has(lock[d])
  BY <1>2 DEF Has
<1> QED  BY <1>3, <1>4 DEF Running, AsLocked

LEMMA RunningIsLockNext == Inductive' => AsLocked'
BY RunningIsLock, PTL

-----------------------------------------------------------------------------
(* Steps of the queue, as far as DeviceTransactions can see them           *)

LEMMA StepStutters ==
  ASSUME Inductive, Inductive', lock' = lock, Len(jobs') = Len(jobs),
         \A s \in 1 .. Len(jobs) : Has(s)' <=> Has(s)
  PROVE  UNCHANGED Transactions!vars
<1>1. Running' = Running
  BY RunningIsLock, RunningIsLockNext DEF AsLocked
<1>2. Over' = Over
  BY DEF Over
<1> QED  BY <1>1, <1>2 DEF Transactions!vars, Running, Over

(* Begin, End and Finish, told by the locks and the entries.               *)
LEMMA StepBegins ==
  ASSUME Inductive, Inductive', NEW d \in Devices, NEW s \in 1 .. Len(jobs),
         lock[d] = 0, Has(s), lock' = [lock EXCEPT ![d] = s], Len(jobs') = Len(jobs),
         \A r \in 1 .. Len(jobs) : Has(r)' <=> Has(r)
  PROVE  Transactions!Next
<1>1. Running = [e \in Devices |-> IF lock[e] = 0 THEN {} ELSE {lock[e]}]
  BY RunningIsLock DEF AsLocked
<1>2. Running' = [e \in Devices |-> IF lock'[e] = 0 THEN {} ELSE {lock'[e]}]
  BY RunningIsLockNext DEF AsLocked
<1>3. lock \in [Devices -> Nat] /\ s # 0 /\ Len(jobs) \in Nat
  BY LenProperties DEF Inductive, TypeOK
<1>4. Running' = [Running EXCEPT ![d] = {s}]
  BY <1>1, <1>2, <1>3
<1>5. s \in (1 .. Len(jobs)) \ Over /\ Running[d] = {} /\ Over' = Over
  BY <1>1 DEF Over
<1>6. Transactions!Begin(d, s)
  BY <1>4, <1>5 DEF Transactions!Begin, Transactions!Pending, Running, Over
<1> QED  BY <1>5, <1>6 DEF Transactions!Next, Transactions!Pending, Over

LEMMA StepEnds ==
  ASSUME Inductive, Inductive', NEW d \in Devices, NEW s \in 1 .. Len(jobs),
         lock[d] = s, Has(s), lock' = [lock EXCEPT ![d] = 0], Len(jobs') = Len(jobs),
         \A r \in 1 .. Len(jobs) : r # s => (Has(r)' <=> Has(r))
  PROVE  Transactions!Next
<1>1. Running = [e \in Devices |-> IF lock[e] = 0 THEN {} ELSE {lock[e]}]
  BY RunningIsLock DEF AsLocked
<1>2. Running' = [e \in Devices |-> IF lock'[e] = 0 THEN {} ELSE {lock'[e]}]
  BY RunningIsLockNext DEF AsLocked
<1>3. lock \in [Devices -> Nat] /\ s # 0 /\ Len(jobs) \in Nat
  BY LenProperties DEF Inductive, TypeOK
<1>4. Running' = [Running EXCEPT ![d] = {}] /\ Running[d] = {s}
  BY <1>1, <1>2, <1>3
<1>5. s \in (1 .. Len(jobs)) \ Over
  BY DEF Over
<1>6. s \in Transactions!Pending
  BY <1>5 DEF Transactions!Pending, Over
<1>7. CASE Has(s)'
  <2>1. Over' = Over
    BY <1>7 DEF Over
  <2>2. Transactions!End(d, s, FALSE)
    BY <1>4, <1>6, <2>1 DEF Transactions!End, Running, Over
  <2> QED  BY <1>6, <2>2 DEF Transactions!Next
<1>8. CASE ~Has(s)'
  <2>1. Over' = Over \cup {s}
    BY <1>8 DEF Over
  <2>2. Transactions!End(d, s, TRUE)
    BY <1>4, <1>6, <2>1 DEF Transactions!End, Running, Over
  <2> QED  BY <1>6, <2>2 DEF Transactions!Next
<1> QED  BY <1>7, <1>8

(* An entry goes that held no device: its command may be over with it.     *)
LEMMA StepLeaves ==
  ASSUME Inductive, Inductive', NEW s \in 1 .. Len(jobs), Has(s),
         lock' = lock, Len(jobs') = Len(jobs),
         \A r \in 1 .. Len(jobs) : r # s => (Has(r)' <=> Has(r))
  PROVE  [Transactions!Next]_(Transactions!vars)
<1>1. CASE Has(s)'
  BY <1>1, StepStutters
<1>2. CASE ~Has(s)'
  <2>1. Running = [e \in Devices |-> IF lock[e] = 0 THEN {} ELSE {lock[e]}]
    BY RunningIsLock DEF AsLocked
  <2>2. /\ Running' = [e \in Devices |-> IF lock'[e] = 0 THEN {} ELSE {lock'[e]}]
        /\ \A e \in Devices : lock'[e] # 0 => \E i \in Positions' : wq'[i].seq = lock'[e]
    BY RunningIsLockNext DEF AsLocked, Has
  <2>3. Running' = Running
    BY <2>1, <2>2
  <2>4. ASSUME NEW e \in Devices, s \in Running[e]
        PROVE  FALSE
    <3>1. lock'[e] = s /\ lock'[e] # 0
      BY <2>1, <2>4
    <3> QED  BY <1>2, <2>2, <3>1 DEF Has
  <2>5. s \in (1 .. Len(jobs)) \ Over /\ Over' = Over \cup {s}
    BY <1>2 DEF Over
  <2>6. Transactions!Finish(s)
    BY <2>3, <2>4, <2>5 DEF Transactions!Finish, Transactions!Pending, Running, Over
  <2> QED  BY <2>5, <2>6 DEF Transactions!Next, Transactions!Pending, Over
<1> QED  BY <1>1, <1>2

LEMMA StepIssues ==
  ASSUME Inductive, Inductive', lock' = lock, Len(jobs') = Len(jobs) + 1,
         \A r \in 1 .. Len(jobs) : Has(r)' <=> Has(r)
  PROVE  Transactions!Next
<1> DEFINE atOnce == \A i \in 1 .. Len(wq') : wq'[i].seq # Len(jobs) + 1
<1>1. Running' = Running
  BY RunningIsLock, RunningIsLockNext DEF AsLocked
<1>2. Len(jobs) \in Nat
  BY LenProperties DEF Inductive, TypeOK
<1>3. 1 .. Len(jobs') = (1 .. Len(jobs)) \cup {Len(jobs) + 1}
  BY <1>2
<1>4. Over' = IF atOnce THEN Over \cup {Len(jobs) + 1} ELSE Over
  <2>1. \A r \in 1 .. Len(jobs) : r # Len(jobs) + 1 /\ (r \in Over' <=> r \in Over)
    BY <1>2, <1>3 DEF Over
  <2>2. Len(jobs) + 1 \in Over' <=> atOnce
    BY <1>3 DEF Over, Has, Positions
  <2>3. Over \subseteq 1 .. Len(jobs) /\ Over' \subseteq (1 .. Len(jobs)) \cup {Len(jobs) + 1}
    BY <1>3 DEF Over
  <2> HIDE DEF atOnce
  <2>4. CASE atOnce
    <3>1. Over' = Over \cup {Len(jobs) + 1}
      <4> HIDE DEF Over
      <4> QED  BY <2>1, <2>2, <2>3, <2>4
    <3> QED  BY <2>4, <3>1
  <2>5. CASE ~atOnce
    <3>1. Over' = Over
      BY <2>1, <2>2, <2>3, <2>5
    <3> QED  BY <2>5, <3>1
  <2> QED  BY <2>4, <2>5
<1> HIDE DEF atOnce
<1>5. atOnce \in BOOLEAN
  BY DEF atOnce
<1>6. Transactions!Issue(atOnce)
  BY <1>1, <1>4 DEF Transactions!Issue, Running, Over
<1> QED  BY <1>5, <1>6 DEF Transactions!Next
-----------------------------------------------------------------------------
(* Which commands have an entry in a queue, after each kind of change      *)

Of(w, r) == \E k \in 1 .. Len(w) : w[k].seq = r

LEMMA RemoveOf ==
  ASSUME NEW w \in Seq(Entry), NEW i \in 1 .. Len(w)
  PROVE  \A r : r # w[i].seq => (Of(RemoveAt(w, i), r) <=> Of(w, r))
<1>1. /\ Len(w) \in Nat /\ Len(RemoveAt(w, i)) = Len(w) - 1
      /\ \A k \in 1 .. Len(w) - 1 : RemoveAt(w, i)[k] = IF k < i THEN w[k] ELSE w[k + 1]
  BY RemoveAtProperties, LenProperties
<1> SUFFICES ASSUME NEW r, r # w[i].seq  PROVE Of(RemoveAt(w, i), r) <=> Of(w, r)
  OBVIOUS
<1>2. ASSUME NEW k \in 1 .. Len(w) - 1, RemoveAt(w, i)[k].seq = r  PROVE Of(w, r)
  <2>1. CASE k < i
    <3>1. w[k].seq = r /\ k \in 1 .. Len(w)
      BY <1>1, <1>2, <2>1
    <3> QED  BY <3>1 DEF Of
  <2>2. CASE ~(k < i)
    <3>1. w[k + 1].seq = r /\ k + 1 \in 1 .. Len(w)
      BY <1>1, <1>2, <2>2
    <3> QED  BY <3>1 DEF Of
  <2> QED  BY <2>1, <2>2
<1>3. ASSUME NEW k \in 1 .. Len(w), w[k].seq = r  PROVE Of(RemoveAt(w, i), r)
  <2>1. CASE k < i
    <3>1. k \in 1 .. Len(w) - 1 /\ RemoveAt(w, i)[k].seq = r
      BY <1>1, <1>3, <2>1
    <3> QED  BY <1>1, <3>1 DEF Of
  <2>2. CASE k > i
    <3>1. k - 1 \in 1 .. Len(w) - 1 /\ ~(k - 1 < i) /\ (k - 1) + 1 = k
      BY <1>1, <2>2
    <3>2. RemoveAt(w, i)[k - 1].seq = r
      BY <1>1, <1>3, <3>1
    <3> QED  BY <1>1, <3>1, <3>2 DEF Of
  <2> QED  BY <1>3, <2>1, <2>2
<1> QED  BY <1>1, <1>2, <1>3 DEF Of

LEMMA AppendOf ==
  ASSUME NEW w \in Seq(Entry), NEW e \in Entry
  PROVE  \A r : Of(Append(w, e), r) <=> Of(w, r) \/ r = e.seq
<1>1. /\ Len(w) \in Nat /\ Len(Append(w, e)) = Len(w) + 1
      /\ \A k \in 1 .. Len(w) : Append(w, e)[k] = w[k]
      /\ Append(w, e)[Len(w) + 1] = e
  BY AppendFacts, LenProperties
<1>2. /\ \A k \in 1 .. Len(w) : k \in 1 .. Len(w) + 1
      /\ \A k \in 1 .. Len(w) + 1 : k \in 1 .. Len(w) \/ k = Len(w) + 1
      /\ Len(w) + 1 \in 1 .. Len(w) + 1
  BY <1>1
<1> QED  BY <1>1, <1>2 DEF Of

LEMMA InductiveFacts ==
  ASSUME Inductive
  PROVE  /\ TypeRest /\ TypeOK /\ Good(wq, lock, jobs)
         /\ wq \in Seq(Entry) /\ jobs \in Seq(Job) /\ lock \in [Devices -> Nat]
         /\ \A i \in 1 .. Len(wq) : /\ wq[i] \in Entry /\ wq[i].seq \in 1 .. Len(jobs)
                                    /\ Has(wq[i].seq)
<1>1. TypeRest /\ TypeOK /\ Good(wq, lock, jobs)
  BY InductiveParts, InductiveIsGood
<1> QED  BY <1>1, GoodTypes DEF Has, Positions

LEMMA ToldLength ==
  ASSUME Inductive, NEW s, NEW a \in Nat, NEW b \in Nat, NEW c \in Nat
  PROVE  Len(Told(s, a, b, c)) = Len(jobs)
BY ToldProperties, InductiveFacts DEF Counted

(* Entries change where they are.                                          *)
LEMMA Stays ==
  ASSUME Inductive, Inductive', lock' = lock, jobs' = jobs, Len(wq') = Len(wq),
         \A k \in 1 .. Len(wq) : wq'[k].seq = wq[k].seq
  PROVE  UNCHANGED Transactions!vars
<1>1. \A r \in 1 .. Len(jobs) : Has(r)' <=> Has(r)
  BY DEF Has, Positions
<1> QED  BY <1>1, StepStutters

(* The transaction of entry i ends and lets its device go.                 *)
LEMMA Released ==
  ASSUME Inductive, Inductive', NEW i \in 1 .. Len(wq), wq[i].st = 2,
         wq' = RemoveAt(wq, i), lock' = Free(wq[i].step.dev), Len(jobs') = Len(jobs)
  PROVE  Transactions!Next
<1>1. /\ wq \in Seq(Entry) /\ wq[i].seq \in 1 .. Len(jobs) /\ Has(wq[i].seq)
      /\ Good(wq, lock, jobs)
  BY InductiveFacts
<1>2. Radio(wq[i].step) /\ Started(wq[i])
  BY <1>1 DEF Good, OfJob, FitsJob, Started
<1>3. wq[i].step.dev \in Devices /\ lock[wq[i].step.dev] = wq[i].seq
  BY <1>1, <1>2, GoodTypes, GoodAt
<1>4. PICK s \in 1 .. Len(jobs), d \in Devices : s = wq[i].seq /\ d = wq[i].step.dev
  BY <1>1, <1>3
<1>5. \A r : r # s => (Of(wq', r) <=> Of(wq, r))
  BY <1>1, <1>4, RemoveOf
<1>6. \A r \in 1 .. Len(jobs) : r # s => (Has(r)' <=> Has(r))
  BY <1>5 DEF Has, Of, Positions
<1>7. lock[d] = s /\ Has(s) /\ lock' = [lock EXCEPT ![d] = 0]
  BY <1>1, <1>3, <1>4 DEF Free
<1> QED  BY <1>6, <1>7, StepEnds

(* An entry goes that never had a device.                                  *)
LEMMA EntryLeaves ==
  ASSUME Inductive, Inductive', NEW i \in 1 .. Len(wq),
         wq' = RemoveAt(wq, i), lock' = lock, Len(jobs') = Len(jobs)
  PROVE  [Transactions!Next]_(Transactions!vars)
<1>1. wq \in Seq(Entry) /\ wq[i].seq \in 1 .. Len(jobs) /\ Has(wq[i].seq)
  BY InductiveFacts
<1>2. PICK s \in 1 .. Len(jobs) : s = wq[i].seq
  BY <1>1
<1>3. \A r : r # s => (Of(wq', r) <=> Of(wq, r))
  BY <1>1, <1>2, RemoveOf
<1>4. \A r \in 1 .. Len(jobs) : r # s => (Has(r)' <=> Has(r))
  BY <1>3 DEF Has, Of, Positions
<1>5. Has(s)
  BY <1>1, <1>2
<1> QED  BY <1>4, <1>5, StepLeaves

(* A resend, at once or after a pause, is no new transaction.              *)
LEMMA Resent ==
  ASSUME Inductive, Inductive', NEW i \in 1 .. Len(wq), NEW delay \in Nat,
         wq' = [wq EXCEPT ![i] = Resend(wq[i], delay)], lock' = lock, jobs' = jobs
  PROVE  UNCHANGED Transactions!vars
<1> DEFINE f == Resend(wq[i], delay)
<1>1. wq \in Seq(Entry) /\ wq[i] \in Entry /\ TypeOK
  BY InductiveFacts
<1>2. f \in Entry
  BY <1>1, ResendType
<1>3. f.seq = wq[i].seq
  BY <1>1 DEF Resend, Entry
<1> HIDE DEF f
<1>4. /\ Len(wq') = Len(wq) /\ wq'[i] = f
      /\ \A k \in 1 .. Len(wq) : k # i => wq'[k] = wq[k]
  BY <1>1, <1>2, ExceptSeq DEF f
<1>5. \A k \in 1 .. Len(wq) : wq'[k].seq = wq[k].seq
  BY <1>3, <1>4
<1> QED  BY <1>4, <1>5, Stays

-----------------------------------------------------------------------------
(* Every action of the queue is a step of DeviceTransactions or none       *)

LEMMA StartIssues ==
  ASSUME Inductive, Inductive', NEW c \in Commands, NEW client \in BOOLEAN,
         Start(c, client), lock' = lock
  PROVE  Transactions!Next
<1>0. wq \in Seq(Entry) /\ jobs \in Seq(Job) /\ Len(jobs) \in Nat /\ TypeOK
  BY InductiveFacts, LenProperties
<1>1. Len(jobs') = Len(jobs) + 1
  BY <1>0 DEF Start
<1>2. PICK e : wq' = wq \/ (e \in Entry /\ e.seq = Len(jobs) + 1 /\ wq' = Append(wq, e))
  <2>1. /\ c.steps \in Seq(Steps) /\ c.steps[1] \in Steps
        /\ WaitTime(c.steps[1]) \in Nat /\ c.combi \in BOOLEAN
    BY StepTypes
  <2>2. NextSeq \in Nat \ {0} /\ NextSeq = Len(jobs) + 1
    BY <1>0 DEF NextSeq
  <2>3. CASE c.combi
    <3>1. CombiStep \in Steps /\ 0 \in 0 .. FrameMax /\ 1000 \in State
      BY ConstantsAssumption DEF CombiStep, Steps, StepKinds, State
    <3>2. CombiEntry(NextSeq, c.steps) \in Entry
      BY <2>1, <2>2, <3>1 DEF CombiEntry, Entry
    <3> QED  BY <2>2, <2>3, <3>2 DEF Start, CombiEntry
  <2>4. CASE ~c.combi /\ Queued(c.steps[1])
    <3>1. NewEntry(NextSeq, c.steps[1], FALSE, 0, WaitTime(c.steps[1])) \in Entry
      BY <1>0, <2>1, <2>2, NewEntryType
    <3> QED  BY <2>2, <2>4, <3>1 DEF Start, NewEntry
  <2>5. CASE ~c.combi /\ ~Queued(c.steps[1])
    BY <2>5 DEF Start
  <2> QED  BY <2>1, <2>3, <2>4, <2>5
<1>3. \A r \in 1 .. Len(jobs) : Of(wq', r) <=> Of(wq, r)
  <2>1. CASE wq' = wq
    BY <2>1
  <2>2. CASE e \in Entry /\ e.seq = Len(jobs) + 1 /\ wq' = Append(wq, e)
    <3>1. \A r \in 1 .. Len(jobs) : r # e.seq
      BY <1>0, <2>2
    <3> QED  BY <1>0, <2>2, <3>1, AppendOf
  <2> QED  BY <1>2, <2>1, <2>2
<1>4. \A r \in 1 .. Len(jobs) : Has(r)' <=> Has(r)
  BY <1>3 DEF Has, Of, Positions
<1> QED  BY <1>1, <1>4, StepIssues

LEMMA SendBegins ==
  ASSUME Inductive, Inductive', NEW i \in 1 .. Len(wq), Send(i)
  PROVE  [Transactions!Next]_(Transactions!vars)
<1> DEFINE f == [[wq[i] EXCEPT !.st = 2] EXCEPT !.t = 0]
<1>1. /\ wq[i].st = 1 /\ Radio(wq[i].step)
      /\ lock[wq[i].step.dev] \in {0, wq[i].seq}
  BY DEF Send, First, Due, Mine
<1>2. /\ wq \in Seq(Entry) /\ wq[i] \in Entry /\ wq[i].step.dev \in Devices
      /\ wq[i].seq \in 1 .. Len(jobs) /\ Has(wq[i].seq) /\ lock \in [Devices -> Nat]
  BY <1>1, InductiveFacts, GoodTypes
<1>3. f \in Entry /\ f.seq = wq[i].seq
  <2>1. 2 \in State
    BY DEF State
  <2> QED  BY <1>2, <2>1, SentType DEF Entry
<1>4. wq' = [wq EXCEPT ![i] = f]
  BY <1>2 DEF Send
<1> HIDE DEF f
<1>5. Len(wq') = Len(wq) /\ \A k \in 1 .. Len(wq) : wq'[k].seq = wq[k].seq
  BY <1>2, <1>3, <1>4, ExceptSeq
<1>6. \A r \in 1 .. Len(jobs) : Has(r)' <=> Has(r)
  BY <1>5 DEF Has, Positions
<1>7. PICK s \in 1 .. Len(jobs), d \in Devices : s = wq[i].seq /\ d = wq[i].step.dev
  BY <1>2
<1>8. Has(s) /\ lock' = [lock EXCEPT ![d] = s] /\ jobs' = jobs
  BY <1>2, <1>7 DEF Send
<1>9. CASE lock[d] = 0
  BY <1>6, <1>8, <1>9, StepBegins
<1>10. CASE lock[d] = s
  <2>1. lock' = lock
    BY <1>2, <1>8, <1>10
  <2> QED  BY <1>5, <1>8, <2>1, Stays
<1> QED  BY <1>1, <1>7, <1>9, <1>10

LEMMA TimeoutMaps ==
  ASSUME Inductive, Inductive', NEW i \in 1 .. Len(wq), Timeout(i)
  PROVE  [Transactions!Next]_(Transactions!vars)
<1>1. wq[i].st = 2
  BY DEF Timeout, First, Late
<1>2. CASE Exhausted(wq[i])
  <2>1. Len(RetryErr(wq[i])) = Len(jobs)
    BY ToldLength DEF RetryErr
  <2> QED  BY <1>1, <1>2, <2>1, Released DEF Timeout
<1>3. CASE ~Exhausted(wq[i])
  BY <1>3, Resent DEF Timeout
<1> QED  BY <1>2, <1>3

(* A pairing ends the transaction, resends it, or leaves the entry alone.  *)
LEMMA PairMaps ==
  ASSUME Inductive, Inductive', NEW i \in 1 .. Len(wq), NEW j \in 1 .. Len(rq),
         \/ \E good \in BOOLEAN : PairEnd(i, j, good)
         \/ \E retry \in BOOLEAN : PairError(i, j, retry)
         \/ Delivered(i, j)
         \/ \E noaddr \in BOOLEAN : NotDelivered(i, j, noaddr)
  PROVE  [Transactions!Next]_(Transactions!vars)
<1>1. /\ wq[i].st = 2 /\ wq[i] \in Entry /\ wq[i].wait \in Nat
      /\ {ATRetryWait, TxRetryWait} \subseteq Nat
  <2>1. FirstPair(i, j)
    BY DEF PairEnd, PairError, Delivered, NotDelivered
  <2>2. wq[i] \in Entry
    BY InductiveFacts
  <2> QED  BY <2>1, <2>2, ConstantsAssumption DEF FirstPair, Pairable, Matches, Entry
<1>2. /\ Len(Ok(wq[i].seq)) = Len(jobs) /\ Len(Err(wq[i].seq)) = Len(jobs)
      /\ Len(DoubleErr(wq[i])) = Len(jobs)
  BY ToldLength DEF Ok, Err, DoubleErr
<1>3. ASSUME NEW K, Len(K) = Len(jobs), Finished(i, j, K)  PROVE Transactions!Next
  BY <1>1, <1>3, Released DEF Finished, Drop
<1>4. ASSUME NEW delay \in Nat, TryAgain(i, j, delay)  PROVE UNCHANGED Transactions!vars
  BY <1>4, Resent DEF TryAgain
<1>5. CASE \E good \in BOOLEAN : PairEnd(i, j, good)
  BY <1>2, <1>3, <1>5 DEF PairEnd
<1>6. CASE \E retry \in BOOLEAN : PairError(i, j, retry)
  <2> SUFFICES ASSUME NEW retry \in BOOLEAN, PairError(i, j, retry)
               PROVE  [Transactions!Next]_(Transactions!vars)
    BY <1>6
  <2>1. CASE retry /\ ~Exhausted(wq[i])
    <3>1. PICK delay \in Nat : TryAgain(i, j, delay)
      <4>1. TryAgain(i, j, IF rq[j].type = "at" THEN ATRetryWait ELSE wq[i].wait)
        BY <2>1 DEF PairError
      <4>2. (IF rq[j].type = "at" THEN ATRetryWait ELSE wq[i].wait) \in Nat
        BY <1>1
      <4> QED  BY <4>1, <4>2
    <3> QED  BY <1>4, <3>1
  <2>2. CASE ~(retry /\ ~Exhausted(wq[i]))
    BY <1>2, <1>3, <2>2 DEF PairError
  <2> QED  BY <2>1, <2>2
<1>7. CASE Delivered(i, j)
  BY <1>7, Stays DEF Delivered
<1>8. CASE \E noaddr \in BOOLEAN : NotDelivered(i, j, noaddr)
  BY <1>1, <1>2, <1>3, <1>4, <1>8 DEF NotDelivered
<1> QED  BY <1>5, <1>6, <1>7, <1>8

(* The next packet continues the transaction under a new entry.            *)
LEMMA PairNextStays ==
  ASSUME Inductive, Inductive', NEW i \in 1 .. Len(wq), NEW j \in 1 .. Len(rq), PairNext(i, j)
  PROVE  UNCHANGED Transactions!vars
<1> DEFINE f == NewEntry(wq[i].seq, wq[i].step, wq[i].sub, wq[i].pkt + 1, wq[i].step.gap)
<1>1. /\ TypeOK /\ wq \in Seq(Entry) /\ wq[i] \in Entry /\ Has(wq[i].seq)
  BY InductiveFacts
<1>2. /\ wq[i].seq \in Nat \ {0} /\ wq[i].step \in Steps /\ wq[i].sub \in BOOLEAN
      /\ wq[i].pkt \in Nat
  BY <1>1 DEF Entry
<1>3. wq[i].step.gap \in Nat /\ wq[i].pkt + 1 \in Nat
  BY <1>2 DEF Steps
<1>4. f \in Entry
  BY <1>1, <1>2, <1>3, NewEntryType
<1>5. f.seq = wq[i].seq
  BY DEF NewEntry
<1>6. wq' = Append(RemoveAt(wq, i), f) /\ lock' = lock /\ jobs' = jobs
  BY DEF PairNext
<1> HIDE DEF f
<1>7. \A r : Of(wq', r) <=> Of(wq, r)
  <2>1. RemoveAt(wq, i) \in Seq(Entry)
    BY <1>1, RemoveAtProperties
  <2>2. \A r : Of(wq', r) <=> Of(RemoveAt(wq, i), r) \/ r = wq[i].seq
    BY <1>4, <1>5, <1>6, <2>1, AppendOf
  <2>3. \A r : r # wq[i].seq => (Of(RemoveAt(wq, i), r) <=> Of(wq, r))
    BY <1>1, RemoveOf
  <2>4. Of(wq, wq[i].seq)
    BY DEF Of
  <2> QED  BY <2>2, <2>3, <2>4
<1>8. \A r \in 1 .. Len(jobs) : Has(r)' <=> Has(r)
  BY <1>7 DEF Has, Of, Positions
<1> QED  BY <1>6, <1>8, StepStutters

LEMMA CombiEndMaps ==
  ASSUME Inductive, Inductive', NEW i \in 1 .. Len(wq), CombiEnd(i)
  PROVE  [Transactions!Next]_(Transactions!vars)
<1>1. Len(jobs') = Len(jobs)
  BY ToldLength DEF CombiEnd, Ok, Err
<1> QED  BY <1>1, EntryLeaves DEF CombiEnd

(* The next step of a composite goes under its command.                    *)
LEMMA CombiStepOnStays ==
  ASSUME Inductive, Inductive', NEW i \in 1 .. Len(wq), CombiStepOn(i)
  PROVE  UNCHANGED Transactions!vars
<1> DEFINE step == Head(wq[i].rest)
           r    == Tail(wq[i].rest)
           v    == Left(wq, i, r)
           e    == NewEntry(wq[i].seq, step, TRUE, 0, WaitTime(step))
<1>1. /\ TypeRest /\ TypeOK /\ Good(wq, lock, jobs)
      /\ wq \in Seq(Entry) /\ wq[i] \in Entry
  BY InductiveFacts
<1>2. wq[i].rest \in Seq(Steps) /\ wq[i].rest # << >> /\ wq[i].seq \in Nat \ {0}
  BY <1>1 DEF CombiStepOn, Entry
<1>3. r \in Seq(Steps) /\ step \in Steps
  BY <1>2, HeadTailProperties
<1>4. WaitTime(step) \in Nat
  BY <1>3 DEF WaitTime, Steps
<1>5. e \in Entry /\ e.seq = wq[i].seq
  <2>1. e \in Entry
    BY <1>1, <1>2, <1>3, <1>4, NewEntryType
  <2> QED  BY <2>1 DEF NewEntry
<1>6. /\ v \in Seq(Entry) /\ Len(v) = Len(wq)
      /\ \A k \in 1 .. Len(wq) : v[k].seq = wq[k].seq
  <2> HIDE DEF r
  <2>1. Good(v, lock, jobs)
    BY <1>1, <1>3, StepOnGood
  <2> QED  BY <1>1, <1>3, <2>1, StepOnGood, GoodTypes
<1>7. wq' = IF Queued(step) THEN Append(v, e) ELSE v
  BY DEF CombiStepOn, Left
<1>8. lock' = lock /\ Len(jobs') = Len(jobs)
  BY ToldLength DEF CombiStepOn
<1> HIDE DEF step, r, v, e
<1>9. \A n : Of(wq', n) <=> Of(wq, n)
  <2>1. \A n : Of(v, n) <=> Of(wq, n)
    BY <1>6 DEF Of
  <2>2. \A n : Of(Append(v, e), n) <=> Of(v, n) \/ n = wq[i].seq
    BY <1>5, <1>6, AppendOf
  <2>3. Of(wq, wq[i].seq)
    BY DEF Of
  <2> QED  BY <1>7, <2>1, <2>2, <2>3
<1>10. \A n \in 1 .. Len(jobs) : Has(n)' <=> Has(n)
  BY <1>9 DEF Has, Of, Positions
<1> QED  BY <1>8, <1>10, StepStutters

LEMMA TickStays ==
  ASSUME Inductive, Inductive', Tick  PROVE UNCHANGED Transactions!vars
<1>1. Len(wq) \in Nat /\ \A k \in 1 .. Len(wq) : wq[k] \in Entry
  BY InductiveFacts, LenProperties
<1>2. ASSUME NEW k \in 1 .. Len(wq)  PROVE Older(wq[k]).seq = wq[k].seq
  <2>1. wq[k] \in Entry
    BY <1>1
  <2> QED  BY <2>1 DEF Older, Entry
<1>3. Len(wq') = Len(wq) /\ \A k \in 1 .. Len(wq) : wq'[k] = Older(wq[k])
  BY <1>1 DEF Tick
<1>4. \A k \in 1 .. Len(wq) : wq'[k].seq = wq[k].seq
  BY <1>2, <1>3
<1> QED  BY <1>3, <1>4, Stays DEF Tick

LEMMA TimerCheckStays ==
  ASSUME Inductive, Inductive', TimerCheck  PROVE UNCHANGED Transactions!vars
<1> DEFINE f(e) == IF e.st = 0 THEN [[e EXCEPT !.st = 1] EXCEPT !.t = e.wait] ELSE e
<1>1. Len(wq) \in Nat /\ \A k \in 1 .. Len(wq) : wq[k] \in Entry
  BY InductiveFacts, LenProperties
<1>2. ASSUME NEW k \in 1 .. Len(wq)  PROVE f(wq[k]).seq = wq[k].seq
  <2>1. wq[k] \in Entry
    BY <1>1
  <2> QED  BY <2>1 DEF Entry
<1>3. wq' = [k \in 1 .. Len(wq) |-> f(wq[k])]
  BY DEF TimerCheck
<1> HIDE DEF f
<1>4. Len(wq') = Len(wq) /\ \A k \in 1 .. Len(wq) : wq'[k] = f(wq[k])
  BY <1>1, <1>3
<1>5. \A k \in 1 .. Len(wq) : wq'[k].seq = wq[k].seq
  BY <1>2, <1>4
<1> QED  BY <1>4, <1>5, Stays DEF TimerCheck

(* Steps that leave the queue, the locks and the ledger alone.             *)
LEMMA QuietStays ==
  ASSUME Inductive, Inductive', UNCHANGED <<wq, lock, jobs>>
  PROVE  UNCHANGED Transactions!vars
BY Stays

LEMMA ReadNotificationMaps ==
  ASSUME Inductive, Inductive', NEW j \in 1 .. Len(rq), ReadNotification(j)
  PROVE  [Transactions!Next]_(Transactions!vars)
<1>1. CASE rq[j].cmd = NoCommand
  BY <1>1, QuietStays DEF ReadNotification
<1>2. CASE rq[j].cmd # NoCommand
  <2>1. rq[j] \in Frame
    BY InductiveFacts, ElementOfSeq DEF TypeRest
  <2>2. rq[j].cmd \in Commands
    BY <1>2, <2>1 DEF Frame
  <2>3. Start(rq[j].cmd, FALSE) /\ lock' = lock
    BY <1>2 DEF ReadNotification
  <2> QED  BY <2>2, <2>3, StartIssues
<1> QED  BY <1>1, <1>2

LEMMA NextMaps ==
  ASSUME Inductive, Inductive', [Next]_vars
  PROVE  [Transactions!Next]_(Transactions!vars)
<1>1. CASE \E c \in Commands : Submit(c)
  BY <1>1, StartIssues DEF Submit
<1>2. CASE \/ \E r \in air, known \in BOOLEAN : Receive(r, known)
           \/ \E d \in Devices, n \in Notices : Notify(d, n)
  BY <1>2, QuietStays DEF Receive, Notify
<1>3. CASE Tick
  BY <1>3, TickStays
<1>4. CASE Pair
  BY <1>4, PairMaps, PairNextStays DEF Pair
<1>5. CASE \E j \in 1 .. Len(rq) : ReadNotification(j)
  BY <1>5, ReadNotificationMaps
<1>6. CASE \E j \in 1 .. Len(rq) : Discard(j)
  BY <1>6, QuietStays DEF Discard
<1>7. CASE \E i \in 1 .. Len(wq) : Send(i)
  BY <1>7, SendBegins
<1>8. CASE \E i \in 1 .. Len(wq) : WaitOver(i)
  BY <1>8, EntryLeaves DEF WaitOver
<1>9. CASE \E i \in 1 .. Len(wq) : Timeout(i)
  BY <1>9, TimeoutMaps
<1>10. CASE \E i \in 1 .. Len(wq) : CombiEnd(i) \/ CombiStepOn(i)
  BY <1>10, CombiEndMaps, CombiStepOnStays
<1>11. CASE TimerCheck
  BY <1>11, TimerCheckStays
<1>12. CASE Moves
  BY <1>12, QuietStays DEF Moves, Wakeup, PairDone, ReadDone, SendDone, TimeoutDone,
     DiscardDone, CommandDone
<1>13. CASE UNCHANGED vars
  BY <1>13, QuietStays DEF vars
<1> QED  BY <1>1, <1>2, <1>3, <1>4, <1>5, <1>6, <1>7, <1>8, <1>9, <1>10, <1>11, <1>12, <1>13
         DEF Next, Ports, QueueCheck, OnEntry, OnFrame, Moves

LEMMA InitMaps == Init => Transactions!Init
<1> SUFFICES ASSUME Init  PROVE Transactions!Init
  OBVIOUS
<1>1. Len(wq) = 0 /\ Len(jobs) = 0 /\ Positions = {}
  BY DEF Init, Positions
<1>2. Running = [d \in Devices |-> {}]
  BY <1>1 DEF Running
<1>3. Over = {}
  BY <1>1 DEF Over
<1> QED  BY <1>1, <1>2, <1>3 DEF Transactions!Init, Running, Over

(* The queue with its resends, timers, pauses and steps is an              *)
(* implementation of DeviceTransactions: on each device one transaction    *)
(* after the other, and nothing begins for a command that is over.         *)
THEOREM QueueImplements == Spec => ImplementsTransactions
<1>1. Inductive /\ Inductive' /\ [Next]_vars => [Transactions!Next]_(Transactions!vars)
  BY NextMaps
<1> QED  BY <1>1, InitMaps, QueueInvariant, PTL
            DEF Spec, ImplementsTransactions, Transactions!Spec

-----------------------------------------------------------------------------
(* A device is served in the order of the queue.  What makes it so: an     *)
(* entry that was never sent has no delay, so that it is due as soon as    *)
(* its device is free, and no entry still waits for its timer when the     *)
(* walk that sends is on.                                                  *)

Prompt(e)    == Radio(e.step) /\ e.retry = 0 /\ e.pkt = 0 =>
                  e.wait = 0 /\ (e.st = 1 => e.t = 0)
AllPrompt(w) == \A k \in 1 .. Len(w) : Prompt(w[k])
AllTimed(w)  == \A k \in 1 .. Len(w) : w[k].st # 0
InOrder      == AllPrompt(wq) /\ (pc = "high" => AllTimed(wq))

LEMMA RemovePrompt ==
  ASSUME NEW w \in Seq(Entry), NEW i \in 1 .. Len(w)
  PROVE  /\ AllPrompt(w) => AllPrompt(RemoveAt(w, i))
         /\ AllTimed(w) => AllTimed(RemoveAt(w, i))
<1>1. /\ Len(w) \in Nat /\ Len(RemoveAt(w, i)) = Len(w) - 1
      /\ \A k \in 1 .. Len(w) - 1 : RemoveAt(w, i)[k] = IF k < i THEN w[k] ELSE w[k + 1]
  BY RemoveAtProperties, LenProperties
<1>2. \A k \in 1 .. Len(w) - 1 : k \in 1 .. Len(w) /\ k + 1 \in 1 .. Len(w)
  BY <1>1
<1> QED  BY <1>1, <1>2 DEF AllPrompt, AllTimed

LEMMA AppendPrompt ==
  ASSUME NEW w \in Seq(Entry), NEW e \in Entry, AllPrompt(w), Prompt(e)
  PROVE  AllPrompt(Append(w, e))
<1>1. /\ Len(w) \in Nat /\ Len(Append(w, e)) = Len(w) + 1
      /\ \A k \in 1 .. Len(w) : Append(w, e)[k] = w[k]
      /\ Append(w, e)[Len(w) + 1] = e
  BY AppendFacts, LenProperties
<1>2. \A k \in 1 .. Len(w) + 1 : k \in 1 .. Len(w) \/ k = Len(w) + 1
  BY <1>1
<1> QED  BY <1>1, <1>2 DEF AllPrompt

LEMMA NewPrompt ==
  ASSUME NEW step, NEW s, NEW sub
  PROVE  Prompt(NewEntry(s, step, sub, 0, WaitTime(step)))
BY DEF Prompt, NewEntry, WaitTime, Radio

LEMMA StartPrompt ==
  ASSUME Inductive, AllPrompt(wq), NEW c \in Commands, NEW client \in BOOLEAN, Start(c, client)
  PROVE  AllPrompt(wq')
<1>0. wq \in Seq(Entry) /\ jobs \in Seq(Job) /\ Len(jobs) \in Nat /\ TypeOK
  BY InductiveFacts, LenProperties
<1>1. /\ c.steps \in Seq(Steps) /\ c.steps[1] \in Steps
      /\ WaitTime(c.steps[1]) \in Nat /\ c.combi \in BOOLEAN
  BY StepTypes
<1>2. NextSeq \in Nat \ {0}
  BY <1>0 DEF NextSeq
<1>3. CASE c.combi
  <2>1. CombiStep \in Steps /\ 0 \in 0 .. FrameMax /\ 1000 \in State
    BY ConstantsAssumption DEF CombiStep, Steps, StepKinds, State
  <2>2. CombiEntry(NextSeq, c.steps) \in Entry
    BY <1>1, <1>2, <2>1 DEF CombiEntry, Entry
  <2>3. Prompt(CombiEntry(NextSeq, c.steps))
    BY DEF Prompt, CombiEntry, CombiStep, Radio
  <2> QED  BY <1>0, <1>3, <2>2, <2>3, AppendPrompt DEF Start
<1>4. CASE ~c.combi /\ Queued(c.steps[1])
  <2>1. NewEntry(NextSeq, c.steps[1], FALSE, 0, WaitTime(c.steps[1])) \in Entry
    BY <1>0, <1>1, <1>2, NewEntryType
  <2>2. wq' = Append(wq, NewEntry(NextSeq, c.steps[1], FALSE, 0, WaitTime(c.steps[1])))
    BY <1>4 DEF Start
  <2> QED  BY <1>0, <2>1, <2>2, NewPrompt, AppendPrompt
<1>5. CASE ~c.combi /\ ~Queued(c.steps[1])
  BY <1>5 DEF Start
<1> QED  BY <1>1, <1>3, <1>4, <1>5

LEMMA ResendPrompt ==
  ASSUME Inductive, AllPrompt(wq), NEW i \in 1 .. Len(wq), NEW delay \in Nat
  PROVE  AllPrompt([wq EXCEPT ![i] = Resend(wq[i], delay)])
<1> DEFINE f == Resend(wq[i], delay)
<1>1. wq \in Seq(Entry) /\ wq[i] \in Entry /\ TypeOK
  BY InductiveFacts
<1>2. f \in Entry
  BY <1>1, ResendType
<1>3. f.retry = wq[i].retry + 1 /\ wq[i].retry \in Nat
  BY <1>1 DEF Resend, Entry
<1> HIDE DEF f
<1>4. Prompt(f)
  BY <1>3 DEF Prompt
<1>5. /\ Len([wq EXCEPT ![i] = f]) = Len(wq)
      /\ \A k \in 1 .. Len(wq) : [wq EXCEPT ![i] = f][k] = IF k = i THEN f ELSE wq[k]
  BY <1>1, <1>2, ExceptSeq
<1> QED  BY <1>4, <1>5 DEF AllPrompt, f

(* Nothing but a timer check makes the walk that sends begin.              *)
LEMMA PairPrompt ==
  ASSUME Inductive, AllPrompt(wq), NEW i \in 1 .. Len(wq), NEW j \in 1 .. Len(rq),
         \/ \E good \in BOOLEAN : PairEnd(i, j, good)
         \/ \E retry \in BOOLEAN : PairError(i, j, retry)
         \/ PairNext(i, j) \/ Delivered(i, j)
         \/ \E noaddr \in BOOLEAN : NotDelivered(i, j, noaddr)
  PROVE  AllPrompt(wq') /\ pc' = "pair"
<1>1. /\ wq \in Seq(Entry) /\ wq[i] \in Entry /\ wq[i].wait \in Nat
      /\ {ATRetryWait, TxRetryWait} \subseteq Nat /\ TypeOK
  <2>1. wq \in Seq(Entry) /\ wq[i] \in Entry /\ TypeOK
    BY InductiveFacts
  <2> QED  BY <2>1, ConstantsAssumption DEF Entry
<1>2. ASSUME NEW K, Finished(i, j, K)  PROVE AllPrompt(wq')
  BY <1>1, <1>2, RemovePrompt DEF Finished, Drop
<1>3. ASSUME NEW delay \in Nat, TryAgain(i, j, delay)  PROVE AllPrompt(wq')
  BY <1>3, ResendPrompt DEF TryAgain
<1>4. CASE \E good \in BOOLEAN : PairEnd(i, j, good)
  BY <1>2, <1>4 DEF PairEnd, Finished
<1>5. CASE \E retry \in BOOLEAN : PairError(i, j, retry)
  <2> SUFFICES ASSUME NEW retry \in BOOLEAN, PairError(i, j, retry)
               PROVE  AllPrompt(wq') /\ pc' = "pair"
    BY <1>5
  <2>1. pc' = "pair"
    BY DEF PairError, Finished, TryAgain
  <2>2. CASE retry /\ ~Exhausted(wq[i])
    <3>1. PICK delay \in Nat : TryAgain(i, j, delay)
      <4>1. TryAgain(i, j, IF rq[j].type = "at" THEN ATRetryWait ELSE wq[i].wait)
        BY <2>2 DEF PairError
      <4>2. (IF rq[j].type = "at" THEN ATRetryWait ELSE wq[i].wait) \in Nat
        BY <1>1
      <4> QED  BY <4>1, <4>2
    <3> QED  BY <1>3, <2>1, <3>1
  <2>3. CASE ~(retry /\ ~Exhausted(wq[i]))
    BY <1>2, <2>1, <2>3 DEF PairError
  <2> QED  BY <2>2, <2>3
<1>6. CASE PairNext(i, j)
  <2> DEFINE f == NewEntry(wq[i].seq, wq[i].step, wq[i].sub, wq[i].pkt + 1, wq[i].step.gap)
  <2>1. /\ wq[i].seq \in Nat \ {0} /\ wq[i].step \in Steps /\ wq[i].sub \in BOOLEAN
        /\ wq[i].pkt \in Nat
    BY <1>1 DEF Entry
  <2>2. wq[i].step.gap \in Nat /\ wq[i].pkt + 1 \in Nat /\ wq[i].pkt + 1 # 0
    BY <2>1 DEF Steps
  <2>3. f \in Entry
    BY <1>1, <2>1, <2>2, NewEntryType
  <2>4. Prompt(f)
    BY <2>2 DEF Prompt, NewEntry
  <2>5. wq' = Append(RemoveAt(wq, i), f) /\ pc' = "pair"
    BY <1>6 DEF PairNext
  <2> HIDE DEF f
  <2>6. RemoveAt(wq, i) \in Seq(Entry) /\ AllPrompt(RemoveAt(wq, i))
    BY <1>1, RemoveAtProperties, RemovePrompt
  <2> QED  BY <2>3, <2>4, <2>5, <2>6, AppendPrompt
<1>7. CASE Delivered(i, j)
  BY <1>7 DEF Delivered
<1>8. CASE \E noaddr \in BOOLEAN : NotDelivered(i, j, noaddr)
  <2>1. pc' = "pair"
    BY <1>8 DEF NotDelivered, Finished, TryAgain
  <2> QED  BY <1>1, <1>2, <1>3, <1>8, <2>1 DEF NotDelivered
<1> QED  BY <1>4, <1>5, <1>6, <1>7, <1>8

LEMMA SendPrompt ==
  ASSUME Inductive, InOrder, NEW i \in 1 .. Len(wq), Send(i)
  PROVE  AllPrompt(wq') /\ AllTimed(wq')
<1> DEFINE f == [[wq[i] EXCEPT !.st = 2] EXCEPT !.t = 0]
<1>1. /\ wq \in Seq(Entry) /\ wq[i] \in Entry
  BY InductiveFacts
<1>2. f \in Entry /\ f.st = 2 /\ f.t = 0 /\ f.step = wq[i].step /\ f.retry = wq[i].retry
      /\ f.pkt = wq[i].pkt /\ f.wait = wq[i].wait
  <2>1. 2 \in State
    BY DEF State
  <2> QED  BY <1>1, <2>1, SentType DEF Entry
<1>3. wq' = [wq EXCEPT ![i] = f]
  BY <1>1 DEF Send
<1> HIDE DEF f
<1>4. /\ Len(wq') = Len(wq)
      /\ \A k \in 1 .. Len(wq) : wq'[k] = IF k = i THEN f ELSE wq[k]
  BY <1>1, <1>2, <1>3, ExceptSeq
<1>5. AllPrompt(wq) /\ AllTimed(wq)
  BY DEF InOrder, Send
<1>6. Prompt(f)
  BY <1>2, <1>5 DEF AllPrompt, Prompt
<1> QED  BY <1>2, <1>4, <1>5, <1>6 DEF AllPrompt, AllTimed

LEMMA CombiStepOnPrompt ==
  ASSUME Inductive, AllPrompt(wq), NEW i \in 1 .. Len(wq), CombiStepOn(i)
  PROVE  AllPrompt(wq')
<1> DEFINE step == Head(wq[i].rest)
           f    == [wq[i] EXCEPT !.rest = Tail(wq[i].rest)]
           v    == [wq EXCEPT ![i] = f]
           e    == NewEntry(wq[i].seq, step, TRUE, 0, WaitTime(step))
<1>1. TypeOK /\ wq \in Seq(Entry) /\ wq[i] \in Entry
  BY InductiveFacts
<1>2. wq[i].rest \in Seq(Steps) /\ wq[i].rest # << >> /\ wq[i].seq \in Nat \ {0}
  BY <1>1 DEF CombiStepOn, Entry
<1>3. Tail(wq[i].rest) \in Seq(Steps) /\ step \in Steps
  BY <1>2, HeadTailProperties
<1>4. WaitTime(step) \in Nat
  BY <1>3 DEF WaitTime, Steps
<1>5. e \in Entry /\ Prompt(e)
  BY <1>1, <1>2, <1>3, <1>4, NewEntryType, NewPrompt
<1>6. wq' = IF Queued(step) THEN Append(v, e) ELSE v
  <2>1. v = [wq EXCEPT ![i].rest = Tail(wq[i].rest)]
    BY <1>1
  <2> QED  BY <2>1 DEF CombiStepOn
<1>7. f \in Entry
  BY <1>1, <1>3 DEF Entry
<1>8. /\ f.step = wq[i].step /\ f.retry = wq[i].retry /\ f.pkt = wq[i].pkt
      /\ f.wait = wq[i].wait /\ f.st = wq[i].st /\ f.t = wq[i].t
  BY <1>1 DEF Entry
<1> HIDE DEF step, f, e
<1>9. /\ v \in Seq(Entry) /\ Len(v) = Len(wq)
      /\ \A k \in 1 .. Len(wq) : v[k] = IF k = i THEN f ELSE wq[k]
  BY <1>1, <1>7, ExceptSeq
<1> HIDE DEF v
<1>10. AllPrompt(v)
  <2>1. Prompt(f)
    BY <1>8 DEF AllPrompt, Prompt
  <2> QED  BY <1>9, <2>1 DEF AllPrompt
<1> QED  BY <1>5, <1>6, <1>9, <1>10, AppendPrompt

LEMMA TickPrompt ==
  ASSUME Inductive, AllPrompt(wq), Tick  PROVE AllPrompt(wq')
<1>1. Len(wq) \in Nat /\ \A k \in 1 .. Len(wq) : wq[k] \in Entry
  BY InductiveFacts, LenProperties
<1>2. ASSUME NEW k \in 1 .. Len(wq)  PROVE Prompt(Older(wq[k]))
  <2>1. wq[k] \in Entry /\ Prompt(wq[k])
    BY <1>1 DEF AllPrompt
  <2>2. wq[k].t \in Nat
    BY <2>1 DEF Entry
  <2>3. CASE wq[k].st = 1
    <3> DEFINE n == IF wq[k].t = 0 THEN 0 ELSE wq[k].t - 1
               f == [wq[k] EXCEPT !.t = n]
    <3>1. Older(wq[k]) = f
      BY <2>3 DEF Older
    <3>2. /\ f.step = wq[k].step /\ f.retry = wq[k].retry /\ f.pkt = wq[k].pkt
          /\ f.wait = wq[k].wait /\ f.st = wq[k].st /\ f.t = n
      BY <2>1 DEF Entry
    <3> HIDE DEF f
    <3> QED  BY <2>1, <2>3, <3>1, <3>2 DEF Prompt
  <2>4. CASE wq[k].st = 2
    <3> DEFINE f == [wq[k] EXCEPT !.t = wq[k].t + 1]
    <3>1. Older(wq[k]) = f
      BY <2>4 DEF Older
    <3>2. /\ f.step = wq[k].step /\ f.retry = wq[k].retry /\ f.pkt = wq[k].pkt
          /\ f.wait = wq[k].wait /\ f.st = 2
      BY <2>1, <2>4 DEF Entry
    <3> HIDE DEF f
    <3> QED  BY <2>1, <3>1, <3>2 DEF Prompt
  <2>5. CASE wq[k].st \notin {1, 2}
    BY <2>1, <2>5 DEF Older
  <2> QED  BY <2>3, <2>4, <2>5
<1>3. Len(wq') = Len(wq) /\ \A k \in 1 .. Len(wq) : wq'[k] = Older(wq[k])
  BY <1>1 DEF Tick
<1> QED  BY <1>2, <1>3 DEF AllPrompt

LEMMA TimerCheckPrompt ==
  ASSUME Inductive, AllPrompt(wq), TimerCheck  PROVE AllPrompt(wq') /\ AllTimed(wq')
<1> DEFINE f(e) == IF e.st = 0 THEN [[e EXCEPT !.st = 1] EXCEPT !.t = e.wait] ELSE e
<1>1. Len(wq) \in Nat /\ \A k \in 1 .. Len(wq) : wq[k] \in Entry
  BY InductiveFacts, LenProperties
<1>2. ASSUME NEW k \in 1 .. Len(wq)  PROVE Prompt(f(wq[k])) /\ f(wq[k]).st # 0
  <2>1. wq[k] \in Entry /\ Prompt(wq[k])
    BY <1>1 DEF AllPrompt
  <2>2. CASE wq[k].st = 0
    <3> DEFINE g == [[wq[k] EXCEPT !.st = 1] EXCEPT !.t = wq[k].wait]
    <3>1. f(wq[k]) = g
      BY <2>2
    <3>2. /\ g.step = wq[k].step /\ g.retry = wq[k].retry /\ g.pkt = wq[k].pkt
          /\ g.wait = wq[k].wait /\ g.st = 1 /\ g.t = wq[k].wait
      BY <2>1 DEF Entry
    <3> HIDE DEF f, g
    <3> QED  BY <2>1, <3>1, <3>2 DEF Prompt
  <2>3. CASE wq[k].st # 0
    BY <2>1, <2>3
  <2> QED  BY <2>2, <2>3
<1>3. wq' = [k \in 1 .. Len(wq) |-> f(wq[k])]
  BY DEF TimerCheck
<1> HIDE DEF f
<1>4. Len(wq') = Len(wq) /\ \A k \in 1 .. Len(wq) : wq'[k] = f(wq[k])
  BY <1>1, <1>3
<1> QED  BY <1>2, <1>4 DEF AllPrompt, AllTimed

LEMMA NextInOrder ==
  ASSUME Inductive, InOrder, [Next]_vars
  PROVE  InOrder'
<1>0. AllPrompt(wq) /\ wq \in Seq(Entry)
  BY InductiveFacts DEF InOrder
<1>1. CASE \E c \in Commands : Submit(c)
  BY <1>0, <1>1, StartPrompt DEF Submit, InOrder
<1>2. CASE \/ \E r \in air, known \in BOOLEAN : Receive(r, known)
           \/ \E d \in Devices, n \in Notices : Notify(d, n)
  BY <1>0, <1>2 DEF Receive, Notify, InOrder
<1>3. CASE Tick
  <2>1. pc' # "high"
    BY <1>3 DEF Tick
  <2> QED  BY <1>0, <1>3, <2>1, TickPrompt DEF InOrder
<1>4. CASE Pair
  <2>1. PICK i \in 1 .. Len(wq), j \in 1 .. Len(rq) :
           \/ \E good \in BOOLEAN : PairEnd(i, j, good)
           \/ PairNext(i, j)
           \/ \E retry \in BOOLEAN : PairError(i, j, retry)
           \/ Delivered(i, j)
           \/ \E noaddr \in BOOLEAN : NotDelivered(i, j, noaddr)
    BY <1>4 DEF Pair
  <2>2. AllPrompt(wq') /\ pc' = "pair"
    BY <1>0, <2>1, PairPrompt
  <2> QED  BY <2>2 DEF InOrder
<1>5. CASE \E j \in 1 .. Len(rq) : ReadNotification(j)
  <2>1. PICK j \in 1 .. Len(rq) : ReadNotification(j)
    BY <1>5
  <2>2. pc' # "high"
    BY <2>1 DEF ReadNotification
  <2>3. CASE rq[j].cmd = NoCommand
    BY <1>0, <2>1, <2>2, <2>3 DEF ReadNotification, InOrder
  <2>4. CASE rq[j].cmd # NoCommand
    <3>1. rq[j] \in Frame
      BY InductiveFacts, ElementOfSeq DEF TypeRest
    <3>2. rq[j].cmd \in Commands
      BY <2>4, <3>1 DEF Frame
    <3>3. Start(rq[j].cmd, FALSE)
      BY <2>1, <2>4 DEF ReadNotification
    <3>4. AllPrompt(wq')
      BY <1>0, <3>2, <3>3, StartPrompt
    <3> QED  BY <2>2, <3>4 DEF InOrder
  <2> QED  BY <2>3, <2>4
<1>6. CASE \E j \in 1 .. Len(rq) : Discard(j)
  BY <1>0, <1>6 DEF Discard, InOrder
<1>7. CASE \E i \in 1 .. Len(wq) : Send(i)
  BY <1>7, SendPrompt DEF InOrder
<1>8. CASE \E i \in 1 .. Len(wq) : WaitOver(i)
  BY <1>0, <1>8, RemovePrompt DEF WaitOver, InOrder
<1>9. CASE \E i \in 1 .. Len(wq) : Timeout(i)
  <2>1. PICK i \in 1 .. Len(wq) : Timeout(i)
    BY <1>9
  <2>2. pc' # "high"
    BY <2>1 DEF Timeout
  <2>3. wq' = RemoveAt(wq, i) \/ wq' = [wq EXCEPT ![i] = Resend(wq[i], 0)]
    BY <2>1 DEF Timeout
  <2>4. AllPrompt(wq')
    BY <1>0, <2>3, RemovePrompt, ResendPrompt
  <2> QED  BY <2>2, <2>4 DEF InOrder
<1>10. CASE \E i \in 1 .. Len(wq) : CombiEnd(i)
  BY <1>0, <1>10, RemovePrompt DEF CombiEnd, InOrder
<1>11. CASE \E i \in 1 .. Len(wq) : CombiStepOn(i)
  <2>1. PICK i \in 1 .. Len(wq) : CombiStepOn(i)
    BY <1>11
  <2>2. AllPrompt(wq') /\ pc' # "high"
    BY <1>0, <2>1, CombiStepOnPrompt DEF CombiStepOn
  <2> QED  BY <2>2 DEF InOrder
<1>12. CASE TimerCheck
  BY <1>0, <1>12, TimerCheckPrompt DEF InOrder
<1>13. CASE Moves
  BY <1>0, <1>13 DEF Moves, Wakeup, PairDone, ReadDone, SendDone, TimeoutDone,
     DiscardDone, CommandDone, Goto, InOrder
<1>14. CASE UNCHANGED vars
  BY <1>0, <1>14 DEF vars, InOrder
<1> QED  BY <1>1, <1>2, <1>3, <1>4, <1>5, <1>6, <1>7, <1>8, <1>9, <1>10, <1>11, <1>12, <1>13, <1>14
         DEF Next, Ports, QueueCheck, OnEntry, OnFrame, Moves

InTurn == \A d \in Devices : lock[d] = 0 /\ lock'[d] # 0 =>
            \E i \in Positions : /\ On(wq[i], d) /\ wq[i].seq = lock'[d]
                                 /\ \A k \in 1 .. i - 1 : ~On(wq[k], d)

LEMMA SendInTurn ==
  ASSUME Inductive, InOrder, NEW i \in 1 .. Len(wq), Send(i)
  PROVE  InTurn
<1>1. /\ wq[i].st = 1 /\ Radio(wq[i].step) /\ pc = "high"
      /\ \A k \in 1 .. i - 1 : ~Due(wq[k])
  <2>1. First(Due, wq, 1, i) /\ Radio(wq[i].step) /\ pc = "high"
    BY DEF Send
  <2> QED  BY <2>1 DEF First, Due
<1>2. /\ Good(wq, lock, jobs) /\ lock \in [Devices -> Nat] /\ Len(wq) \in Nat
      /\ wq[i].step.dev \in Devices
      /\ \A k \in 1 .. Len(wq) : wq[k].st \in State /\ wq[k] \in Entry /\ wq[k].seq \in Nat \ {0}
  <2>1. Good(wq, lock, jobs)
    BY InductiveFacts
  <2>2. \A k \in 1 .. Len(wq) : wq[k] \in Entry
    BY <2>1, GoodTypes
  <2> QED  BY <1>1, <2>1, <2>2, GoodTypes DEF Entry
<1>3. lock' = [lock EXCEPT ![wq[i].step.dev] = wq[i].seq]
  BY DEF Send
<1> SUFFICES ASSUME NEW d \in Devices, lock[d] = 0, lock'[d] # 0
             PROVE  \E n \in Positions : /\ On(wq[n], d) /\ wq[n].seq = lock'[d]
                                         /\ \A k \in 1 .. n - 1 : ~On(wq[k], d)
  BY DEF InTurn
<1>4. d = wq[i].step.dev /\ lock'[d] = wq[i].seq
  BY <1>2, <1>3
<1>5. ASSUME NEW k \in 1 .. i - 1, On(wq[k], d)
      PROVE  FALSE
  <2>1. k \in 1 .. Len(wq)
    BY <1>2
  <2>2. Radio(wq[k].step) /\ wq[k].step.dev = d /\ wq[k] \in Entry
    BY <1>2, <1>5, <2>1 DEF On
  <2>3. ~Started(wq[k])
    BY <1>2, <2>1, <2>2, GoodAt
  <2>4. wq[k].st # 1000
    BY <1>2, <2>1, <2>2, GoodAt DEF FitsJob
  <2>5. wq[k].st # 0 /\ Prompt(wq[k])
    BY <1>1, <2>1 DEF InOrder, AllTimed, AllPrompt
  <2>6. wq[k].st = 1
    BY <1>2, <2>1, <2>2, <2>3, <2>4, <2>5 DEF State, Started
  <2>7. wq[k].retry \in Nat /\ wq[k].pkt \in Nat
    BY <2>2 DEF Entry
  <2>8. wq[k].t = 0
    BY <2>2, <2>3, <2>5, <2>6, <2>7 DEF Prompt, Started
  <2>9. Due(wq[k])
    BY <2>2, <2>6, <2>8 DEF Due, Mine
  <2> QED  BY <1>1, <2>9
<1>6. On(wq[i], d)
  BY <1>1, <1>4 DEF On
<1> QED  BY <1>4, <1>5, <1>6 DEF Positions

LEMMA NextInTurn ==
  ASSUME Inductive, InOrder, [Next]_vars
  PROVE  InTurn
<1>0. lock \in [Devices -> Nat]
  BY InductiveFacts
<1>1. CASE \E i \in 1 .. Len(wq) : Send(i)
  BY <1>1, SendInTurn
<1>2. CASE \A i \in 1 .. Len(wq) : ~Send(i)
  <2>1. lock' = lock \/ \E dev : lock' = Free(dev)
    <3>1. CASE Ports \/ Tick \/ OnFrame \/ TimerCheck \/ Moves
      BY <3>1 DEF Ports, Submit, Receive, Notify, Tick, OnFrame, ReadNotification, Discard,
         TimerCheck, Moves, Wakeup, PairDone, ReadDone, SendDone, TimeoutDone, DiscardDone,
         CommandDone
    <3>2. CASE OnEntry
      BY <1>2, <3>2 DEF OnEntry, WaitOver, Timeout, CombiEnd, CombiStepOn
    <3>3. CASE Pair
      BY <3>3 DEF Pair, PairEnd, PairNext, PairError, Delivered, NotDelivered, Finished, TryAgain
    <3>4. CASE UNCHANGED vars
      BY <3>4 DEF vars
    <3> QED  BY <3>1, <3>2, <3>3, <3>4 DEF Next, QueueCheck, Moves
  <2>2. \A d \in Devices : lock[d] = 0 => lock'[d] = 0
    BY <1>0, <2>1 DEF Free
  <2> QED  BY <2>2 DEF InTurn
<1> QED  BY <1>1, <1>2

(* A free device is taken by the first entry for it: commands to one       *)
(* device never overtake each other in the queue, whatever is retried,     *)
(* delayed or timed out in between (WriteQueueHighPriorityCheck).          *)
THEOREM DevicesServeInOrder == Spec => ServedInOrder
<1>1. Init => InOrder
  <2>1. Init => Len(wq) = 0 /\ pc = "select"
    BY DEF Init
  <2> QED  BY <2>1 DEF InOrder, AllPrompt
<1>2. Inductive /\ InOrder /\ [Next]_vars => InOrder'
  BY NextInOrder
<1>3. Inductive /\ InOrder /\ [Next]_vars => [InTurn]_vars
  BY NextInTurn
<1> QED  BY <1>1, <1>2, <1>3, QueueInvariant, PTL DEF Spec, ServedInOrder, InTurn
=============================================================================

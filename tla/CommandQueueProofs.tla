-------------------------- MODULE CommandQueueProofs --------------------------
(***************************************************************************)
(* Proofs about CommandQueue, for every value of its constants.            *)
(***************************************************************************)
EXTENDS CommandQueue, SequenceTheorems, TLAPS

(* What removing one item of a list leaves.                                *)
LEMMA RemoveAtProperties ==
  ASSUME NEW S, NEW s \in Seq(S), NEW i \in 1 .. Len(s)
  PROVE  /\ RemoveAt(s, i) \in Seq(S)
         /\ Len(RemoveAt(s, i)) = Len(s) - 1
         /\ \A k \in 1 .. Len(s) - 1 :
              RemoveAt(s, i)[k] = IF k < i THEN s[k] ELSE s[k + 1]
<1> DEFINE a == SubSeq(s, 1, i - 1)
           b == SubSeq(s, i + 1, Len(s))
<1>0. Len(s) \in Nat /\ i \in Nat /\ 1 <= i /\ i <= Len(s) /\ \A k \in 1 .. Len(s) : s[k] \in S
  BY ElementOfSeq, LenProperties
<1>1. /\ a \in Seq(S) /\ Len(a) = i - 1
      /\ \A k \in 1 .. i - 1 : a[k] = s[k]
  <2>1. \A k \in 1 .. i - 1 : s[k] \in S
    BY <1>0
  <2> QED  BY <1>0, <2>1, SubSeqProperties
<1>2. /\ b \in Seq(S) /\ Len(b) = Len(s) - i
      /\ \A k \in 1 .. Len(s) - i : b[k] = s[i + k]
  <2>1. \A k \in i + 1 .. Len(s) : s[k] \in S
    BY <1>0
  <2> QED  BY <1>0, <2>1, SubSeqProperties
<1>3. /\ a \o b \in Seq(S) /\ Len(a \o b) = Len(s) - 1
      /\ \A k \in 1 .. Len(s) - 1 :
           (a \o b)[k] = IF k <= i - 1 THEN a[k] ELSE b[k - (i - 1)]
  <2> HIDE DEF a, b
  <2> QED  BY <1>0, <1>1, <1>2, ConcatProperties
<1>4. \A k \in 1 .. Len(s) - 1 : (a \o b)[k] = IF k < i THEN s[k] ELSE s[k + 1]
  <2> HIDE DEF a, b
  <2> SUFFICES ASSUME NEW k \in 1 .. Len(s) - 1
               PROVE  (a \o b)[k] = IF k < i THEN s[k] ELSE s[k + 1]
    OBVIOUS
  <2>1. CASE k < i
    <3>1. k \in 1 .. i - 1
      BY <2>1, <1>0
    <3> QED  BY <2>1, <3>1, <1>1, <1>3
  <2>2. CASE ~(k < i)
    <3>1. k - (i - 1) \in 1 .. Len(s) - i /\ i + (k - (i - 1)) = k + 1
      BY <2>2, <1>0
    <3>2. b[k - (i - 1)] = s[k + 1]
      BY <3>1, <1>2
    <3> QED  BY <2>2, <3>2, <1>0, <1>3
  <2> QED  BY <2>1, <2>2
<1> QED  BY <1>3, <1>4 DEF RemoveAt

LEMMA AppendFacts ==
  ASSUME NEW S, NEW s \in Seq(S), NEW e \in S
  PROVE  /\ Append(s, e) \in Seq(S)
         /\ Len(Append(s, e)) = Len(s) + 1
         /\ \A k \in 1 .. Len(s) : Append(s, e)[k] = s[k]
         /\ Append(s, e)[Len(s) + 1] = e
OBVIOUS

-----------------------------------------------------------------------------
(* Type correctness                                                        *)

LEMMA NewEntryType ==
  ASSUME TypeOK, NEW s \in Nat \ {0}, NEW step \in Steps, NEW sub \in BOOLEAN,
         NEW pkt \in Nat, NEW wait \in Nat
  PROVE  NewEntry(s, step, sub, pkt, wait) \in Entry
<1>1. << >> \in Seq(Steps)
  BY EmptySeq
<1>2. (IF Radio(step) THEN FrameID ELSE 0) \in 0 .. FrameMax
  BY ConstantsAssumption DEF TypeOK
<1> QED  BY <1>1, <1>2 DEF NewEntry, Entry, State

LEMMA NextFrameType == ASSUME TypeOK PROVE NextFrame \in 1 .. FrameMax
BY ConstantsAssumption DEF TypeOK, NextFrame

LEMMA ResendType ==
  ASSUME TypeOK, NEW e \in Entry, NEW delay \in Nat
  PROVE  Resend(e, delay) \in Entry
<1>1. e.retry + 1 \in Nat
  BY DEF Entry
<1>2. FrameID \in 0 .. FrameMax
  BY ConstantsAssumption DEF TypeOK
<1>3. 0 \in State
  BY DEF State
<1> QED  BY <1>1, <1>2, <1>3 DEF Resend, Entry

LEMMA StepTypes ==
  \A c \in Commands : /\ c \in [combi: BOOLEAN, steps: Seq(Steps)]
                      /\ c.steps[1] \in Steps
                      /\ WaitTime(c.steps[1]) \in Nat
<1> SUFFICES ASSUME NEW c \in Commands
             PROVE  /\ c \in [combi: BOOLEAN, steps: Seq(Steps)]
                    /\ c.steps[1] \in Steps
                    /\ WaitTime(c.steps[1]) \in Nat
  OBVIOUS
<1>1. c \in [combi: BOOLEAN, steps: Seq(Steps)] /\ c.steps # << >>
  BY ConstantsAssumption
<1>2. 1 \in 1 .. Len(c.steps)
  BY <1>1, EmptySeq
<1>3. c.steps[1] \in Steps
  BY <1>1, <1>2, ElementOfSeq
<1> QED  BY <1>1, <1>3 DEF WaitTime, Steps

LEMMA StartType ==
  ASSUME TypeOK, NEW c \in Commands, NEW client \in BOOLEAN, Start(c, client)
  PROVE  wq' \in Seq(Entry) /\ jobs' \in Seq(Job) /\ FrameID' \in 1 .. FrameMax
<1>1. /\ c.steps \in Seq(Steps) /\ c.steps[1] \in Steps
      /\ WaitTime(c.steps[1]) \in Nat /\ c.combi \in BOOLEAN
  BY StepTypes
<1>2. NextSeq \in Nat \ {0}
  BY DEF TypeOK, NextSeq
<1>3. CombiEntry(NextSeq, c.steps) \in Entry
  <2>1. CombiStep \in Steps
    BY ConstantsAssumption DEF CombiStep, Steps, StepKinds
  <2>2. 0 \in 0 .. FrameMax /\ 1000 \in State
    BY ConstantsAssumption DEF State
  <2> QED  BY <1>1, <1>2, <2>1, <2>2 DEF CombiEntry, Entry
<1>4. NewEntry(NextSeq, c.steps[1], FALSE, 0, WaitTime(c.steps[1])) \in Entry
  BY <1>1, <1>2, NewEntryType
<1>5. wq' \in Seq(Entry)
  <2>1. CASE c.combi
    <3>1. wq' = Append(wq, CombiEntry(NextSeq, c.steps))
      BY <2>1 DEF Start
    <3> QED  BY <1>3, <3>1, AppendFacts DEF TypeOK
  <2>2. CASE ~c.combi /\ Queued(c.steps[1])
    <3>1. wq' = Append(wq, NewEntry(NextSeq, c.steps[1], FALSE, 0, WaitTime(c.steps[1])))
      BY <2>2 DEF Start
    <3> QED  BY <1>4, <3>1, AppendFacts DEF TypeOK
  <2>3. CASE ~c.combi /\ ~Queued(c.steps[1])
    BY <2>3 DEF Start, TypeOK
  <2> QED  BY <2>1, <2>2, <2>3
<1>6. jobs' \in Seq(Job)
  BY <1>1 DEF Start, TypeOK, Job
<1>7. FrameID' \in 1 .. FrameMax
  BY NextFrameType DEF Start, TypeOK
<1> QED  BY <1>5, <1>6, <1>7

(* Counting responses changes the counts of one job and nothing else.      *)
Counted(K, J, s, a, b, c) ==
  /\ K \in Seq(Job) /\ Len(K) = Len(J)
  /\ \A k \in 1 .. Len(J) : k # s => K[k] = J[k]
  /\ \A k \in 1 .. Len(J) :
       k = s => K[k] = [cmd |-> J[k].cmd, client |-> J[k].client, ok |-> J[k].ok + a,
                       err |-> J[k].err + b, subs |-> J[k].subs + c]

LEMMA ToldProperties ==
  ASSUME jobs \in Seq(Job), NEW s, NEW a \in Nat, NEW b \in Nat, NEW c \in Nat
  PROVE  Counted(Told(s, a, b, c), jobs, s, a, b, c)
<1> DEFINE new == [cmd |-> jobs[s].cmd, client |-> jobs[s].client, ok |-> jobs[s].ok + a,
                   err |-> jobs[s].err + b, subs |-> jobs[s].subs + c]
<1>1. Told(s, a, b, c) = [jobs EXCEPT ![s] = new]
  BY DEF Told
<1>2. CASE s \in 1 .. Len(jobs)
  <2>1. jobs[s] \in Job
    BY <1>2, ElementOfSeq
  <2>2. new \in Job
    <3>1. /\ jobs[s].cmd \in Commands /\ jobs[s].client \in BOOLEAN
          /\ jobs[s].ok \in Nat /\ jobs[s].err \in Nat /\ jobs[s].subs \in Nat
      BY <2>1 DEF Job
    <3>2. jobs[s].ok + a \in Nat /\ jobs[s].err + b \in Nat /\ jobs[s].subs + c \in Nat
      BY SMTT(60), <3>1
    <3> QED  BY <3>1, <3>2 DEF Job
  <2> HIDE DEF new
  <2>3. /\ [jobs EXCEPT ![s] = new] \in Seq(Job)
        /\ Len([jobs EXCEPT ![s] = new]) = Len(jobs)
        /\ \A k \in 1 .. Len(jobs) : [jobs EXCEPT ![s] = new][k] = IF k = s THEN new ELSE jobs[k]
    BY <1>2, <2>2, ExceptSeq
  <2> QED  BY <1>1, <2>3 DEF new, Counted
<1>3. CASE s \notin 1 .. Len(jobs)
  <2> HIDE DEF new
  <2>1. DOMAIN jobs = 1 .. Len(jobs) /\ jobs \in [1 .. Len(jobs) -> Job]
    BY LenProperties
  <2>2. [jobs EXCEPT ![s] = new] = jobs
    BY <1>3, <2>1
  <2> QED  BY <1>1, <1>3, <2>2 DEF Counted
<1> QED  BY <1>2, <1>3

-----------------------------------------------------------------------------
(* The inductive invariant as a predicate of the write queue w, the device *)
(* locks l and the ledger J, so that each way in which a step changes them *)
(* is one lemma.                                                           *)
Held(w, l)   == \A i \in 1 .. Len(w) : Started(w[i]) => l[w[i].step.dev] = w[i].seq
NoLeak(w, l) == \A d \in Devices : l[d] # 0 =>
                  \E i \in 1 .. Len(w) : Started(w[i]) /\ On(w[i], d) /\ w[i].seq = l[d]
OneEach(w)   == \A i, j \in 1 .. Len(w) :
                  i # j /\ w[i].seq = w[j].seq => (w[i].st = 1000) # (w[j].st = 1000)
Belong(w)    == \A i \in 1 .. Len(w) : w[i].sub =>
                  \E k \in 1 .. Len(w) : w[k].st = 1000 /\ w[k].seq = w[i].seq
FitsJob(e, J) == /\ e.seq <= Len(J)
                 /\ J[e.seq].cmd.combi <=> (e.sub \/ e.st = 1000)
                 /\ e.sub => e.st # 1000
                 /\ e.st # 1000 /\ ~e.sub =>
                      e.step = J[e.seq].cmd.steps[1] /\ ~(J[e.seq].ok + J[e.seq].err > 0)
                 /\ J[e.seq].ok = 0
                 /\ e.st = 2 => Radio(e.step)
                 /\ e.st = 1000 => ~Radio(e.step)
OfJob(w, J)  == \A i \in 1 .. Len(w) : FitsJob(w[i], J)
Outcome(J)   == \A s \in 1 .. Len(J) :
                  /\ J[s].ok <= 1
                  /\ ~J[s].cmd.combi => J[s].err <= 2 /\ (J[s].ok = 0 \/ J[s].err = 0)
NoDrop(w, J) == \A s \in 1 .. Len(J) :
                  /\ J[s].cmd.combi \/ Radio(J[s].cmd.steps[1])
                  /\ \A i \in 1 .. Len(w) : w[i].seq # s
                  => J[s].ok + J[s].err > 0

Typed(w, l, J) == w \in Seq(Entry) /\ l \in [Devices -> Nat] /\ J \in Seq(Job)
Good(w, l, J)  == /\ Typed(w, l, J)
                  /\ Held(w, l) /\ NoLeak(w, l) /\ OneEach(w) /\ Belong(w)
                  /\ OfJob(w, J) /\ Outcome(J) /\ NoDrop(w, J)

LEMMA InductiveIsGood == Inductive <=> TypeOK /\ Good(wq, lock, jobs)
<1>1. LockHeldByStarted <=> Held(wq, lock)
  BY DEF LockHeldByStarted, Held, Positions
<1>2. NoLockLeak <=> NoLeak(wq, lock)
  BY DEF NoLockLeak, NoLeak, Positions
<1>3. OneEntryPerSequence <=> OneEach(wq)
  BY DEF OneEntryPerSequence, OneEach, Positions
<1>4. StepsBelong <=> Belong(wq)
  BY DEF StepsBelong, Belong, Positions
<1>5. EntryOfJob <=> OfJob(wq, jobs)
  BY DEF EntryOfJob, OfJob, FitsJob, Positions, Answered
<1>6. OutcomeConsistent <=> Outcome(jobs)
  BY DEF OutcomeConsistent, Outcome
<1>7. NoSilentDrop <=> NoDrop(wq, jobs)
  BY DEF NoSilentDrop, NoDrop, Positions, Owes, Has, Answered
<1> QED  BY <1>1, <1>2, <1>3, <1>4, <1>5, <1>6, <1>7 DEF Inductive, Good, Typed, TypeOK

(* Two entries that the invariant cannot tell apart.                       *)
Alike(e, f) == /\ e.seq = f.seq /\ e.step = f.step /\ e.sub = f.sub
               /\ Started(e) <=> Started(f)
               /\ e.st = 1000 <=> f.st = 1000
               /\ f.st = 2 => Radio(f.step)

(* Steps that change entries where they are: time, timers, resends.        *)
LEMMA AlikeGood ==
  ASSUME NEW w, NEW l, NEW J, Good(w, l, J),
         NEW v \in Seq(Entry), Len(v) = Len(w),
         \A k \in 1 .. Len(w) : Alike(w[k], v[k])
  PROVE  Good(v, l, J)
<1>g. /\ Typed(w, l, J) /\ Held(w, l) /\ NoLeak(w, l) /\ OneEach(w) /\ Belong(w)
      /\ OfJob(w, J) /\ Outcome(J) /\ NoDrop(w, J)
  BY DEF Good
<1>1. Typed(v, l, J)
  BY <1>g DEF Typed
<1>2. Held(v, l)
  BY <1>g DEF Held, Alike
<1>3. NoLeak(v, l)
  BY <1>g DEF NoLeak, Alike, On
<1>4. OneEach(v)
  BY <1>g DEF OneEach, Alike
<1>5. Belong(v)
  BY <1>g DEF Belong, Alike
<1>6. OfJob(v, J)
  BY <1>g DEF OfJob, FitsJob, Alike
<1>7. NoDrop(v, J)
  BY <1>g DEF NoDrop, Alike
<1> QED  BY <1>1, <1>2, <1>3, <1>4, <1>5, <1>6, <1>7 DEF Good

LEMMA GoodTypes ==
  ASSUME NEW w, NEW l, NEW J, Good(w, l, J)
  PROVE  /\ w \in Seq(Entry) /\ l \in [Devices -> Nat] /\ J \in Seq(Job)
         /\ Len(w) \in Nat /\ Len(J) \in Nat
         /\ \A k \in 1 .. Len(w) :
              /\ w[k] \in Entry
              /\ w[k].seq \in 1 .. Len(J)
              /\ w[k].sub \in BOOLEAN /\ w[k].st \in State
              /\ Radio(w[k].step) => w[k].step.dev \in Devices
         /\ \A s \in 1 .. Len(J) : J[s] \in Job /\ J[s].ok \in Nat /\ J[s].err \in Nat
<1>1. w \in Seq(Entry) /\ l \in [Devices -> Nat] /\ J \in Seq(Job)
  BY DEF Good, Typed
<1>2. Len(w) \in Nat /\ Len(J) \in Nat
  BY <1>1, LenProperties
<1>3. \A k \in 1 .. Len(w) : w[k] \in Entry
  BY <1>1, ElementOfSeq
<1>4. \A k \in 1 .. Len(w) :
        /\ w[k].seq \in 1 .. Len(J) /\ w[k].sub \in BOOLEAN /\ w[k].st \in State
        /\ Radio(w[k].step) => w[k].step.dev \in Devices
  <2> SUFFICES ASSUME NEW k \in 1 .. Len(w)
               PROVE  /\ w[k].seq \in 1 .. Len(J) /\ w[k].sub \in BOOLEAN /\ w[k].st \in State
                      /\ Radio(w[k].step) => w[k].step.dev \in Devices
    OBVIOUS
  <2>1. /\ w[k].seq \in Nat \ {0} /\ w[k].sub \in BOOLEAN /\ w[k].st \in State
        /\ w[k].step \in Steps
    BY <1>3 DEF Entry
  <2>2. w[k].seq <= Len(J)
    BY DEF Good, OfJob, FitsJob
  <2>3. Radio(w[k].step) => w[k].step.dev \in Devices
    BY <2>1 DEF Radio, Steps
  <2> QED  BY <1>2, <2>1, <2>2, <2>3
<1>5. \A s \in 1 .. Len(J) : J[s] \in Job
  BY <1>1, ElementOfSeq
<1>6. \A s \in 1 .. Len(J) : J[s].ok \in Nat /\ J[s].err \in Nat
  BY <1>5 DEF Job
<1> QED  BY <1>1, <1>2, <1>3, <1>4, <1>5, <1>6

(* Responses under the name of a step do not matter to the invariant.      *)
LEMMA SubsGood ==
  ASSUME NEW w, NEW l, NEW J, Good(w, l, J),
         NEW K \in Seq(Job), Len(K) = Len(J),
         \A s \in 1 .. Len(J) : K[s].cmd = J[s].cmd /\ K[s].ok = J[s].ok /\ K[s].err = J[s].err
  PROVE  Good(w, l, K)
<1>g. /\ Typed(w, l, J) /\ Held(w, l) /\ NoLeak(w, l) /\ OneEach(w) /\ Belong(w)
      /\ OfJob(w, J) /\ Outcome(J) /\ NoDrop(w, J)
  BY DEF Good
<1>1. Typed(w, l, K)
  BY <1>g DEF Typed
<1>2. OfJob(w, K)
  <2> SUFFICES ASSUME NEW k \in 1 .. Len(w)  PROVE FitsJob(w[k], K)
    BY DEF OfJob
  <2>1. w[k].seq \in 1 .. Len(J)
    BY GoodTypes
  <2>2. FitsJob(w[k], J)
    BY <1>g DEF OfJob
  <2> QED  BY <2>1, <2>2 DEF FitsJob
<1>3. Outcome(K)
  BY <1>g DEF Outcome
<1>4. NoDrop(w, K)
  BY <1>g DEF NoDrop
<1> QED  BY <1>1, <1>2, <1>3, <1>4 DEF Good

(* What it says of one entry, and of two entries of one command.           *)
LEMMA GoodAt ==
  ASSUME NEW w, NEW l, NEW J, Good(w, l, J), NEW k \in 1 .. Len(w)
  PROVE  /\ FitsJob(w[k], J)
         /\ Started(w[k]) => l[w[k].step.dev] = w[k].seq
BY DEF Good, OfJob, Held

LEMMA GoodTwo ==
  ASSUME NEW w, NEW l, NEW J, Good(w, l, J),
         NEW a \in 1 .. Len(w), NEW b \in 1 .. Len(w), a # b, w[a].seq = w[b].seq
  PROVE  (w[a].st = 1000) # (w[b].st = 1000)
BY DEF Good, OneEach

LEMMA GoodSub ==
  ASSUME NEW w, NEW l, NEW J, Good(w, l, J), NEW k \in 1 .. Len(w), w[k].sub
  PROVE  \E n \in 1 .. Len(w) : w[n].st = 1000 /\ w[n].seq = w[k].seq
BY DEF Good, Belong

(* A new command without an entry.                                         *)
LEMMA AtOnceGood ==
  ASSUME NEW w, NEW l, NEW J, Good(w, l, J),
         NEW job \in Job, ~job.cmd.combi, ~Radio(job.cmd.steps[1]),
         job.ok <= 1, job.err <= 2, job.ok = 0 \/ job.err = 0
  PROVE  Good(w, l, Append(J, job))
<1> DEFINE K == Append(J, job)
<1>g. /\ Typed(w, l, J) /\ Held(w, l) /\ NoLeak(w, l) /\ OneEach(w) /\ Belong(w)
      /\ OfJob(w, J) /\ Outcome(J) /\ NoDrop(w, J)
  BY DEF Good
<1>1. /\ K \in Seq(Job) /\ Len(K) = Len(J) + 1 /\ K[Len(J) + 1] = job
      /\ \A s \in 1 .. Len(J) : K[s] = J[s]
  BY AppendFacts, <1>g DEF Typed
<1>2. Len(J) \in Nat /\ \A s \in 1 .. Len(K) : s \in 1 .. Len(J) \/ s = Len(J) + 1
  <2>1. Len(J) \in Nat
    BY GoodTypes
  <2> HIDE DEF K
  <2> QED  BY <1>1, <2>1
<1> HIDE DEF K
<1>3. Typed(w, l, K)
  BY <1>1, <1>g DEF Typed
<1>4. OfJob(w, K)
  <2> SUFFICES ASSUME NEW k \in 1 .. Len(w)  PROVE FitsJob(w[k], K)
    BY DEF OfJob
  <2>1. w[k].seq \in 1 .. Len(J)
    BY GoodTypes
  <2>2. FitsJob(w[k], J)
    BY GoodAt
  <2> QED  BY <1>1, <1>2, <2>1, <2>2 DEF FitsJob
<1>5. Outcome(K)
  BY <1>1, <1>2, <1>g DEF Outcome
<1>6. NoDrop(w, K)
  BY <1>1, <1>2, <1>g DEF NoDrop
<1> QED  BY <1>3, <1>4, <1>5, <1>6 DEF Good, K

(* A new command with its entry.                                           *)
LEMMA FreshGood ==
  ASSUME NEW w, NEW l, NEW J, Good(w, l, J),
         NEW job \in Job, job.ok = 0, job.err = 0,
         NEW e \in Entry, e.seq = Len(J) + 1, ~e.sub, ~Started(e), e.st # 2,
         job.cmd.combi <=> e.st = 1000,
         e.st # 1000 => e.step = job.cmd.steps[1],
         e.st = 1000 => ~Radio(e.step)
  PROVE  Good(Append(w, e), l, Append(J, job))
<1> DEFINE K == Append(J, job)
           v == Append(w, e)
<1>g. /\ Typed(w, l, J) /\ Held(w, l) /\ NoLeak(w, l) /\ OneEach(w) /\ Belong(w)
      /\ OfJob(w, J) /\ Outcome(J) /\ NoDrop(w, J)
  BY DEF Good
<1>1. /\ K \in Seq(Job) /\ Len(K) = Len(J) + 1 /\ K[Len(J) + 1] = job
      /\ \A s \in 1 .. Len(J) : K[s] = J[s]
  BY AppendFacts, <1>g DEF Typed
<1>2. /\ v \in Seq(Entry) /\ Len(v) = Len(w) + 1 /\ v[Len(w) + 1] = e
      /\ \A k \in 1 .. Len(w) : v[k] = w[k]
  BY AppendFacts, <1>g DEF Typed
<1>3. /\ Len(J) \in Nat /\ Len(w) \in Nat
      /\ \A s \in 1 .. Len(K) : s \in 1 .. Len(J) \/ s = Len(J) + 1
      /\ \A k \in 1 .. Len(v) : k \in 1 .. Len(w) \/ k = Len(w) + 1
      /\ \A k \in 1 .. Len(w) : k \in 1 .. Len(v)
      /\ Len(w) + 1 \in 1 .. Len(v)
  BY <1>1, <1>2, GoodTypes
<1>4. \A k \in 1 .. Len(w) : w[k].seq \in 1 .. Len(J) /\ w[k].seq # e.seq
  BY <1>3, GoodTypes
<1> HIDE DEF K, v
<1>5. Typed(v, l, K)
  BY <1>1, <1>2, <1>g DEF Typed
<1>6. Held(v, l)
  <2> SUFFICES ASSUME NEW k \in 1 .. Len(v), Started(v[k])
               PROVE  l[v[k].step.dev] = v[k].seq
    BY DEF Held
  <2>1. k \in 1 .. Len(w) /\ v[k] = w[k]
    BY <1>2, <1>3
  <2> QED  BY <2>1, GoodAt
<1>7. NoLeak(v, l)
  BY <1>2, <1>3, <1>g DEF NoLeak
<1>8. OneEach(v)
  <2> SUFFICES ASSUME NEW k \in 1 .. Len(v), NEW n \in 1 .. Len(v), k # n, v[k].seq = v[n].seq
               PROVE  (v[k].st = 1000) # (v[n].st = 1000)
    BY DEF OneEach
  <2>1. k \in 1 .. Len(w) /\ n \in 1 .. Len(w)
    BY <1>2, <1>3, <1>4
  <2>2. v[k] = w[k] /\ v[n] = w[n]
    BY <1>2, <2>1
  <2> QED  BY <2>1, <2>2, GoodTwo
<1>9. Belong(v)
  <2> SUFFICES ASSUME NEW k \in 1 .. Len(v), v[k].sub
               PROVE  \E n \in 1 .. Len(v) : v[n].st = 1000 /\ v[n].seq = v[k].seq
    BY DEF Belong
  <2>1. k \in 1 .. Len(w) /\ v[k] = w[k]
    BY <1>2, <1>3
  <2>2. PICK n \in 1 .. Len(w) : w[n].st = 1000 /\ w[n].seq = w[k].seq
    BY <2>1, GoodSub
  <2> QED  BY <1>2, <1>3, <2>1, <2>2
<1>10. OfJob(v, K)
  <2>1. \A k \in 1 .. Len(w) : FitsJob(w[k], K)
    <3> SUFFICES ASSUME NEW k \in 1 .. Len(w)  PROVE FitsJob(w[k], K)
      OBVIOUS
    <3>1. K[w[k].seq] = J[w[k].seq] /\ w[k].seq \in 1 .. Len(J)
      BY <1>1, <1>4
    <3>2. FitsJob(w[k], J)
      BY GoodAt
    <3> QED  BY <1>1, <1>3, <3>1, <3>2 DEF FitsJob
  <2>2. FitsJob(e, K)
    BY <1>1, <1>3 DEF FitsJob
  <2> QED  BY <1>2, <1>3, <2>1, <2>2 DEF OfJob
<1>11. Outcome(K)
  BY <1>1, <1>3, <1>g DEF Outcome
<1>12. NoDrop(v, K)
  <2> SUFFICES ASSUME NEW s \in 1 .. Len(K),
                      K[s].cmd.combi \/ Radio(K[s].cmd.steps[1]),
                      \A k \in 1 .. Len(v) : v[k].seq # s
               PROVE  K[s].ok + K[s].err > 0
    BY ZenonT(60) DEF NoDrop
  <2>1. s # e.seq
    BY <1>2, <1>3
  <2>2. s \in 1 .. Len(J) /\ K[s] = J[s]
    BY <1>1, <1>3, <2>1
  <2>3. \A k \in 1 .. Len(w) : w[k].seq # s
    BY <1>2, <1>3
  <2> QED  BY <2>2, <2>3, <1>g DEF NoDrop
<1> QED  BY <1>5, <1>6, <1>7, <1>8, <1>9, <1>10, <1>11, <1>12 DEF Good, K, v

(* Where the items of a list come from, and go to, when item i is removed. *)
Before(i, k) == IF k < i THEN k ELSE k + 1
After(i, j)  == IF j < i THEN j ELSE j - 1

LEMMA RemoveMap ==
  ASSUME NEW S, NEW s \in Seq(S), NEW i \in 1 .. Len(s), NEW v, v = RemoveAt(s, i)
  PROVE  /\ v \in Seq(S) /\ Len(v) = Len(s) - 1 /\ Len(s) \in Nat
         /\ \A k \in 1 .. Len(v) : /\ Before(i, k) \in 1 .. Len(s)
                                   /\ Before(i, k) # i
                                   /\ v[k] = s[Before(i, k)]
         /\ \A k, m \in 1 .. Len(v) : k # m => Before(i, k) # Before(i, m)
         /\ \A j \in 1 .. Len(s) : j # i => /\ After(i, j) \in 1 .. Len(v)
                                            /\ v[After(i, j)] = s[j]
<1>1. /\ v \in Seq(S) /\ Len(v) = Len(s) - 1
      /\ \A k \in 1 .. Len(s) - 1 : v[k] = IF k < i THEN s[k] ELSE s[k + 1]
  BY RemoveAtProperties
<1>2. Len(s) \in Nat
  BY LenProperties
<1>3. \A k \in 1 .. Len(v) : Before(i, k) \in 1 .. Len(s) /\ Before(i, k) # i
  BY <1>1, <1>2 DEF Before
<1>4. \A k \in 1 .. Len(v) : v[k] = s[Before(i, k)]
  BY <1>1, <1>2 DEF Before
<1>5. \A k, m \in 1 .. Len(v) : k # m => Before(i, k) # Before(i, m)
  BY <1>1, <1>2 DEF Before
<1>6. ASSUME NEW j \in 1 .. Len(s), j # i
      PROVE  After(i, j) \in 1 .. Len(v) /\ v[After(i, j)] = s[j]
  <2>1. CASE j < i
    <3>1. j \in 1 .. Len(s) - 1 /\ After(i, j) = j
      BY <2>1, <1>2 DEF After
    <3> QED  BY <1>1, <2>1, <3>1
  <2>2. CASE ~(j < i)
    <3>1. /\ j - 1 \in 1 .. Len(s) - 1 /\ After(i, j) = j - 1
          /\ ~(j - 1 < i) /\ (j - 1) + 1 = j
      BY <2>2, <1>2, <1>6 DEF After
    <3> QED  BY <1>1, <3>1
  <2> QED  BY <2>1, <2>2
<1> QED  BY <1>1, <1>2, <1>3, <1>4, <1>5, <1>6

(* The device locks l after device d went to sequence s, or to none.       *)
Lock(l, d, s) == [l EXCEPT ![d] = s]

(* The ledger K after the end of a transaction of command s: a step of a   *)
(* composite adds at most errors, a single command gets its final answer.  *)
Closes(K, J, s, sub) ==
  /\ K \in Seq(Job) /\ Len(K) = Len(J)
  /\ \A n \in 1 .. Len(J) : K[n].cmd = J[n].cmd /\ (n # s => K[n] = J[n])
  /\ sub => K[s].ok = J[s].ok /\ K[s].err >= J[s].err
  /\ ~sub => \/ K[s].ok = 1 /\ K[s].err = 0
             \/ K[s].ok = 0 /\ K[s].err \in {1, 2}

(* A transaction ends: its entry goes, its device is free, and a single    *)
(* command is told so.                                                     *)
LEMMA EndGood ==
  ASSUME NEW w, NEW l, NEW J, Good(w, l, J),
         NEW i \in 1 .. Len(w), Started(w[i]), w[i].st # 1000,
         NEW K, Closes(K, J, w[i].seq, w[i].sub)
  PROVE  Good(RemoveAt(w, i), Lock(l, w[i].step.dev, 0), K)
<1> DEFINE v  == RemoveAt(w, i)
           d  == w[i].step.dev
           s0 == w[i].seq
           m  == Lock(l, d, 0)
<1>g. /\ Typed(w, l, J) /\ Held(w, l) /\ NoLeak(w, l) /\ OneEach(w) /\ Belong(w)
      /\ OfJob(w, J) /\ Outcome(J) /\ NoDrop(w, J)
  BY DEF Good
<1>14. /\ K \in Seq(Job) /\ Len(K) = Len(J)
       /\ \A s \in 1 .. Len(J) : K[s].cmd = J[s].cmd /\ (s # s0 => K[s] = J[s])
       /\ w[i].sub => K[s0].ok = J[s0].ok /\ K[s0].err >= J[s0].err
       /\ ~w[i].sub => \/ K[s0].ok = 1 /\ K[s0].err = 0
                       \/ K[s0].ok = 0 /\ K[s0].err \in {1, 2}
  BY DEF Closes
<1>0. /\ Radio(w[i].step) /\ d \in Devices /\ s0 \in 1 .. Len(J)
      /\ l \in [Devices -> Nat] /\ Len(J) \in Nat
      /\ \A k \in 1 .. Len(w) : w[k].seq \in 1 .. Len(J)
  <2>1. Radio(w[i].step)
    BY DEF Started
  <2> QED  BY SMTT(60), <2>1, GoodTypes
<1>1. /\ v \in Seq(Entry) /\ Len(v) = Len(w) - 1 /\ Len(w) \in Nat
      /\ \A k \in 1 .. Len(v) : /\ Before(i, k) \in 1 .. Len(w)
                                /\ Before(i, k) # i /\ v[k] = w[Before(i, k)]
      /\ \A k, n \in 1 .. Len(v) : k # n => Before(i, k) # Before(i, n)
      /\ \A j \in 1 .. Len(w) : j # i => After(i, j) \in 1 .. Len(v) /\ v[After(i, j)] = w[j]
  BY RemoveMap, GoodTypes
<1>15. \A k \in 1 .. Len(v) : /\ Before(i, k) \in 1 .. Len(w)
                               /\ Before(i, k) # i /\ v[k] = w[Before(i, k)]
  BY <1>1
<1>16. \A k, n \in 1 .. Len(v) : k # n => Before(i, k) # Before(i, n)
  BY <1>1
<1>2. \A j \in 1 .. Len(w) : w[j].seq = s0 /\ j # i => w[j].st = 1000 /\ ~Started(w[j]) /\ ~w[j].sub
  <2> SUFFICES ASSUME NEW j \in 1 .. Len(w), w[j].seq = s0, j # i
               PROVE  w[j].st = 1000 /\ ~Started(w[j]) /\ ~w[j].sub
    OBVIOUS
  <2>1. w[j].st = 1000
    <3> HIDE DEF s0
    <3>1. w[j].seq = w[i].seq
      BY DEF s0
    <3> QED  BY <3>1, GoodTwo
  <2>2. FitsJob(w[j], J)
    BY GoodAt
  <2> QED  BY <2>1, <2>2 DEF FitsJob, Started
<1>3. \A j \in 1 .. Len(w) : j # i /\ Started(w[j]) => w[j].step.dev # d
  <2> SUFFICES ASSUME NEW j \in 1 .. Len(w), j # i, Started(w[j]), w[j].step.dev = d
               PROVE  FALSE
    OBVIOUS
  <2>1. w[j].seq = s0
    BY <1>g DEF Held
  <2> QED  BY <2>1, <1>2
<1>4. /\ m \in [Devices -> Nat] /\ m[d] = 0
      /\ \A x \in Devices : x # d => m[x] = l[x]
  BY <1>0 DEF Lock
<1> HIDE DEF v, m
<1>5. Typed(v, m, K)
  BY <1>1, <1>4, <1>14 DEF Typed
<1>6. Held(v, m)
  <2> SUFFICES ASSUME NEW k \in 1 .. Len(v), Started(v[k])
               PROVE  m[v[k].step.dev] = v[k].seq
    BY DEF Held
  <2> DEFINE j == Before(i, k)
  <2>1. j \in 1 .. Len(w) /\ j # i /\ v[k] = w[j]
    BY <1>15
  <2>2. w[j].step.dev # d /\ w[j].step.dev \in Devices
    <3>1. Radio(w[j].step)
      BY <2>1 DEF Started
    <3>2. w[j].step.dev \in Devices
      BY <2>1, <3>1, GoodTypes
    <3> QED  BY <1>3, <2>1, <3>2
  <2>3. l[w[j].step.dev] = w[j].seq
    BY <2>1, GoodAt
  <2> QED  BY <1>4, <2>1, <2>2, <2>3
<1>7. NoLeak(v, m)
  <2> SUFFICES ASSUME NEW x \in Devices, m[x] # 0
               PROVE  \E k \in 1 .. Len(v) : Started(v[k]) /\ On(v[k], x) /\ v[k].seq = m[x]
    BY DEF NoLeak
  <2>1. x # d /\ m[x] = l[x]
    BY <1>4
  <2>2. PICK j \in 1 .. Len(w) : Started(w[j]) /\ On(w[j], x) /\ w[j].seq = l[x]
    BY <2>1, <1>g DEF NoLeak
  <2>3. j # i
    BY <2>1, <2>2 DEF On
  <2>4. After(i, j) \in 1 .. Len(v) /\ v[After(i, j)] = w[j]
    BY <1>1, <2>3
  <2> QED  BY <2>1, <2>2, <2>4
<1>8. OneEach(v)
  <2> SUFFICES ASSUME NEW k \in 1 .. Len(v), NEW n \in 1 .. Len(v), k # n, v[k].seq = v[n].seq
               PROVE  (v[k].st = 1000) # (v[n].st = 1000)
    BY DEF OneEach
  <2>1. /\ v[k] = w[Before(i, k)] /\ v[n] = w[Before(i, n)]
        /\ Before(i, k) \in 1 .. Len(w) /\ Before(i, n) \in 1 .. Len(w)
        /\ Before(i, k) # Before(i, n)
    BY <1>15, <1>16
  <2>2. w[Before(i, k)].seq = w[Before(i, n)].seq
    BY <2>1
  <2> QED  BY <2>1, <2>2, GoodTwo
<1>9. Belong(v)
  <2> SUFFICES ASSUME NEW k \in 1 .. Len(v), v[k].sub
               PROVE  \E n \in 1 .. Len(v) : v[n].st = 1000 /\ v[n].seq = v[k].seq
    BY DEF Belong
  <2>0. Before(i, k) \in 1 .. Len(w) /\ v[k] = w[Before(i, k)]
    BY <1>1
  <2>1. PICK j \in 1 .. Len(w) : w[j].st = 1000 /\ w[j].seq = v[k].seq
    BY <2>0, <1>g DEF Belong
  <2>2. j # i
    BY <2>1
  <2>3. After(i, j) \in 1 .. Len(v) /\ v[After(i, j)] = w[j]
    BY <1>1, <2>2
  <2> QED  BY <2>1, <2>3
<1>10. OfJob(v, K)
  <2> SUFFICES ASSUME NEW k \in 1 .. Len(v)  PROVE FitsJob(v[k], K)
    BY DEF OfJob
  <2> DEFINE j == Before(i, k)
  <2>1. j \in 1 .. Len(w) /\ j # i /\ v[k] = w[j] /\ w[j].seq \in 1 .. Len(J)
    BY <1>0, <1>1
  <2>2. FitsJob(w[j], J)
    BY <2>1, <1>g DEF OfJob
  <2> HIDE DEF j
  <2>3. CASE w[j].seq # s0
    BY <1>14, <2>1, <2>2, <2>3 DEF FitsJob
  <2>4. CASE w[j].seq = s0
    <3>1. w[j].st = 1000 /\ ~w[j].sub /\ J[s0].cmd.combi /\ J[s0].ok = 0
      BY <1>2, <2>1, <2>2, <2>4 DEF FitsJob
    <3>2. w[i].sub
      BY <3>1, <1>g DEF OfJob, FitsJob
    <3> QED  BY <1>14, <2>1, <2>2, <2>4, <3>1, <3>2 DEF FitsJob
  <2> QED  BY <2>3, <2>4
<1>11. Outcome(K)
  <2> SUFFICES ASSUME NEW s \in 1 .. Len(J)
               PROVE  /\ K[s].ok <= 1
                      /\ ~K[s].cmd.combi => K[s].err <= 2 /\ (K[s].ok = 0 \/ K[s].err = 0)
    BY <1>14 DEF Outcome
  <2>1. CASE s # s0
    BY <1>14, <2>1, <1>g DEF Outcome
  <2>2. CASE s = s0 /\ w[i].sub
    <3>1. J[s0].cmd.combi /\ J[s0].ok = 0
      BY <2>2, <1>g DEF OfJob, FitsJob
    <3> QED  BY <1>14, <2>2, <3>1
  <2>3. CASE s = s0 /\ ~w[i].sub
    BY <1>14, <2>3
  <2> QED  BY <2>1, <2>2, <2>3, GoodTypes
<1>12. NoDrop(v, K)
  <2> SUFFICES ASSUME NEW s \in 1 .. Len(J),
                      J[s].cmd.combi \/ Radio(J[s].cmd.steps[1]),
                      \A k \in 1 .. Len(v) : v[k].seq # s
               PROVE  K[s].ok + K[s].err > 0
    BY <1>14 DEF NoDrop
  <2>1. CASE s # s0
    <3>1. ASSUME NEW j \in 1 .. Len(w)  PROVE w[j].seq # s
      <4>1. CASE j = i
        BY <2>1, <4>1
      <4>2. CASE j # i
        <5>1. After(i, j) \in 1 .. Len(v) /\ v[After(i, j)] = w[j]
          BY <1>1, <4>2
        <5> QED  BY <5>1
      <4> QED  BY <4>1, <4>2
    <3> QED  BY <1>14, <2>1, <3>1, <1>g DEF NoDrop
  <2>2. CASE s = s0 /\ w[i].sub
    <3>1. PICK j \in 1 .. Len(w) : w[j].st = 1000 /\ w[j].seq = s0
      BY <2>2, <1>g DEF Belong
    <3>2. After(i, j) \in 1 .. Len(v) /\ v[After(i, j)] = w[j]
      BY <1>1, <3>1
    <3> QED  BY <2>2, <3>1, <3>2
  <2>3. CASE s = s0 /\ ~w[i].sub
    BY <1>14, <2>3
  <2> QED  BY <2>1, <2>2, <2>3
<1> QED  BY <1>5, <1>6, <1>7, <1>8, <1>9, <1>10, <1>11, <1>12 DEF Good, v, m

(* An entry goes that holds no device: a wait that is over, or a composite *)
(* command without a step in progress, which is answered.                  *)
LEMMA LeaveGood ==
  ASSUME NEW w, NEW l, NEW J, Good(w, l, J),
         NEW i \in 1 .. Len(w), ~Radio(w[i].step),
         NEW K \in Seq(Job), Len(K) = Len(J),
         \A s \in 1 .. Len(J) : /\ K[s].cmd = J[s].cmd
                                /\ s # w[i].seq => K[s] = J[s],
         \/ w[i].st # 1000 /\ K = J
         \/ /\ w[i].st = 1000
            /\ \A j \in 1 .. Len(w) : j # i => w[j].seq # w[i].seq
            /\ K[w[i].seq].ok <= 1 /\ K[w[i].seq].ok + K[w[i].seq].err > 0
  PROVE  Good(RemoveAt(w, i), l, K)
<1> DEFINE v  == RemoveAt(w, i)
           s0 == w[i].seq
<1>g. /\ Typed(w, l, J) /\ Held(w, l) /\ NoLeak(w, l) /\ OneEach(w) /\ Belong(w)
      /\ OfJob(w, J) /\ Outcome(J) /\ NoDrop(w, J)
  BY DEF Good
<1>0. /\ s0 \in 1 .. Len(J) /\ Len(J) \in Nat
      /\ \A k \in 1 .. Len(w) : w[k].seq \in 1 .. Len(J)
  BY GoodTypes
<1>1. /\ v \in Seq(Entry) /\ Len(v) = Len(w) - 1 /\ Len(w) \in Nat
      /\ \A k \in 1 .. Len(v) : /\ Before(i, k) \in 1 .. Len(w)
                                /\ Before(i, k) # i /\ v[k] = w[Before(i, k)]
      /\ \A k, n \in 1 .. Len(v) : k # n => Before(i, k) # Before(i, n)
      /\ \A j \in 1 .. Len(w) : j # i => After(i, j) \in 1 .. Len(v) /\ v[After(i, j)] = w[j]
  <2>1. w \in Seq(Entry) /\ v = RemoveAt(w, i)
    BY <1>g DEF Typed
  <2> HIDE DEF v
  <2> QED  BY <2>1, RemoveMap
<1> HIDE DEF v
<1>2. Typed(v, l, K)
  BY <1>1, <1>g DEF Typed
<1>3. Held(v, l)
  <2> SUFFICES ASSUME NEW k \in 1 .. Len(v), Started(v[k])
               PROVE  l[v[k].step.dev] = v[k].seq
    BY DEF Held
  <2>1. Before(i, k) \in 1 .. Len(w) /\ v[k] = w[Before(i, k)]
    BY <1>1
  <2> QED  BY <2>1, GoodAt
<1>4. NoLeak(v, l)
  <2> SUFFICES ASSUME NEW x \in Devices, l[x] # 0
               PROVE  \E k \in 1 .. Len(v) : Started(v[k]) /\ On(v[k], x) /\ v[k].seq = l[x]
    BY DEF NoLeak
  <2>1. PICK j \in 1 .. Len(w) : Started(w[j]) /\ On(w[j], x) /\ w[j].seq = l[x]
    BY <1>g DEF NoLeak
  <2>2. After(i, j) \in 1 .. Len(v) /\ v[After(i, j)] = w[j]
    BY <1>1, <2>1 DEF On
  <2> QED  BY <2>1, <2>2
<1>5. OneEach(v)
  <2> SUFFICES ASSUME NEW k \in 1 .. Len(v), NEW n \in 1 .. Len(v), k # n, v[k].seq = v[n].seq
               PROVE  (v[k].st = 1000) # (v[n].st = 1000)
    BY DEF OneEach
  <2>1. /\ v[k] = w[Before(i, k)] /\ v[n] = w[Before(i, n)]
        /\ Before(i, k) \in 1 .. Len(w) /\ Before(i, n) \in 1 .. Len(w)
        /\ Before(i, k) # Before(i, n)
    BY <1>1
  <2>2. w[Before(i, k)].seq = w[Before(i, n)].seq
    BY <2>1
  <2> QED  BY <2>1, <2>2, GoodTwo
<1>6. Belong(v)
  <2> SUFFICES ASSUME NEW k \in 1 .. Len(v), v[k].sub
               PROVE  \E n \in 1 .. Len(v) : v[n].st = 1000 /\ v[n].seq = v[k].seq
    BY DEF Belong
  <2>1. Before(i, k) \in 1 .. Len(w) /\ Before(i, k) # i /\ v[k] = w[Before(i, k)]
    BY <1>1
  <2>2. PICK j \in 1 .. Len(w) : w[j].st = 1000 /\ w[j].seq = v[k].seq
    BY <2>1, <1>g DEF Belong
  <2>3. j # i
    BY <2>1, <2>2
  <2>4. After(i, j) \in 1 .. Len(v) /\ v[After(i, j)] = w[j]
    BY <1>1, <2>3
  <2> QED  BY <2>2, <2>4
<1>7. OfJob(v, K)
  <2> SUFFICES ASSUME NEW k \in 1 .. Len(v)  PROVE FitsJob(v[k], K)
    BY DEF OfJob
  <2> DEFINE j == Before(i, k)
  <2>1. j \in 1 .. Len(w) /\ j # i /\ v[k] = w[j] /\ w[j].seq \in 1 .. Len(J)
    BY <1>0, <1>1
  <2>2. FitsJob(w[j], J)
    BY <2>1, <1>g DEF OfJob
  <2> HIDE DEF j
  <2>3. K[w[j].seq] = J[w[j].seq]
    BY <2>1
  <2> QED  BY <2>1, <2>2, <2>3 DEF FitsJob
<1>8. Outcome(K)
  <2> SUFFICES ASSUME NEW s \in 1 .. Len(J)
               PROVE  /\ K[s].ok <= 1
                      /\ ~K[s].cmd.combi => K[s].err <= 2 /\ (K[s].ok = 0 \/ K[s].err = 0)
    BY DEF Outcome
  <2>1. CASE s # s0 \/ K = J
    BY <2>1, <1>g DEF Outcome
  <2>2. CASE s = s0 /\ w[i].st = 1000 /\ K[s0].ok <= 1
    BY <2>2, <1>g DEF OfJob, FitsJob
  <2> QED  BY <2>1, <2>2
<1>9. NoDrop(v, K)
  <2> SUFFICES ASSUME NEW s \in 1 .. Len(J),
                      J[s].cmd.combi \/ Radio(J[s].cmd.steps[1]),
                      \A k \in 1 .. Len(v) : v[k].seq # s
               PROVE  K[s].ok + K[s].err > 0
    BY DEF NoDrop
  <2>1. ASSUME NEW j \in 1 .. Len(w), j # i  PROVE w[j].seq # s
    <3>1. After(i, j) \in 1 .. Len(v) /\ v[After(i, j)] = w[j]
      BY <1>1, <2>1
    <3> QED  BY <3>1
  <2>2. CASE s # s0
    BY <2>1, <2>2, <1>g DEF NoDrop
  <2>3. CASE s = s0 /\ w[i].st # 1000
    <3>1. w[i].sub \/ (~w[i].sub /\ J[s].cmd.combi = FALSE /\ w[i].step = J[s].cmd.steps[1])
      <4>1. FitsJob(w[i], J)
        BY GoodAt
      <4> QED  BY <2>3, <4>1 DEF FitsJob
    <3>2. w[i].sub
      BY <3>1
    <3>3. PICK j \in 1 .. Len(w) : w[j].st = 1000 /\ w[j].seq = s0
      BY <3>2, <1>g DEF Belong
    <3> QED  BY <2>1, <2>3, <3>3
  <2>4. CASE s = s0 /\ w[i].st = 1000
    BY <2>4
  <2> QED  BY <2>2, <2>3, <2>4
<1> QED  BY <1>2, <1>3, <1>4, <1>5, <1>6, <1>7, <1>8, <1>9 DEF Good, v

(* An entry is sent: it has started and its device belongs to its command. *)
LEMMA SendGood ==
  ASSUME NEW w, NEW l, NEW J, Good(w, l, J),
         NEW i \in 1 .. Len(w), w[i].st # 1000, Radio(w[i].step),
         l[w[i].step.dev] \in {0, w[i].seq},
         NEW v \in Seq(Entry), Len(v) = Len(w),
         \A k \in 1 .. Len(w) : k # i => v[k] = w[k],
         v[i].seq = w[i].seq, v[i].step = w[i].step, v[i].sub = w[i].sub,
         Started(v[i]), v[i].st # 1000
  PROVE  Good(v, Lock(l, w[i].step.dev, w[i].seq), J)
<1> DEFINE d == w[i].step.dev
           m == Lock(l, d, w[i].seq)
<1>g. /\ Typed(w, l, J) /\ Held(w, l) /\ NoLeak(w, l) /\ OneEach(w) /\ Belong(w)
      /\ OfJob(w, J) /\ Outcome(J) /\ NoDrop(w, J)
  BY DEF Good
<1>1. /\ d \in Devices /\ l \in [Devices -> Nat] /\ w[i].seq \in 1 .. Len(J) /\ Len(J) \in Nat
      /\ Len(w) \in Nat
  BY GoodTypes
<1>2. /\ m \in [Devices -> Nat] /\ m[d] = w[i].seq
      /\ \A x \in Devices : x # d => m[x] = l[x]
  BY <1>1 DEF Lock
<1> HIDE DEF m
<1>3. Typed(v, m, J)
  BY <1>2, <1>g DEF Typed
<1>4. Held(v, m)
  <2> SUFFICES ASSUME NEW k \in 1 .. Len(w), Started(v[k])
               PROVE  m[v[k].step.dev] = v[k].seq
    BY DEF Held
  <2>1. CASE k = i
    BY <1>2, <2>1
  <2>2. CASE k # i
    <3>1. v[k] = w[k] /\ l[w[k].step.dev] = w[k].seq /\ w[k].seq # 0
          /\ w[k].step.dev \in Devices
      BY <2>2, GoodTypes, <1>g DEF Held, Started
    <3> QED  BY <1>2, <3>1
  <2> QED  BY <2>1, <2>2
<1>5. NoLeak(v, m)
  <2> SUFFICES ASSUME NEW x \in Devices, m[x] # 0
               PROVE  \E k \in 1 .. Len(w) : Started(v[k]) /\ On(v[k], x) /\ v[k].seq = m[x]
    BY DEF NoLeak
  <2>1. CASE x = d
    BY <1>2, <2>1 DEF On
  <2>2. CASE x # d
    <3>1. PICK k \in 1 .. Len(w) : Started(w[k]) /\ On(w[k], x) /\ w[k].seq = l[x]
      BY <1>2, <2>2, <1>g DEF NoLeak
    <3>2. k # i
      BY <2>2, <3>1 DEF On
    <3> QED  BY <1>2, <2>2, <3>1, <3>2
  <2> QED  BY <2>1, <2>2
<1>6. \A k \in 1 .. Len(w) : /\ v[k].seq = w[k].seq /\ v[k].step = w[k].step
                             /\ v[k].sub = w[k].sub /\ (v[k].st = 1000) = (w[k].st = 1000)
                             /\ v[k].st = 2 => w[k].st = 2 \/ k = i
  OBVIOUS
<1>7. OneEach(v) /\ Belong(v)
  <2>1. OneEach(v)
    <3> SUFFICES ASSUME NEW k \in 1 .. Len(w), NEW n \in 1 .. Len(w), k # n, v[k].seq = v[n].seq
                 PROVE  (v[k].st = 1000) # (v[n].st = 1000)
      BY DEF OneEach
    <3>1. w[k].seq = w[n].seq
      BY <1>6
    <3>2. (w[k].st = 1000) # (w[n].st = 1000)
      BY <3>1, GoodTwo
    <3> QED  BY <1>6, <3>2
  <2>2. Belong(v)
    <3> SUFFICES ASSUME NEW k \in 1 .. Len(w), v[k].sub
                 PROVE  \E n \in 1 .. Len(w) : v[n].st = 1000 /\ v[n].seq = v[k].seq
      BY DEF Belong
    <3>1. w[k].sub /\ w[k].seq = v[k].seq
      BY <1>6
    <3>2. PICK n \in 1 .. Len(w) : w[n].st = 1000 /\ w[n].seq = w[k].seq
      BY <3>1, GoodSub
    <3> QED  BY <1>6, <3>1, <3>2
  <2> QED  BY <2>1, <2>2
<1>8. OfJob(v, J)
  <2> SUFFICES ASSUME NEW k \in 1 .. Len(w)  PROVE FitsJob(v[k], J)
    BY DEF OfJob
  <2>1. FitsJob(w[k], J)
    BY GoodAt
  <2> QED  BY <1>6, <2>1 DEF FitsJob
<1>9. NoDrop(v, J)
  <2>1. NoDrop(w, J)
    BY <1>g
  <2> QED  BY <1>6, <2>1 DEF NoDrop
<1> QED  BY <1>3, <1>4, <1>5, <1>7, <1>8, <1>9 DEF Good, m

(* The next packet of a transaction replaces the entry of the previous one *)
(* at the end of the list.                                                 *)
LEMMA ContinueGood ==
  ASSUME NEW w, NEW l, NEW J, Good(w, l, J),
         NEW i \in 1 .. Len(w), Started(w[i]), w[i].st # 1000,
         NEW f \in Entry, Started(f), f.st \notin {2, 1000},
         f.seq = w[i].seq, f.step = w[i].step, f.sub = w[i].sub
  PROVE  Good(Append(RemoveAt(w, i), f), l, J)
<1> DEFINE u == RemoveAt(w, i)
           v == Append(u, f)
           Old(k) == IF k = Len(w) THEN i ELSE Before(i, k)
           New(j) == IF j = i THEN Len(w) ELSE After(i, j)
<1>g. /\ Typed(w, l, J) /\ Held(w, l) /\ NoLeak(w, l) /\ OneEach(w) /\ Belong(w)
      /\ OfJob(w, J) /\ Outcome(J) /\ NoDrop(w, J)
  BY DEF Good
<1>1. w \in Seq(Entry) /\ Len(w) \in Nat
  BY GoodTypes
<1>2. /\ u \in Seq(Entry) /\ Len(u) = Len(w) - 1
      /\ \A k \in 1 .. Len(u) : /\ Before(i, k) \in 1 .. Len(w)
                                /\ Before(i, k) # i /\ u[k] = w[Before(i, k)]
      /\ \A k, n \in 1 .. Len(u) : k # n => Before(i, k) # Before(i, n)
      /\ \A j \in 1 .. Len(w) : j # i => After(i, j) \in 1 .. Len(u) /\ u[After(i, j)] = w[j]
  <2> HIDE DEF u
  <2>1. u = RemoveAt(w, i)
    BY DEF u
  <2> QED  BY <1>1, <2>1, RemoveMap
<1>3. /\ v \in Seq(Entry) /\ Len(v) = Len(w) /\ v[Len(w)] = f
      /\ \A k \in 1 .. Len(w) - 1 : v[k] = u[k]
  <2> HIDE DEF u
  <2> QED  BY <1>1, <1>2, AppendFacts
<1> HIDE DEF u, v
<1>4. \A k \in 1 .. Len(w) : /\ Old(k) \in 1 .. Len(w)
                             /\ k # Len(w) => Old(k) # i /\ v[k] = w[Old(k)]
                             /\ Alike(w[Old(k)], v[k])
  <2> SUFFICES ASSUME NEW k \in 1 .. Len(w)
               PROVE  /\ Old(k) \in 1 .. Len(w)
                      /\ k # Len(w) => Old(k) # i /\ v[k] = w[Old(k)]
                      /\ Alike(w[Old(k)], v[k])
    OBVIOUS
  <2>1. CASE k = Len(w)
    <3>1. Old(k) = i /\ v[k] = f
      BY <1>3, <2>1
    <3> HIDE DEF Old
    <3> QED  BY <2>1, <3>1 DEF Alike
  <2>2. CASE k # Len(w)
    <3>1. k \in 1 .. Len(w) - 1
      BY <1>1, <2>2
    <3>2. Old(k) \in 1 .. Len(w) /\ Old(k) # i /\ v[k] = w[Old(k)]
      BY <1>2, <1>3, <2>2, <3>1
    <3>3. w[Old(k)].st = 2 => Radio(w[Old(k)].step)
      BY <3>2, <1>g DEF OfJob, FitsJob
    <3> HIDE DEF Old
    <3> QED  BY <2>2, <3>2, <3>3 DEF Alike
  <2> QED  BY <2>1, <2>2
<1>5. \A k, n \in 1 .. Len(w) : k # n => Old(k) # Old(n)
  <2> SUFFICES ASSUME NEW k \in 1 .. Len(w), NEW n \in 1 .. Len(w), k # n
               PROVE  Old(k) # Old(n)
    OBVIOUS
  <2>1. CASE k # Len(w) /\ n # Len(w)
    <3>1. k \in 1 .. Len(u) /\ n \in 1 .. Len(u)
      BY <1>1, <1>2, <2>1
    <3> QED  BY <1>2, <2>1, <3>1
  <2>2. CASE k = Len(w)
    <3>1. Old(k) = i /\ Old(n) # i
      BY <1>4, <2>2
    <3> QED  BY <3>1
  <2>3. CASE n = Len(w)
    <3>1. Old(n) = i /\ Old(k) # i
      BY <1>4, <2>3
    <3> QED  BY <3>1
  <2> QED  BY <2>1, <2>2, <2>3
<1>6. \A j \in 1 .. Len(w) : New(j) \in 1 .. Len(w) /\ Alike(w[j], v[New(j)])
  <2> SUFFICES ASSUME NEW j \in 1 .. Len(w)
               PROVE  New(j) \in 1 .. Len(w) /\ Alike(w[j], v[New(j)])
    OBVIOUS
  <2>1. CASE j = i
    <3>1. New(j) = Len(w) /\ v[Len(w)] = f /\ Len(w) \in 1 .. Len(w)
      BY <1>1, <1>3, <2>1
    <3> HIDE DEF New
    <3> QED  BY <2>1, <3>1 DEF Alike
  <2>2. CASE j # i
    <3>1. After(i, j) \in 1 .. Len(w) - 1 /\ u[After(i, j)] = w[j]
      BY <1>2, <2>2
    <3>2. New(j) \in 1 .. Len(w) /\ v[New(j)] = w[j]
      BY <1>1, <1>3, <2>2, <3>1
    <3>3. w[j].st = 2 => Radio(w[j].step)
      BY <1>g DEF OfJob, FitsJob
    <3> HIDE DEF New
    <3> QED  BY <3>2, <3>3 DEF Alike
  <2> QED  BY <2>1, <2>2
<1> HIDE DEF Old, New
<1>7. Typed(v, l, J)
  BY <1>3, <1>g DEF Typed
<1>8. Held(v, l)
  <2> SUFFICES ASSUME NEW k \in 1 .. Len(w), Started(v[k])
               PROVE  l[v[k].step.dev] = v[k].seq
    BY <1>3 DEF Held
  <2>1. Held(w, l) /\ Old(k) \in 1 .. Len(w) /\ Alike(w[Old(k)], v[k])
    BY <1>4, <1>g
  <2>2. Started(w[Old(k)])
    BY <2>1 DEF Alike
  <2>3. l[w[Old(k)].step.dev] = w[Old(k)].seq
    BY <2>1, <2>2 DEF Held
  <2> QED  BY <2>1, <2>3 DEF Alike
<1>9. NoLeak(v, l)
  <2> SUFFICES ASSUME NEW x \in Devices, l[x] # 0
               PROVE  \E k \in 1 .. Len(w) : Started(v[k]) /\ On(v[k], x) /\ v[k].seq = l[x]
    BY <1>3 DEF NoLeak
  <2>1. PICK j \in 1 .. Len(w) : Started(w[j]) /\ On(w[j], x) /\ w[j].seq = l[x]
    BY <1>g DEF NoLeak
  <2>2. New(j) \in 1 .. Len(w) /\ Alike(w[j], v[New(j)])
    BY <1>6
  <2> QED  BY <2>1, <2>2 DEF Alike, On
<1>10. OneEach(v)
  <2> SUFFICES ASSUME NEW k \in 1 .. Len(w), NEW n \in 1 .. Len(w), k # n, v[k].seq = v[n].seq
               PROVE  (v[k].st = 1000) # (v[n].st = 1000)
    BY <1>3 DEF OneEach
  <2>1. /\ Old(k) \in 1 .. Len(w) /\ Old(n) \in 1 .. Len(w) /\ Old(k) # Old(n)
        /\ Alike(w[Old(k)], v[k]) /\ Alike(w[Old(n)], v[n])
    BY <1>4, <1>5
  <2>2. OneEach(w)
    BY <1>g
  <2> QED  BY <2>1, <2>2 DEF OneEach, Alike
<1>11. Belong(v)
  <2> SUFFICES ASSUME NEW k \in 1 .. Len(w), v[k].sub
               PROVE  \E n \in 1 .. Len(w) : v[n].st = 1000 /\ v[n].seq = v[k].seq
    BY <1>3 DEF Belong
  <2>1. Old(k) \in 1 .. Len(w) /\ Alike(w[Old(k)], v[k])
    BY <1>4
  <2>0. w[Old(k)].sub /\ w[Old(k)].seq = v[k].seq /\ Belong(w)
    BY <2>1 DEF Alike, Good
  <2>2. PICK j \in 1 .. Len(w) : w[j].st = 1000 /\ w[j].seq = v[k].seq
    BY <2>0, <2>1 DEF Belong
  <2>3. New(j) \in 1 .. Len(w) /\ Alike(w[j], v[New(j)])
    BY <1>6
  <2> QED  BY <2>2, <2>3 DEF Alike
<1>12. OfJob(v, J)
  <2> SUFFICES ASSUME NEW k \in 1 .. Len(w)  PROVE FitsJob(v[k], J)
    BY <1>3 DEF OfJob
  <2>1. Old(k) \in 1 .. Len(w) /\ Alike(w[Old(k)], v[k])
    BY <1>4
  <2>2. FitsJob(w[Old(k)], J)
    BY <2>1, <1>g DEF OfJob
  <2> QED  BY <2>1, <2>2 DEF FitsJob, Alike
<1>13. NoDrop(v, J)
  <2> SUFFICES ASSUME NEW s \in 1 .. Len(J),
                      J[s].cmd.combi \/ Radio(J[s].cmd.steps[1]),
                      \A k \in 1 .. Len(w) : v[k].seq # s
               PROVE  J[s].ok + J[s].err > 0
    BY <1>3 DEF NoDrop
  <2>1. ASSUME NEW j \in 1 .. Len(w)  PROVE w[j].seq # s
    <3>1. New(j) \in 1 .. Len(w) /\ w[j].seq = v[New(j)].seq
      BY <1>6 DEF Alike
    <3> QED  BY <3>1
  <2> QED  BY <2>1, <1>g DEF NoDrop
<1> QED  BY <1>7, <1>8, <1>9, <1>10, <1>11, <1>12, <1>13 DEF Good, v, u

(* The next step of a composite command gets an entry.                     *)
LEMMA SubStepGood ==
  ASSUME NEW w, NEW l, NEW J, Good(w, l, J),
         NEW i \in 1 .. Len(w), w[i].st = 1000,
         \A j \in 1 .. Len(w) : w[j].st # 1000 => w[j].seq # w[i].seq,
         NEW e \in Entry, e.seq = w[i].seq, e.sub, e.st \notin {2, 1000}, ~Started(e)
  PROVE  Good(Append(w, e), l, J)
<1> DEFINE v == Append(w, e)
<1>g. /\ Typed(w, l, J) /\ Held(w, l) /\ NoLeak(w, l) /\ OneEach(w) /\ Belong(w)
      /\ OfJob(w, J) /\ Outcome(J) /\ NoDrop(w, J)
  BY DEF Good
<1>1. /\ v \in Seq(Entry) /\ Len(v) = Len(w) + 1 /\ v[Len(w) + 1] = e
      /\ \A k \in 1 .. Len(w) : v[k] = w[k]
  BY AppendFacts, <1>g DEF Typed
<1>2. /\ Len(w) \in Nat /\ Len(w) + 1 \in 1 .. Len(v)
      /\ \A k \in 1 .. Len(v) : k \in 1 .. Len(w) \/ k = Len(w) + 1
      /\ \A k \in 1 .. Len(w) : k \in 1 .. Len(v)
  <2>1. Len(w) \in Nat
    BY GoodTypes
  <2> HIDE DEF v
  <2> QED  BY <1>1, <2>1
<1>3. w[i].seq \in 1 .. Len(J) /\ FitsJob(w[i], J)
  BY GoodTypes, <1>g DEF OfJob
<1> HIDE DEF v
<1>4. Typed(v, l, J)
  BY <1>1, <1>g DEF Typed
<1>5. Held(v, l)
  <2> SUFFICES ASSUME NEW k \in 1 .. Len(v), Started(v[k])
               PROVE  l[v[k].step.dev] = v[k].seq
    BY DEF Held
  <2>1. k \in 1 .. Len(w) /\ v[k] = w[k]
    BY <1>1, <1>2
  <2> QED  BY <2>1, GoodAt
<1>6. NoLeak(v, l)
  BY <1>1, <1>2, <1>g DEF NoLeak
<1>7. OneEach(v)
  <2> SUFFICES ASSUME NEW k \in 1 .. Len(v), NEW n \in 1 .. Len(v), k # n, v[k].seq = v[n].seq
               PROVE  (v[k].st = 1000) # (v[n].st = 1000)
    BY DEF OneEach
  <2>1. CASE k \in 1 .. Len(w) /\ n \in 1 .. Len(w)
    <3>1. v[k] = w[k] /\ v[n] = w[n]
      BY <1>1, <2>1
    <3> QED  BY <2>1, <3>1, GoodTwo
  <2>2. CASE k = Len(w) + 1 /\ n \in 1 .. Len(w)
    <3>1. v[k] = e /\ v[n] = w[n]
      BY <1>1, <2>2
    <3> QED  BY <2>2, <3>1
  <2>3. CASE k \in 1 .. Len(w) /\ n = Len(w) + 1
    <3>1. v[n] = e /\ v[k] = w[k]
      BY <1>1, <2>3
    <3> QED  BY <2>3, <3>1
  <2> QED  BY <1>2, <2>1, <2>2, <2>3
<1>8. Belong(v)
  BY <1>1, <1>2, <1>g DEF Belong
<1>9. OfJob(v, J)
  <2>1. FitsJob(e, J)
    BY <1>3 DEF FitsJob
  <2> QED  BY <1>1, <1>2, <2>1, <1>g DEF OfJob
<1>10. NoDrop(v, J)
  <2> SUFFICES ASSUME NEW s \in 1 .. Len(J),
                      J[s].cmd.combi \/ Radio(J[s].cmd.steps[1]),
                      \A k \in 1 .. Len(v) : v[k].seq # s
               PROVE  J[s].ok + J[s].err > 0
    BY DEF NoDrop
  <2>1. \A k \in 1 .. Len(w) : w[k].seq # s
    BY <1>1, <1>2
  <2> QED  BY <2>1, <1>g DEF NoDrop
<1> QED  BY <1>4, <1>5, <1>6, <1>7, <1>8, <1>9, <1>10 DEF Good, v

-----------------------------------------------------------------------------
(* The actions                                                             *)

TypeRest == /\ rq \in Seq(Frame) /\ FrameID \in 1 .. FrameMax
            /\ netKnown \subseteq Devices /\ air \subseteq Reply
            /\ pc \in Phases /\ again \in BOOLEAN /\ cur \in Nat \ {0}

LEMMA InductiveParts == Inductive <=> TypeRest /\ Good(wq, lock, jobs)
<1>1. TypeOK <=> TypeRest /\ Typed(wq, lock, jobs)
  BY DEF TypeOK, TypeRest, Typed
<1> QED  BY <1>1, InductiveIsGood DEF Good

(* The end of a transaction with the responses it may bring.               *)
LEMMA ToldGood ==
  ASSUME Good(wq, lock, jobs),
         NEW i \in 1 .. Len(wq), Started(wq[i]), wq[i].st # 1000,
         NEW a \in Nat, NEW b \in Nat, NEW c \in Nat,
         wq[i].sub => a = 0,
         ~wq[i].sub => (a = 1 /\ b = 0) \/ (a = 0 /\ b \in {1, 2})
  PROVE  Good(RemoveAt(wq, i), Free(wq[i].step.dev), Told(wq[i].seq, a, b, c))
<1> DEFINE s0 == wq[i].seq
           K  == Told(s0, a, b, c)
<1>1. /\ jobs \in Seq(Job) /\ s0 \in 1 .. Len(jobs)
      /\ jobs[s0].ok \in Nat /\ jobs[s0].err \in Nat
  BY GoodTypes
<1> HIDE DEF K
<1>2. /\ K \in Seq(Job) /\ Len(K) = Len(jobs)
      /\ \A k \in 1 .. Len(jobs) : k # s0 => K[k] = jobs[k]
      /\ K[s0].cmd = jobs[s0].cmd /\ K[s0].ok = jobs[s0].ok + a /\ K[s0].err = jobs[s0].err + b
  <2>1. Counted(K, jobs, s0, a, b, c)
    BY <1>1, ToldProperties DEF K
  <2>2. K[s0] = [cmd |-> jobs[s0].cmd, client |-> jobs[s0].client, ok |-> jobs[s0].ok + a,
                 err |-> jobs[s0].err + b, subs |-> jobs[s0].subs + c]
    BY <1>1, <2>1 DEF Counted
  <2>3. K[s0].cmd = jobs[s0].cmd /\ K[s0].ok = jobs[s0].ok + a /\ K[s0].err = jobs[s0].err + b
    BY <2>2
  <2>4. /\ K \in Seq(Job) /\ Len(K) = Len(jobs)
        /\ \A k \in 1 .. Len(jobs) : k # s0 => K[k] = jobs[k]
    BY <2>1 DEF Counted
  <2> QED  BY <2>3, <2>4
<1>3. \A k \in 1 .. Len(jobs) : K[k].cmd = jobs[k].cmd
  BY <1>2
<1>4. ~wq[i].sub => jobs[s0].ok = 0 /\ jobs[s0].err = 0
  BY <1>1 DEF Good, OfJob, FitsJob
<1>5. Good(RemoveAt(wq, i), Lock(lock, wq[i].step.dev, 0), K)
  <2>1. wq[i].sub => K[s0].ok = jobs[s0].ok /\ K[s0].err >= jobs[s0].err
    BY <1>1, <1>2
  <2>2. ~wq[i].sub => \/ K[s0].ok = 1 /\ K[s0].err = 0
                      \/ K[s0].ok = 0 /\ K[s0].err \in {1, 2}
    BY <1>2, <1>4
  <2>3. \A s \in 1 .. Len(jobs) : /\ K[s].cmd = jobs[s].cmd
                                  /\ s # wq[i].seq => K[s] = jobs[s]
    BY <1>2, <1>3
  <2>4. K \in Seq(Job) /\ Len(K) = Len(jobs)
    BY <1>2
  <2>5. Closes(K, jobs, wq[i].seq, wq[i].sub)
    BY <2>1, <2>2, <2>3, <2>4 DEF Closes
  <2> QED  BY <2>5, EndGood
<1> QED  BY <1>5 DEF Free, Lock, K

LEMMA StartGood ==
  ASSUME TypeOK, Good(wq, lock, jobs),
         NEW c \in Commands, NEW client \in BOOLEAN, Start(c, client)
  PROVE  Good(wq', lock, jobs')
<1> DEFINE step == c.steps[1]
           job  == [cmd |-> c, client |-> client, subs |-> 0,
                    ok  |-> IF ~c.combi /\ (step.kind = "told" \/ (client /\ step.kind = "done"))
                            THEN 1 ELSE 0,
                    err |-> IF ~c.combi /\ client /\ step.kind = "fail" THEN 1 ELSE 0]
           fresh == NewEntry(NextSeq, step, FALSE, 0, WaitTime(step))
           combi == CombiEntry(NextSeq, c.steps)
<1>1. /\ c.steps \in Seq(Steps) /\ step \in Steps
      /\ WaitTime(step) \in Nat /\ c.combi \in BOOLEAN
  BY StepTypes
<1>2. NextSeq \in Nat \ {0} /\ NextSeq = Len(jobs) + 1
  BY DEF TypeOK, NextSeq
<1>3. job \in Job /\ job.cmd = c
  BY DEF Job
<1>4. jobs' = Append(jobs, job)
  BY DEF Start
<1>5. CASE c.combi
  <2>1. combi \in Entry
    <3>1. CombiStep \in Steps
      BY ConstantsAssumption DEF CombiStep, Steps, StepKinds
    <3>2. 0 \in 0 .. FrameMax /\ 1000 \in State
      BY ConstantsAssumption DEF State
    <3> QED  BY <1>1, <1>2, <3>1, <3>2 DEF CombiEntry, Entry
  <2>2. /\ combi.seq = Len(jobs) + 1 /\ ~combi.sub /\ combi.st = 1000
        /\ combi.step = CombiStep /\ ~Radio(combi.step) /\ ~Started(combi)
    BY <1>2 DEF CombiEntry, CombiStep, Radio, Started
  <2>3. wq' = Append(wq, combi)
    BY <1>5 DEF Start
  <2>4. job.ok = 0 /\ job.err = 0
    BY <1>5
  <2> HIDE DEF job, combi
  <2> QED  BY <1>3, <1>4, <1>5, <2>1, <2>2, <2>3, <2>4, FreshGood
<1>6. CASE ~c.combi /\ Queued(step)
  <2>1. fresh \in Entry
    BY <1>1, <1>2, NewEntryType
  <2>2. /\ fresh.seq = Len(jobs) + 1 /\ ~fresh.sub /\ fresh.st = 0
        /\ fresh.step = step /\ ~Started(fresh)
    BY <1>2 DEF NewEntry, Started
  <2>3. wq' = Append(wq, fresh)
    BY <1>6 DEF Start
  <2>4. job.ok = 0 /\ job.err = 0
    BY <1>6 DEF Queued
  <2> HIDE DEF job, fresh
  <2> QED  BY <1>3, <1>4, <1>6, <2>1, <2>2, <2>3, <2>4, FreshGood
<1>7. CASE ~c.combi /\ ~Queued(step)
  <2>1. wq' = wq
    BY <1>7 DEF Start
  <2>2. /\ job.ok \in {0, 1} /\ job.err \in {0, 1} /\ (job.ok = 0 \/ job.err = 0)
        /\ ~Radio(step)
    BY <1>7 DEF Queued, Radio
  <2> HIDE DEF job
  <2> QED  BY <1>3, <1>4, <1>7, <2>1, <2>2, AtOnceGood
<1> QED  BY <1>1, <1>5, <1>6, <1>7

(* A resend keeps what the invariant knows of an entry that was sent.      *)
LEMMA ResendGood ==
  ASSUME TypeOK, Good(wq, lock, jobs),
         NEW i \in 1 .. Len(wq), wq[i].st = 2, NEW delay \in Nat
  PROVE  Good([wq EXCEPT ![i] = Resend(wq[i], delay)], lock, jobs)
<1> DEFINE f == Resend(wq[i], delay)
           v == [wq EXCEPT ![i] = f]
<1>1. /\ wq \in Seq(Entry) /\ \A k \in 1 .. Len(wq) : wq[k] \in Entry
      /\ wq[i] \in Entry /\ Radio(wq[i].step)
  BY GoodTypes DEF Good, OfJob, FitsJob
<1>2. f \in Entry
  BY <1>1, ResendType
<1>3. Alike(wq[i], f)
  <2>1. /\ f.seq = wq[i].seq /\ f.step = wq[i].step /\ f.sub = wq[i].sub
        /\ f.st = 0 /\ f.retry = wq[i].retry + 1
    BY <1>1 DEF Resend, Entry
  <2>2. wq[i].retry \in Nat
    BY <1>1 DEF Entry
  <2> HIDE DEF f
  <2> QED  BY <1>1, <2>1, <2>2 DEF Alike, Started
<1> HIDE DEF f
<1>4. /\ v \in Seq(Entry) /\ Len(v) = Len(wq)
      /\ \A k \in 1 .. Len(wq) : v[k] = IF k = i THEN f ELSE wq[k]
  BY <1>1, <1>2, ExceptSeq
<1>5. \A k \in 1 .. Len(wq) : Alike(wq[k], v[k])
  BY <1>3, <1>4 DEF Alike, Good, OfJob, FitsJob
<1> HIDE DEF v
<1>6. Good(v, lock, jobs)
  BY <1>4, <1>5, AlikeGood
<1> QED  BY <1>6 DEF v, f

(* The end of a transaction whose answer is its composite's own.           *)
LEMMA QuietEndGood ==
  ASSUME Good(wq, lock, jobs),
         NEW i \in 1 .. Len(wq), Started(wq[i]), wq[i].st # 1000, wq[i].sub
  PROVE  Good(RemoveAt(wq, i), Free(wq[i].step.dev), jobs)
<1>1. /\ jobs \in Seq(Job) /\ wq[i].seq \in 1 .. Len(jobs)
      /\ jobs[wq[i].seq].err \in Nat
  BY GoodTypes
<1>2. Closes(jobs, jobs, wq[i].seq, wq[i].sub)
  BY <1>1 DEF Closes
<1>3. Good(RemoveAt(wq, i), Lock(lock, wq[i].step.dev, 0), jobs)
  BY ZenonT(60), <1>2, EndGood
<1> QED  BY <1>3 DEF Free, Lock

(* What a pairing step may rely on.                                        *)
LEMMA PairFacts ==
  ASSUME TypeRest, Good(wq, lock, jobs), NEW i, NEW j, FirstPair(i, j)
  PROVE  /\ i \in 1 .. Len(wq) /\ j \in 1 .. Len(rq)
         /\ wq[i] \in Entry /\ wq[i].st = 2 /\ Started(wq[i])
         /\ RemoveAt(rq, j) \in Seq(Frame)
<1>1. i \in 1 .. Len(wq) /\ j \in 1 .. Len(rq) /\ wq[i].st = 2
  BY DEF FirstPair, Pairable, Matches
<1>2. Radio(wq[i].step) /\ wq[i] \in Entry
  BY <1>1, GoodTypes DEF Good, OfJob, FitsJob
<1>3. RemoveAt(rq, j) \in Seq(Frame)
  BY <1>1, RemoveAtProperties DEF TypeRest
<1> QED  BY <1>1, <1>2, <1>3 DEF Started

LEMMA TypeParts ==
  ASSUME TypeRest, Good(wq, lock, jobs)
  PROVE  TypeOK /\ NextFrame \in 1 .. FrameMax
<1>1. TypeOK
  BY DEF TypeOK, TypeRest, Good, Typed
<1> QED  BY <1>1, NextFrameType

(* Each action keeps the rest of the types and the predicate Good.         *)
LEMMA PairEndStep ==
  ASSUME TypeRest, Good(wq, lock, jobs), NEW i, NEW j, NEW good \in BOOLEAN, PairEnd(i, j, good)
  PROVE  TypeRest' /\ Good(wq', lock', jobs')
<1>1. FirstPair(i, j) /\ Finished(i, j, IF wq[i].sub THEN jobs
                                        ELSE IF good THEN Ok(wq[i].seq) ELSE Err(wq[i].seq))
  BY DEF PairEnd
<1>2. /\ i \in 1 .. Len(wq) /\ wq[i].st = 2 /\ Started(wq[i])
      /\ RemoveAt(rq, j) \in Seq(Frame)
  BY <1>1, PairFacts
<1>3. TypeRest'
  BY <1>2 DEF PairEnd, Finished, Drop, TypeRest
<1>4. wq' = RemoveAt(wq, i) /\ lock' = Free(wq[i].step.dev)
  BY <1>1 DEF Finished, Drop
<1>5. CASE wq[i].sub
  <2>1. jobs' = jobs
    BY <1>1, <1>5 DEF Finished
  <2> QED  BY <1>2, <1>3, <1>4, <1>5, <2>1, QuietEndGood
<1>6. CASE ~wq[i].sub /\ good
  <2>1. jobs' = Told(wq[i].seq, 1, 0, 0)
    BY <1>1, <1>6 DEF Finished, Ok
  <2>2. Good(RemoveAt(wq, i), Free(wq[i].step.dev), Told(wq[i].seq, 1, 0, 0))
    BY <1>2, <1>6, ToldGood
  <2> QED  BY <1>3, <1>4, <2>1, <2>2
<1>7. CASE ~wq[i].sub /\ ~good
  <2>1. jobs' = Told(wq[i].seq, 0, 1, 0)
    BY <1>1, <1>7 DEF Finished, Err
  <2>2. Good(RemoveAt(wq, i), Free(wq[i].step.dev), Told(wq[i].seq, 0, 1, 0))
    BY <1>2, <1>7, ToldGood
  <2> QED  BY <1>3, <1>4, <2>1, <2>2
<1> QED  BY <1>5, <1>6, <1>7

LEMMA PairNextStep ==
  ASSUME TypeRest, Good(wq, lock, jobs), NEW i, NEW j, PairNext(i, j)
  PROVE  TypeRest' /\ Good(wq', lock', jobs')
<1> DEFINE f == NewEntry(wq[i].seq, wq[i].step, wq[i].sub, wq[i].pkt + 1, wq[i].step.gap)
<1>1. /\ i \in 1 .. Len(wq) /\ wq[i] \in Entry /\ wq[i].st = 2 /\ Started(wq[i])
      /\ RemoveAt(rq, j) \in Seq(Frame)
  BY PairFacts DEF PairNext
<1>2. TypeOK /\ NextFrame \in 1 .. FrameMax
  BY TypeParts
<1>3. TypeRest'
  BY <1>1, <1>2 DEF PairNext, TypeRest
<1>4. /\ wq[i].seq \in Nat \ {0} /\ wq[i].step \in Steps /\ wq[i].sub \in BOOLEAN
      /\ wq[i].pkt \in Nat /\ wq[i].pkt + 1 \in Nat /\ wq[i].pkt + 1 > 0
  BY <1>1 DEF Entry
<1>5. wq[i].step.gap \in Nat
  BY <1>4 DEF Steps
<1>6. f \in Entry
  BY <1>2, <1>4, <1>5, NewEntryType
<1>7. /\ f.seq = wq[i].seq /\ f.step = wq[i].step /\ f.sub = wq[i].sub
      /\ f.st = 0 /\ f.pkt = wq[i].pkt + 1
  BY DEF NewEntry
<1>8. /\ wq' = Append(RemoveAt(wq, i), f) /\ lock' = lock /\ jobs' = jobs
  BY DEF PairNext
<1> HIDE DEF f
<1>9. Started(f)
  BY <1>1, <1>4, <1>7 DEF Started
<1>10. Good(Append(RemoveAt(wq, i), f), lock, jobs)
  BY <1>1, <1>6, <1>7, <1>9, ContinueGood
<1> QED  BY <1>3, <1>8, <1>10

(* Giving up: the transaction ends with one or two errors.                 *)
LEMMA GiveUpGood ==
  ASSUME Good(wq, lock, jobs),
         NEW i \in 1 .. Len(wq), Started(wq[i]), wq[i].st # 1000
  PROVE  /\ Good(RemoveAt(wq, i), Free(wq[i].step.dev), Err(wq[i].seq))
         /\ Good(RemoveAt(wq, i), Free(wq[i].step.dev), RetryErr(wq[i]))
         /\ Good(RemoveAt(wq, i), Free(wq[i].step.dev), DoubleErr(wq[i]))
<1>1. Good(RemoveAt(wq, i), Free(wq[i].step.dev), Told(wq[i].seq, 0, 1, 0))
  BY ToldGood
<1>2. wq[i].sub => Good(RemoveAt(wq, i), Free(wq[i].step.dev), Told(wq[i].seq, 0, 0, 1))
  BY ToldGood
<1>3. wq[i].sub => Good(RemoveAt(wq, i), Free(wq[i].step.dev), Told(wq[i].seq, 0, 1, 1))
  BY ToldGood
<1>4. ~wq[i].sub => Good(RemoveAt(wq, i), Free(wq[i].step.dev), Told(wq[i].seq, 0, 2, 0))
  BY ToldGood
<1> QED  BY <1>1, <1>2, <1>3, <1>4 DEF Err, RetryErr, DoubleErr

LEMMA TryAgainStep ==
  ASSUME TypeRest, Good(wq, lock, jobs), NEW i, NEW j, FirstPair(i, j),
         NEW delay \in Nat, TryAgain(i, j, delay)
  PROVE  TypeRest' /\ Good(wq', lock', jobs')
<1>1. /\ i \in 1 .. Len(wq) /\ wq[i].st = 2 /\ RemoveAt(rq, j) \in Seq(Frame)
  BY PairFacts
<1>2. TypeOK /\ NextFrame \in 1 .. FrameMax
  BY TypeParts
<1>3. TypeRest'
  BY <1>1, <1>2 DEF TryAgain, TypeRest
<1>4. Good([wq EXCEPT ![i] = Resend(wq[i], delay)], lock, jobs)
  BY <1>1, <1>2, ResendGood
<1>5. wq' = [wq EXCEPT ![i] = Resend(wq[i], delay)] /\ lock' = lock /\ jobs' = jobs
  BY DEF TryAgain
<1> QED  BY <1>3, <1>4, <1>5

LEMMA FinishedStep ==
  ASSUME TypeRest, Good(wq, lock, jobs), NEW i, NEW j, FirstPair(i, j),
         NEW K, K \in {Err(wq[i].seq), DoubleErr(wq[i])},
         Finished(i, j, K), FrameID' \in {FrameID, NextFrame}
  PROVE  TypeRest' /\ Good(wq', lock', jobs')
<1>1. /\ i \in 1 .. Len(wq) /\ wq[i].st = 2 /\ Started(wq[i])
      /\ RemoveAt(rq, j) \in Seq(Frame)
  BY PairFacts
<1>2. NextFrame \in 1 .. FrameMax
  BY TypeParts
<1>3. TypeRest'
  BY <1>1, <1>2 DEF Finished, Drop, TypeRest
<1>4. wq' = RemoveAt(wq, i) /\ lock' = Free(wq[i].step.dev) /\ jobs' = K
  BY DEF Finished, Drop
<1>5. CASE K = Err(wq[i].seq)
  BY <1>1, <1>3, <1>4, <1>5, GiveUpGood
<1>6. CASE K = DoubleErr(wq[i])
  BY <1>1, <1>3, <1>4, <1>6, GiveUpGood
<1> QED  BY <1>5, <1>6

LEMMA PairErrorStep ==
  ASSUME TypeRest, Good(wq, lock, jobs), NEW i, NEW j, NEW retry \in BOOLEAN,
         PairError(i, j, retry)
  PROVE  TypeRest' /\ Good(wq', lock', jobs')
<1>1. FirstPair(i, j)
  BY DEF PairError
<1>2. CASE retry /\ ~Exhausted(wq[i])
  <2> DEFINE delay == IF rq[j].type = "at" THEN ATRetryWait ELSE wq[i].wait
  <2>1. TryAgain(i, j, delay)
    BY <1>2 DEF PairError
  <2>2. wq[i].wait \in Nat
    BY <1>1, PairFacts DEF Entry
  <2>3. delay \in Nat
    BY <2>2, ConstantsAssumption
  <2> HIDE DEF delay
  <2> QED  BY <1>1, <2>1, <2>3, TryAgainStep
<1>3. CASE retry /\ Exhausted(wq[i])
  <2>1. Finished(i, j, DoubleErr(wq[i])) /\ FrameID' = NextFrame
    BY <1>3 DEF PairError
  <2> QED  BY <1>1, <2>1, FinishedStep
<1>4. CASE ~retry
  <2>1. Finished(i, j, Err(wq[i].seq)) /\ FrameID' = FrameID
    BY <1>4 DEF PairError
  <2> QED  BY <1>1, <2>1, FinishedStep
<1> QED  BY <1>2, <1>3, <1>4

LEMMA NotDeliveredStep ==
  ASSUME TypeRest, Good(wq, lock, jobs), NEW i, NEW j, NEW noaddr \in BOOLEAN,
         NotDelivered(i, j, noaddr)
  PROVE  TypeRest' /\ Good(wq', lock', jobs')
<1>1. FirstPair(i, j)
  BY DEF NotDelivered
<1>2. CASE noaddr
  <2>1. Finished(i, j, Err(wq[i].seq)) /\ FrameID' = FrameID
    BY <1>2 DEF NotDelivered
  <2> QED  BY <1>1, <2>1, FinishedStep
<1>3. CASE ~noaddr /\ ~Exhausted(wq[i])
  <2>1. TryAgain(i, j, TxRetryWait) /\ TxRetryWait \in Nat
    BY <1>3, ConstantsAssumption DEF NotDelivered
  <2> QED  BY <1>1, <2>1, TryAgainStep
<1>4. CASE ~noaddr /\ Exhausted(wq[i])
  <2>1. Finished(i, j, DoubleErr(wq[i])) /\ FrameID' = NextFrame
    BY <1>4 DEF NotDelivered
  <2> QED  BY <1>1, <2>1, FinishedStep
<1> QED  BY <1>2, <1>3, <1>4

LEMMA TimeoutStep ==
  ASSUME TypeRest, Good(wq, lock, jobs), NEW i, Timeout(i)
  PROVE  TypeRest' /\ Good(wq', lock', jobs')
<1>1. i \in 1 .. Len(wq) /\ wq[i].st = 2
  BY DEF Timeout, First, Late
<1>2. Started(wq[i])
  BY <1>1 DEF Started, Good, OfJob, FitsJob
<1>3. TypeOK /\ NextFrame \in 1 .. FrameMax
  BY TypeParts
<1>4. TypeRest'
  BY <1>3 DEF Timeout, TypeRest
<1>5. CASE Exhausted(wq[i])
  <2>1. /\ wq' = RemoveAt(wq, i) /\ lock' = Free(wq[i].step.dev)
        /\ jobs' = RetryErr(wq[i])
    BY <1>5 DEF Timeout
  <2> QED  BY <1>1, <1>2, <1>4, <2>1, GiveUpGood
<1>6. CASE ~Exhausted(wq[i])
  <2>1. wq' = [wq EXCEPT ![i] = Resend(wq[i], 0)] /\ lock' = lock /\ jobs' = jobs
    BY <1>6 DEF Timeout
  <2>2. Good([wq EXCEPT ![i] = Resend(wq[i], 0)], lock, jobs)
    BY <1>1, <1>3, ResendGood
  <2> QED  BY <1>4, <2>1, <2>2
<1> QED  BY <1>5, <1>6

(* An entry put into another state, or given another time.                 *)
LEMMA SentType ==
  ASSUME NEW e \in Entry, NEW s \in State, NEW n \in Nat
  PROVE  [[e EXCEPT !.st = s] EXCEPT !.t = n] \in Entry
BY DEF Entry

LEMMA SendStep ==
  ASSUME TypeRest, Good(wq, lock, jobs), NEW i, Send(i)
  PROVE  TypeRest' /\ Good(wq', lock', jobs')
<1> DEFINE f == [[wq[i] EXCEPT !.st = 2] EXCEPT !.t = 0]
           v == [wq EXCEPT ![i] = f]
<1>1. /\ i \in 1 .. Len(wq) /\ wq[i].st = 1 /\ Radio(wq[i].step)
      /\ lock[wq[i].step.dev] \in {0, wq[i].seq}
  BY DEF Send, First, Due, Mine
<1>2. wq \in Seq(Entry) /\ wq[i] \in Entry /\ wq[i].step.dev \in Devices
  BY <1>1, GoodTypes
<1>3. 2 \in State
  BY DEF State
<1>4. f \in Entry
  BY <1>2, <1>3, SentType
<1>5. /\ f.st = 2 /\ f.seq = wq[i].seq /\ f.step = wq[i].step /\ f.sub = wq[i].sub
  BY <1>2 DEF Entry
<1>6. wq' = v
  BY <1>1, <1>2 DEF Send
<1> HIDE DEF f
<1>7. /\ v \in Seq(Entry) /\ Len(v) = Len(wq) /\ v[i] = f
      /\ \A k \in 1 .. Len(wq) : k # i => v[k] = wq[k]
  BY <1>1, <1>2, <1>4, ExceptSeq
<1> HIDE DEF v
<1>8. lock' = Lock(lock, wq[i].step.dev, wq[i].seq) /\ jobs' = jobs
  BY DEF Send, Lock
<1>9. Started(v[i]) /\ v[i].st # 1000
  BY <1>1, <1>5, <1>7 DEF Started
<1>10. v[i].seq = wq[i].seq /\ v[i].step = wq[i].step /\ v[i].sub = wq[i].sub
  BY <1>5, <1>7
<1>11. Good(v, Lock(lock, wq[i].step.dev, wq[i].seq), jobs)
  BY SMTT(60), <1>1, <1>7, <1>9, <1>10, SendGood
<1>12. Answers(wq[i]) \subseteq Reply
  <2>1. /\ wq[i].frame \in 0 .. FrameMax /\ wq[i].seq \in Nat
        /\ wq[i].pkt \in Nat /\ wq[i].retry \in Nat
    BY <1>2 DEF Entry
  <2> QED  BY <1>2, <2>1 DEF Answers, Reply
<1>13. TypeRest'
  BY <1>12 DEF Send, TypeRest
<1> QED  BY <1>6, <1>8, <1>11, <1>13

LEMMA WaitOverStep ==
  ASSUME TypeRest, Good(wq, lock, jobs), NEW i, WaitOver(i)
  PROVE  TypeRest' /\ Good(wq', lock', jobs')
<1>1. i \in 1 .. Len(wq) /\ wq[i].st # 1000 /\ ~Radio(wq[i].step)
  BY DEF WaitOver, First, Due
<1>2. jobs \in Seq(Job)
  BY GoodTypes
<1>3. Good(RemoveAt(wq, i), lock, jobs)
  BY <1>1, <1>2, LeaveGood
<1>4. TypeRest'
  BY DEF WaitOver, TypeRest
<1> QED  BY <1>3, <1>4 DEF WaitOver

(* CommandCheck comes to a composite without a step in progress.           *)
LEMMA ReadyFacts ==
  ASSUME Good(wq, lock, jobs), NEW i, First(Ready, wq, cur, i)
  PROVE  /\ i \in 1 .. Len(wq) /\ wq[i].st = 1000 /\ ~Radio(wq[i].step) /\ ~wq[i].sub
         /\ \A j \in 1 .. Len(wq) : j # i => wq[j].seq # wq[i].seq
<1>1. i \in 1 .. Len(wq) /\ Ready(wq[i])
  BY DEF First
<1>2. /\ wq[i].st = 1000
      /\ \A j \in 1 .. Len(wq) : wq[j].st < 1000 => wq[j].seq # wq[i].seq
  BY <1>1 DEF Ready
<1>3. ASSUME NEW j \in 1 .. Len(wq), j # i, wq[j].seq = wq[i].seq
      PROVE  FALSE
  <2>1. wq[j].st # 1000
    BY <1>1, <1>2, <1>3 DEF Good, OneEach
  <2>2. wq[j].st \in State
    BY GoodTypes
  <2>3. wq[j].st < 1000
    BY <2>1, <2>2 DEF State
  <2> QED  BY <1>2, <1>3, <2>3
<1>4. ~Radio(wq[i].step) /\ ~wq[i].sub
  BY <1>1, <1>2 DEF Good, OfJob, FitsJob
<1> QED  BY <1>1, <1>2, <1>3, <1>4

LEMMA CombiEndStep ==
  ASSUME TypeRest, Good(wq, lock, jobs), NEW i, CombiEnd(i)
  PROVE  TypeRest' /\ Good(wq', lock', jobs')
<1> DEFINE s == wq[i].seq
<1>1. /\ i \in 1 .. Len(wq) /\ wq[i].st = 1000 /\ ~Radio(wq[i].step)
      /\ \A j \in 1 .. Len(wq) : j # i => wq[j].seq # wq[i].seq
  BY ReadyFacts DEF CombiEnd
<1>2. /\ jobs \in Seq(Job) /\ s \in 1 .. Len(jobs)
      /\ jobs[s].err \in Nat /\ jobs[s].ok = 0
  BY <1>1, GoodTypes DEF Good, OfJob, FitsJob
<1>3. PICK a \in {0, 1}, b \in {0, 1} : a + b = 1 /\ jobs' = Told(s, a, b, 0)
  <2>1. CASE wq[i].rest = << >>
    BY <2>1 DEF CombiEnd, Ok
  <2>2. CASE wq[i].rest # << >>
    BY <2>2 DEF CombiEnd, Err
  <2> QED  BY <2>1, <2>2
<1> DEFINE K == Told(s, a, b, 0)
<1>4. Counted(K, jobs, s, a, b, 0)
  BY <1>2, ToldProperties
<1> HIDE DEF K
<1>5. K[s] = [cmd |-> jobs[s].cmd, client |-> jobs[s].client, ok |-> jobs[s].ok + a,
              err |-> jobs[s].err + b, subs |-> jobs[s].subs + 0]
  BY <1>2, <1>4 DEF Counted
<1>6. K[s].cmd = jobs[s].cmd /\ K[s].ok = a /\ K[s].err = jobs[s].err + b
  BY <1>2, <1>3, <1>5
<1>7. K \in Seq(Job) /\ Len(K) = Len(jobs)
  BY <1>4 DEF Counted
<1>8. \A k \in 1 .. Len(jobs) : k # s => K[k] = jobs[k]
  BY <1>4 DEF Counted
<1>9. \A k \in 1 .. Len(jobs) : K[k].cmd = jobs[k].cmd /\ (k # wq[i].seq => K[k] = jobs[k])
  BY <1>6, <1>8
<1>10. K[s].ok <= 1 /\ K[s].ok + K[s].err > 0
  BY <1>2, <1>3, <1>6
<1>11. Good(RemoveAt(wq, i), lock, K)
  BY <1>1, <1>7, <1>9, <1>10, LeaveGood
<1>12. i \in Nat \ {0}
  BY <1>1, GoodTypes
<1>13. TypeRest'
  BY <1>12 DEF CombiEnd, TypeRest
<1>14. wq' = RemoveAt(wq, i) /\ lock' = lock
  BY DEF CombiEnd
<1>15. jobs' = K
  BY <1>3 DEF K
<1> QED  BY <1>11, <1>13, <1>14, <1>15

(* The queue when the entry at i is left with the steps r.                 *)
Left(w, i, r) == [w EXCEPT ![i] = [w[i] EXCEPT !.rest = r]]

LEMMA StepOnGood ==
  ASSUME TypeRest, Good(wq, lock, jobs), NEW i \in 1 .. Len(wq), NEW r \in Seq(Steps)
  PROVE  /\ Good(Left(wq, i, r), lock, jobs) /\ Len(Left(wq, i, r)) = Len(wq)
         /\ \A k \in 1 .. Len(wq) : /\ Left(wq, i, r)[k].seq = wq[k].seq
                                    /\ Left(wq, i, r)[k].st = wq[k].st
<1> DEFINE f == [wq[i] EXCEPT !.rest = r]
           v == [wq EXCEPT ![i] = f]
<1>1. wq \in Seq(Entry) /\ wq[i] \in Entry
  BY GoodTypes
<1>2. f \in Entry
  BY <1>1 DEF Entry
<1>3. /\ f.seq = wq[i].seq /\ f.step = wq[i].step /\ f.sub = wq[i].sub /\ f.st = wq[i].st
      /\ f.retry = wq[i].retry /\ f.pkt = wq[i].pkt
  BY <1>1 DEF Entry
<1> HIDE DEF f
<1>4. /\ v \in Seq(Entry) /\ Len(v) = Len(wq)
      /\ \A k \in 1 .. Len(wq) : v[k] = IF k = i THEN f ELSE wq[k]
  BY <1>1, <1>2, ExceptSeq
<1>5. \A k \in 1 .. Len(wq) : wq[k].st = 2 => Radio(wq[k].step)
  BY DEF Good, OfJob, FitsJob
<1> HIDE DEF v
<1>6. \A k \in 1 .. Len(wq) : Alike(wq[k], v[k]) /\ v[k].seq = wq[k].seq /\ v[k].st = wq[k].st
  BY <1>3, <1>4, <1>5 DEF Alike, Started
<1>7. Good(v, lock, jobs)
  BY <1>4, <1>6, AlikeGood
<1> QED  BY <1>4, <1>6, <1>7 DEF v, f, Left

LEMMA CombiStepOnStep ==
  ASSUME TypeRest, Good(wq, lock, jobs), NEW i, CombiStepOn(i)
  PROVE  TypeRest' /\ Good(wq', lock', jobs')
<1> DEFINE step == Head(wq[i].rest)
           v    == Left(wq, i, Tail(wq[i].rest))
           e    == NewEntry(wq[i].seq, step, TRUE, 0, WaitTime(step))
<1>1. /\ i \in 1 .. Len(wq) /\ wq[i].st = 1000
      /\ \A j \in 1 .. Len(wq) : j # i => wq[j].seq # wq[i].seq
  BY ReadyFacts DEF CombiStepOn
<1>2. wq \in Seq(Entry) /\ wq[i] \in Entry /\ wq[i].seq \in 1 .. Len(jobs) /\ jobs \in Seq(Job)
  BY <1>1, GoodTypes
<1>3. wq[i].rest \in Seq(Steps) /\ wq[i].rest # << >> /\ wq[i].seq \in Nat \ {0}
  BY <1>2 DEF CombiStepOn, Entry
<1>4. Tail(wq[i].rest) \in Seq(Steps) /\ step \in Steps
  BY <1>3, HeadTailProperties
<1>5. WaitTime(step) \in Nat
  BY <1>4 DEF WaitTime, Steps
<1>6. TypeOK /\ NextFrame \in 1 .. FrameMax
  BY TypeParts
<1>7. e \in Entry
  BY <1>3, <1>4, <1>5, <1>6, NewEntryType
<1>8. e.seq = wq[i].seq /\ e.sub /\ e.st \notin {2, 1000} /\ ~Started(e)
  BY DEF NewEntry, Started
<1>9. wq' = IF Queued(step) THEN Append(v, e) ELSE v
  BY DEF CombiStepOn, Left
<1>10. TypeRest'
  <2>1. i + 1 \in Nat \ {0}
    BY <1>1, <1>2, LenProperties
  <2> QED  BY <1>6, <2>1 DEF CombiStepOn, TypeRest
<1>11. lock' = lock /\ jobs' = IF step.kind = "told" THEN Told(wq[i].seq, 0, 0, 1) ELSE jobs
  BY DEF CombiStepOn
<1> HIDE DEF step, e
<1> DEFINE r == Tail(wq[i].rest)
<1>0. r \in Seq(Steps) /\ v = Left(wq, i, r)
  BY <1>4
<1> HIDE DEF r, v
<1>12. /\ Good(v, lock, jobs) /\ Len(v) = Len(wq)
       /\ \A k \in 1 .. Len(wq) : v[k].seq = wq[k].seq /\ v[k].st = wq[k].st
  BY <1>0, <1>1, StepOnGood
<1>13. Good(wq', lock, jobs)
  <2>1. CASE Queued(step)
    <3>1. i \in 1 .. Len(v) /\ v[i].st = 1000 /\ v[i].seq = wq[i].seq
      BY <1>1, <1>12
    <3>2. \A j \in 1 .. Len(v) : v[j].st # 1000 => v[j].seq # v[i].seq
      BY <1>1, <1>12
    <3>3. Good(Append(v, e), lock, jobs)
      BY <1>7, <1>8, <1>12, <3>1, <3>2, SubStepGood
    <3> QED  BY <1>9, <2>1, <3>3
  <2>2. CASE ~Queued(step)
    BY <1>9, <1>12, <2>2
  <2> QED  BY <2>1, <2>2
<1>14. jobs' \in Seq(Job) /\ Len(jobs') = Len(jobs)
       /\ \A k \in 1 .. Len(jobs) : /\ jobs'[k].cmd = jobs[k].cmd
                                    /\ jobs'[k].ok = jobs[k].ok /\ jobs'[k].err = jobs[k].err
  <2>1. CASE step.kind # "told"
    BY <1>2, <1>11, <2>1
  <2>2. CASE step.kind = "told"
    <3> DEFINE K == Told(wq[i].seq, 0, 0, 1)
    <3>1. jobs' = K
      BY <1>11, <2>2
    <3>2. Counted(K, jobs, wq[i].seq, 0, 0, 1)
      BY <1>2, ToldProperties
    <3> HIDE DEF K
    <3>3. K \in Seq(Job) /\ Len(K) = Len(jobs)
      BY <3>2 DEF Counted
    <3>4. \A k \in 1 .. Len(jobs) : k # wq[i].seq => K[k] = jobs[k]
      BY <3>2 DEF Counted
    <3>5. K[wq[i].seq] = [cmd |-> jobs[wq[i].seq].cmd, client |-> jobs[wq[i].seq].client,
                          ok |-> jobs[wq[i].seq].ok + 0, err |-> jobs[wq[i].seq].err + 0,
                          subs |-> jobs[wq[i].seq].subs + 1]
      BY <1>2, <3>2 DEF Counted
    <3>6. jobs[wq[i].seq].ok \in Nat /\ jobs[wq[i].seq].err \in Nat
      BY <1>1, GoodTypes
    <3>7. /\ K[wq[i].seq].cmd = jobs[wq[i].seq].cmd
          /\ K[wq[i].seq].ok = jobs[wq[i].seq].ok /\ K[wq[i].seq].err = jobs[wq[i].seq].err
      BY <3>5, <3>6
    <3> QED  BY <3>1, <3>3, <3>4, <3>7
  <2> QED  BY <2>1, <2>2
<1>15. Good(wq', lock, jobs')
  BY <1>13, <1>14, SubsGood
<1> QED  BY <1>10, <1>11, <1>15

(* Changing the time of an entry does not matter to the invariant.         *)
LEMMA TimeAlike ==
  ASSUME NEW e \in Entry, e.st = 2 => Radio(e.step), NEW n \in Nat
  PROVE  [e EXCEPT !.t = n] \in Entry /\ Alike(e, [e EXCEPT !.t = n])
<1> DEFINE g == [e EXCEPT !.t = n]
<1>1. g \in Entry
  BY DEF Entry
<1>2. /\ g.seq = e.seq /\ g.step = e.step /\ g.sub = e.sub /\ g.st = e.st
      /\ g.retry = e.retry /\ g.pkt = e.pkt
  BY DEF Entry
<1> HIDE DEF g
<1>3. Alike(e, g)
  BY <1>2 DEF Alike, Started
<1> QED  BY <1>1, <1>3 DEF g

LEMMA TickStep ==
  ASSUME TypeRest, Good(wq, lock, jobs), Tick
  PROVE  TypeRest' /\ Good(wq', lock', jobs')
<1>1. wq \in Seq(Entry) /\ Len(wq) \in Nat
  BY GoodTypes
<1>2. ASSUME NEW k \in 1 .. Len(wq)
      PROVE  Older(wq[k]) \in Entry /\ Alike(wq[k], Older(wq[k]))
  <2>1. wq[k] \in Entry
    BY GoodTypes
  <2>2. wq[k].t \in Nat
    BY <2>1 DEF Entry
  <2>3. wq[k].st = 2 => Radio(wq[k].step)
    BY DEF Good, OfJob, FitsJob
  <2>4. PICK n \in Nat : Older(wq[k]) \in {[wq[k] EXCEPT !.t = n], wq[k]}
    <3>1. CASE wq[k].st = 1
      <4>1. /\ Older(wq[k]) = [wq[k] EXCEPT !.t = IF wq[k].t = 0 THEN 0 ELSE wq[k].t - 1]
            /\ (IF wq[k].t = 0 THEN 0 ELSE wq[k].t - 1) \in Nat
        BY <2>2, <3>1 DEF Older
      <4> QED  BY <4>1
    <3>2. CASE wq[k].st = 2
      <4>1. /\ Older(wq[k]) = [wq[k] EXCEPT !.t = wq[k].t + 1]
            /\ wq[k].t + 1 \in Nat
        BY <2>2, <3>2 DEF Older
      <4> QED  BY <4>1
    <3>3. CASE wq[k].st \notin {1, 2}
      BY <3>3 DEF Older
    <3> QED  BY <3>1, <3>2, <3>3
  <2>5. CASE Older(wq[k]) = [wq[k] EXCEPT !.t = n]
    BY <2>1, <2>3, <2>5, TimeAlike
  <2>6. CASE Older(wq[k]) = wq[k]
    BY <2>1, <2>3, <2>6 DEF Alike
  <2> QED  BY <2>4, <2>5, <2>6
<1>3. /\ wq' \in Seq(Entry) /\ Len(wq') = Len(wq)
      /\ \A k \in 1 .. Len(wq) : wq'[k] = Older(wq[k])
  <2>1. wq' = [k \in 1 .. Len(wq) |-> Older(wq[k])]
    BY DEF Tick
  <2> QED  BY <1>1, <1>2, <2>1
<1>4. Good(wq', lock, jobs)
  BY <1>2, <1>3, AlikeGood
<1>5. rq' \in Seq(Frame)
  <2>1. rq \in Seq(Frame) /\ Len(rq) \in Nat /\ \A j \in 1 .. Len(rq) : rq[j] \in Frame
    BY ElementOfSeq, LenProperties DEF TypeRest
  <2>2. ASSUME NEW j \in 1 .. Len(rq)  PROVE [rq[j] EXCEPT !.age = rq[j].age + 1] \in Frame
    <3>1. rq[j] \in Frame
      BY <2>1
    <3>2. rq[j].age + 1 \in Nat
      BY <3>1 DEF Frame
    <3> QED  BY <3>1, <3>2 DEF Frame
  <2>3. rq' = [j \in 1 .. Len(rq) |-> [rq[j] EXCEPT !.age = rq[j].age + 1]]
    BY DEF Tick
  <2> QED  BY <2>1, <2>2, <2>3
<1>6. TypeRest'
  BY <1>5 DEF Tick, TypeRest, Phases
<1> QED  BY <1>4, <1>6 DEF Tick

LEMMA TimerCheckStep ==
  ASSUME TypeRest, Good(wq, lock, jobs), TimerCheck
  PROVE  TypeRest' /\ Good(wq', lock', jobs')
<1> DEFINE f(e) == IF e.st = 0 THEN [[e EXCEPT !.st = 1] EXCEPT !.t = e.wait] ELSE e
<1>1. wq \in Seq(Entry) /\ Len(wq) \in Nat
  BY GoodTypes
<1>2. ASSUME NEW k \in 1 .. Len(wq)
      PROVE  f(wq[k]) \in Entry /\ Alike(wq[k], f(wq[k]))
  <2>0. wq[k] \in Entry /\ (wq[k].st = 2 => Radio(wq[k].step))
    BY GoodTypes DEF Good, OfJob, FitsJob
  <2>1. wq[k] \in Entry /\ wq[k].wait \in Nat /\ (wq[k].st = 2 => Radio(wq[k].step))
    BY <2>0 DEF Entry
  <2>2. CASE wq[k].st = 0
    <3> DEFINE g == [[wq[k] EXCEPT !.st = 1] EXCEPT !.t = wq[k].wait]
    <3>1. f(wq[k]) = g
      BY <2>2
    <3>2. 1 \in State
      BY DEF State
    <3>3. g \in Entry
      BY <2>1, <3>2, SentType
    <3>4. /\ g.seq = wq[k].seq /\ g.step = wq[k].step /\ g.sub = wq[k].sub /\ g.st = 1
          /\ g.retry = wq[k].retry /\ g.pkt = wq[k].pkt
      BY <2>1 DEF Entry
    <3> HIDE DEF g
    <3> QED  BY <2>2, <3>1, <3>3, <3>4 DEF Alike, Started
  <2>3. CASE wq[k].st # 0
    <3>1. f(wq[k]) = wq[k]
      BY <2>3
    <3> HIDE DEF f
    <3> QED  BY <2>1, <3>1 DEF Alike
  <2> QED  BY <2>2, <2>3
<1>3. /\ wq' \in Seq(Entry) /\ Len(wq') = Len(wq)
      /\ \A k \in 1 .. Len(wq) : wq'[k] = f(wq[k])
  <2>1. wq' = [k \in 1 .. Len(wq) |-> f(wq[k])]
    BY DEF TimerCheck
  <2> HIDE DEF f
  <2> QED  BY <1>1, <1>2, <2>1
<1> HIDE DEF f
<1>4. Good(wq', lock, jobs)
  BY <1>2, <1>3, AlikeGood
<1>5. TypeRest'
  BY DEF TimerCheck, Goto, TypeRest, Phases
<1> QED  BY <1>4, <1>5 DEF TimerCheck

LEMMA SubmitStep ==
  ASSUME TypeRest, Good(wq, lock, jobs), NEW c \in Commands, Submit(c)
  PROVE  TypeRest' /\ Good(wq', lock', jobs')
<1>1. TypeOK /\ Start(c, TRUE)
  BY TypeParts DEF Submit
<1>2. FrameID' \in 1 .. FrameMax
  BY <1>1, StartType
<1>3. TypeRest'
  BY <1>2 DEF Submit, TypeRest
<1>4. Good(wq', lock, jobs')
  BY <1>1, StartGood
<1> QED  BY <1>3, <1>4 DEF Submit

LEMMA ReadNotificationStep ==
  ASSUME TypeRest, Good(wq, lock, jobs), NEW j, ReadNotification(j)
  PROVE  TypeRest' /\ Good(wq', lock', jobs')
<1>1. j \in 1 .. Len(rq) /\ rq \in Seq(Frame)
  BY DEF ReadNotification, First, TypeRest
<1>2. RemoveAt(rq, j) \in Seq(Frame)
  BY <1>1, RemoveAtProperties
<1>3. rq[j].cmd \in Commands \cup {NoCommand}
  <2>1. rq[j] \in Frame
    BY <1>1, ElementOfSeq
  <2> QED  BY <2>1 DEF Frame
<1>4. CASE rq[j].cmd = NoCommand
  <2>1. TypeRest'
    BY <1>2, <1>4 DEF ReadNotification, TypeRest
  <2> QED  BY <1>4, <2>1 DEF ReadNotification
<1>5. CASE rq[j].cmd # NoCommand
  <2> DEFINE c == rq[j].cmd
  <2>1. TypeOK /\ Start(c, FALSE) /\ c \in Commands
    BY <1>3, <1>5, TypeParts DEF ReadNotification
  <2> HIDE DEF c
  <2>2. FrameID' \in 1 .. FrameMax
    BY <2>1, StartType
  <2>3. TypeRest'
    BY <1>2, <2>2 DEF ReadNotification, TypeRest
  <2>4. Good(wq', lock, jobs')
    BY <2>1, StartGood
  <2> QED  BY <2>3, <2>4 DEF ReadNotification
<1> QED  BY <1>4, <1>5

LEMMA ReceiveStep ==
  ASSUME TypeRest, Good(wq, lock, jobs),
         NEW r \in air, NEW known \in BOOLEAN, Receive(r, known)
  PROVE  TypeRest' /\ Good(wq', lock', jobs')
<1> DEFINE q == [type |-> r.type, frame |-> r.frame, dev |-> r.dev, seq |-> r.seq,
                 pkt |-> r.pkt, try |-> r.try, age |-> 0, cmd |-> NoCommand]
<1>1. r \in Reply
  BY DEF TypeRest
<1>2. q \in Frame /\ r.dev \in Devices
  BY <1>1 DEF Reply, Frame
<1>3. rq' = Append(rq, q)
  BY DEF Receive, Arrive
<1> HIDE DEF q
<1>4. rq' \in Seq(Frame)
  BY <1>2, <1>3, AppendFacts DEF TypeRest
<1>5. TypeRest'
  BY <1>2, <1>4 DEF Receive, TypeRest
<1> QED  BY <1>5 DEF Receive

LEMMA NotifyStep ==
  ASSUME TypeRest, Good(wq, lock, jobs),
         NEW d \in Devices, NEW n \in Notices, Notify(d, n)
  PROVE  TypeRest' /\ Good(wq', lock', jobs')
<1> DEFINE q == [type |-> n.type, frame |-> 0, dev |-> d, seq |-> 0, pkt |-> 0, try |-> 0,
                 age |-> 0, cmd |-> n.cmd]
<1>1. n \in [type: {"keypad", "boot", "status"}, cmd: Commands \cup {NoCommand}]
  BY ConstantsAssumption
<1>2. q \in Frame
  BY <1>1, ConstantsAssumption DEF Frame
<1>3. rq' = Append(rq, q)
  BY DEF Notify, Arrive
<1> HIDE DEF q
<1>4. rq' \in Seq(Frame)
  BY <1>2, <1>3, AppendFacts DEF TypeRest
<1>5. TypeRest'
  BY <1>4 DEF Notify, TypeRest
<1> QED  BY <1>5 DEF Notify

LEMMA DiscardStep ==
  ASSUME TypeRest, Good(wq, lock, jobs), NEW j, Discard(j)
  PROVE  TypeRest' /\ Good(wq', lock', jobs')
<1>1. RemoveAt(rq, j) \in Seq(Frame)
  BY RemoveAtProperties DEF Discard, First, TypeRest
<1>2. TypeRest'
  BY <1>1 DEF Discard, TypeRest
<1> QED  BY <1>2 DEF Discard

LEMMA DeliveredStep ==
  ASSUME TypeRest, Good(wq, lock, jobs), NEW i, NEW j, Delivered(i, j)
  PROVE  TypeRest' /\ Good(wq', lock', jobs')
<1>1. RemoveAt(rq, j) \in Seq(Frame)
  BY PairFacts DEF Delivered
<1>2. TypeRest'
  BY <1>1 DEF Delivered, TypeRest
<1> QED  BY <1>2 DEF Delivered

Moves == \/ Wakeup \/ PairDone \/ ReadDone \/ SendDone \/ TimeoutDone
         \/ DiscardDone \/ CommandDone

LEMMA MovesStep ==
  ASSUME TypeRest, Good(wq, lock, jobs), Moves
  PROVE  TypeRest' /\ Good(wq', lock', jobs')
<1>1. UNCHANGED <<wq, rq, lock, FrameID, jobs, netKnown, air>>
  BY DEF Moves, Wakeup, PairDone, ReadDone, SendDone, TimeoutDone, DiscardDone, CommandDone
<1>2. pc' \in Phases
  BY DEF Moves, Wakeup, PairDone, ReadDone, SendDone, TimeoutDone, DiscardDone, CommandDone,
         Goto, Phases
<1>4. again' = again \/ again' = FALSE
  BY DEF Moves, Wakeup, PairDone, ReadDone, SendDone, TimeoutDone, DiscardDone, CommandDone
<1>5. again' \in BOOLEAN
  BY <1>4 DEF TypeRest
<1>6. cur' = cur \/ cur' = 1
  BY DEF Moves, Wakeup, PairDone, ReadDone, SendDone, TimeoutDone, DiscardDone, CommandDone
<1>7. cur' \in Nat \ {0}
  BY <1>6 DEF TypeRest
<1>3. TypeRest'
  BY <1>1, <1>2, <1>5, <1>7 DEF TypeRest
<1> QED  BY <1>1, <1>3

LEMMA InitGood == Init => TypeRest /\ Good(wq, lock, jobs)
<1> SUFFICES ASSUME Init  PROVE TypeRest /\ Good(wq, lock, jobs)
  OBVIOUS
<1>1. /\ wq \in Seq(Entry) /\ rq \in Seq(Frame) /\ jobs \in Seq(Job)
      /\ Len(wq) = 0 /\ Len(jobs) = 0
  BY EmptySeq DEF Init
<1>2. TypeRest
  <2>1. FrameID \in 1 .. FrameMax
    BY ConstantsAssumption DEF Init
  <2>2. pc \in Phases /\ cur \in Nat \ {0}
    BY DEF Init, Phases
  <2>4. again \in BOOLEAN
    BY DEF Init
  <2>3. netKnown \subseteq Devices /\ air \subseteq Reply
    BY DEF Init
  <2> QED  BY <1>1, <2>1, <2>2, <2>3, <2>4 DEF TypeRest
<1>3. Typed(wq, lock, jobs)
  BY <1>1 DEF Init, Typed
<1>4. NoLeak(wq, lock)
  BY DEF Init, NoLeak
<1>5. /\ Held(wq, lock) /\ OneEach(wq) /\ Belong(wq)
      /\ OfJob(wq, jobs) /\ Outcome(jobs) /\ NoDrop(wq, jobs)
  BY <1>1 DEF Held, OneEach, Belong, OfJob, Outcome, NoDrop
<1> QED  BY <1>2, <1>3, <1>4, <1>5 DEF Good

LEMMA NextGood ==
  ASSUME TypeRest, Good(wq, lock, jobs), [Next]_vars
  PROVE  TypeRest' /\ Good(wq', lock', jobs')
<1>1. CASE Ports
  BY <1>1, SubmitStep, ReceiveStep, NotifyStep DEF Ports
<1>2. CASE Tick
  BY <1>2, TickStep
<1>3. CASE Pair
  BY <1>3, PairEndStep, PairNextStep, PairErrorStep, DeliveredStep, NotDeliveredStep DEF Pair
<1>4. CASE OnFrame
  BY <1>4, ReadNotificationStep, DiscardStep DEF OnFrame
<1>5. CASE OnEntry
  BY <1>5, SendStep, WaitOverStep, TimeoutStep, CombiEndStep, CombiStepOnStep DEF OnEntry
<1>6. CASE TimerCheck
  BY <1>6, TimerCheckStep
<1>7. CASE Moves
  BY <1>7, MovesStep
<1>8. CASE UNCHANGED vars
  BY <1>8 DEF vars, TypeRest
<1> QED  BY <1>1, <1>2, <1>3, <1>4, <1>5, <1>6, <1>7, <1>8 DEF Next, QueueCheck, Moves

-----------------------------------------------------------------------------
(* The theorems                                                            *)

(* The invariant of the queue holds in every reachable state, whatever the *)
(* commands, devices, time limits and number of retries.                   *)
THEOREM QueueInvariant == Spec => []Inductive
<1>1. Init => Inductive
  BY InitGood, InductiveParts
<1>2. Inductive /\ [Next]_vars => Inductive'
  <2>1. (Inductive <=> TypeRest /\ Good(wq, lock, jobs))'
    BY InductiveParts, PTL
  <2> QED  BY <2>1, InductiveParts, NextGood
<1> QED  BY <1>1, <1>2, PTL DEF Spec

(* Entries, answers and jobs keep their types; sequence numbers and frame  *)
(* identifiers stay in range (AddWriteQueue, Retry).                       *)
THEOREM QueueTypes == Spec => []TypeOK
<1>1. Inductive => TypeOK
  BY DEF Inductive
<1> QED  BY <1>1, QueueInvariant, PTL

(* No give-up, retry or continuation lets go of a device too early.        *)
THEOREM TransactionsHoldTheirDevice == Spec => []LockHeldByStarted
<1>1. Inductive => LockHeldByStarted
  BY DEF Inductive
<1> QED  BY <1>1, QueueInvariant, PTL

(* No path of the code leaves a device locked for ever.                    *)
THEOREM NoDeviceStaysLocked == Spec => []NoLockLeak
<1>1. Inductive => NoLockLeak
  BY DEF Inductive
<1> QED  BY <1>1, QueueInvariant, PTL

(* Two started transactions of one device would both be of the command     *)
(* that holds it, and a command has only one entry that can start.         *)
THEOREM DevicesAreExclusive == Spec => []DeviceExclusive
<1>1. Inductive => DeviceExclusive
  <2> SUFFICES ASSUME Inductive, NEW i \in Positions, NEW j \in Positions,
                      Started(wq[i]), Started(wq[j]), wq[i].step.dev = wq[j].step.dev, i # j
               PROVE  FALSE
    BY DEF DeviceExclusive
  <2>1. wq[i].seq = wq[j].seq
    BY DEF Inductive, LockHeldByStarted
  <2>2. wq[i].st # 1000 /\ wq[j].st # 1000
    BY DEF Inductive, EntryOfJob, Started
  <2> QED  BY <2>1, <2>2 DEF Inductive, OneEntryPerSequence
<1> QED  BY <1>1, QueueInvariant, PTL

(* A command has one entry that can start, so the steps of a composite     *)
(* never run beside each other (CommandCheck, ExecuteCommand).             *)
THEOREM StepsDoNotOverlap == Spec => []OneEntryPerSequence
<1>1. Inductive => OneEntryPerSequence
  BY DEF Inductive
<1> QED  BY <1>1, QueueInvariant, PTL

(* Every command that owes an answer gets one before its last entry goes.  *)
THEOREM EveryDropIsAnswered == Spec => []NoSilentDrop
<1>1. Inductive => NoSilentDrop
  BY DEF Inductive
<1> QED  BY <1>1, QueueInvariant, PTL

(* A command that has its final answer acts on no device any more.         *)
THEOREM AnswersAreFinal == Spec => []AnswerIsFinal
<1>1. Inductive => AnswerIsFinal
  <2> SUFFICES ASSUME Inductive, NEW s \in 1 .. Len(jobs)
               PROVE  /\ ~jobs[s].cmd.combi /\ Answered(s) => ~Has(s)
                      /\ jobs[s].ok > 0 => ~Has(s)
    BY DEF AnswerIsFinal
  <2>1. ASSUME NEW i \in Positions, wq[i].seq = s
        PROVE  /\ jobs[s].cmd.combi \/ ~Answered(s)
               /\ jobs[s].ok = 0
    BY <2>1 DEF Inductive, EntryOfJob
  <2> QED  BY <2>1 DEF Has
<1> QED  BY <1>1, QueueInvariant, PTL

(* A single command is told OK once or an error at most twice, never both. *)
THEOREM OutcomesAreConsistent == Spec => []OutcomeConsistent
<1>1. Inductive => OutcomeConsistent
  BY DEF Inductive
<1> QED  BY <1>1, QueueInvariant, PTL

-----------------------------------------------------------------------------
(* Whose reply a frame is                                                  *)

(* The replies that are paired by their identifier.                        *)
Solicited(q) == q.type \in {"at", "tx", "avr"}

(* A reply that bears the identifier of an entry answers its attempt.      *)
Answering(x, e) == x.frame = e.frame => x.seq = e.seq /\ x.pkt = e.pkt /\ x.try = e.retry

(* Entries bear different identifiers, and what may still arrive or has    *)
(* arrived for an identifier is for the attempt of the entry that bears it.*)
OwnReplies(w, r, a) ==
  \A i \in 1 .. Len(w) : Radio(w[i].step) =>
    /\ \A k \in 1 .. Len(w) : k # i /\ Radio(w[k].step) => w[k].frame # w[i].frame
    /\ \A x \in a : Answering(x, w[i])
    /\ \A j \in 1 .. Len(r) : Solicited(r[j]) => Answering(r[j], w[i])

(* Nothing outstanding bears identifier f.                                 *)
Unborne(f, w, r, a) ==
  /\ \A i \in 1 .. Len(w) : Radio(w[i].step) => w[i].frame # f
  /\ \A x \in a : x.frame # f
  /\ \A j \in 1 .. Len(r) : Solicited(r[j]) => r[j].frame # f

SameAttempt(e, f) == /\ e.step = f.step /\ e.frame = f.frame /\ e.seq = f.seq
                     /\ e.pkt = f.pkt /\ e.retry = f.retry
SameReply(x, y) == x.frame = y.frame /\ x.seq = y.seq /\ x.pkt = y.pkt /\ x.try = y.try

LEMMA OwnAlike ==
  ASSUME NEW w, NEW r, NEW a, OwnReplies(w, r, a), NEW v, Len(v) = Len(w),
         \A i \in 1 .. Len(w) : SameAttempt(v[i], w[i])
  PROVE  OwnReplies(v, r, a)
<1> SUFFICES ASSUME NEW i \in 1 .. Len(w), Radio(v[i].step)
             PROVE  /\ \A k \in 1 .. Len(w) : k # i /\ Radio(v[k].step) => v[k].frame # v[i].frame
                    /\ \A x \in a : Answering(x, v[i])
                    /\ \A j \in 1 .. Len(r) : Solicited(r[j]) => Answering(r[j], v[i])
  BY DEF OwnReplies
<1>1. Radio(w[i].step) /\ v[i].frame = w[i].frame
  BY DEF SameAttempt
<1>2. ASSUME NEW x, Answering(x, w[i])  PROVE Answering(x, v[i])
  BY <1>2 DEF Answering, SameAttempt
<1>3. ASSUME NEW k \in 1 .. Len(w), Radio(v[k].step)
      PROVE  Radio(w[k].step) /\ v[k].frame = w[k].frame
  BY <1>3 DEF SameAttempt
<1>4. \A k \in 1 .. Len(w) : k # i /\ Radio(v[k].step) => v[k].frame # v[i].frame
  BY <1>1, <1>3 DEF OwnReplies
<1>5. /\ \A x \in a : Answering(x, w[i])
      /\ \A j \in 1 .. Len(r) : Solicited(r[j]) => Answering(r[j], w[i])
  BY <1>1 DEF OwnReplies
<1> QED  BY <1>2, <1>4, <1>5

LEMMA OwnDrop ==
  ASSUME NEW S, NEW w \in Seq(S), NEW i \in 1 .. Len(w), NEW r, NEW a
  PROVE  /\ OwnReplies(w, r, a) => OwnReplies(RemoveAt(w, i), r, a)
         /\ \A f : Unborne(f, w, r, a) => Unborne(f, RemoveAt(w, i), r, a)
<1> DEFINE v == RemoveAt(w, i)
           from(k) == IF k < i THEN k ELSE k + 1
<1>1. Len(v) = Len(w) - 1 /\ Len(w) \in Nat /\ \A k \in 1 .. Len(v) : v[k] = w[from(k)]
  BY RemoveAtProperties, LenProperties
<1>2. \A k, l \in 1 .. Len(v) : from(k) \in 1 .. Len(w) /\ (k # l => from(k) # from(l))
  BY <1>1
<1> HIDE DEF v, from
<1>3. ASSUME OwnReplies(w, r, a)  PROVE OwnReplies(v, r, a)
  <2>1. ASSUME NEW k \in 1 .. Len(v), Radio(v[k].step)
        PROVE  /\ \A x \in a : Answering(x, v[k])
               /\ \A j \in 1 .. Len(r) : Solicited(r[j]) => Answering(r[j], v[k])
    <3>1. v[k] = w[from(k)] /\ from(k) \in 1 .. Len(w)
      BY <1>1, <1>2
    <3> QED  BY <1>3, <2>1, <3>1 DEF OwnReplies
  <2>2. ASSUME NEW k \in 1 .. Len(v), Radio(v[k].step), NEW l \in 1 .. Len(v), l # k, Radio(v[l].step)
        PROVE  v[l].frame # v[k].frame
    <3>1. /\ v[k] = w[from(k)] /\ from(k) \in 1 .. Len(w)
          /\ v[l] = w[from(l)] /\ from(l) \in 1 .. Len(w) /\ from(l) # from(k)
      BY <1>1, <1>2, <2>2
    <3> QED  BY <1>3, <2>2, <3>1 DEF OwnReplies
  <2> QED  BY <2>1, <2>2 DEF OwnReplies
<1>4. ASSUME NEW f, Unborne(f, w, r, a)  PROVE Unborne(f, v, r, a)
  BY <1>1, <1>2, <1>4 DEF Unborne
<1> QED  BY <1>3, <1>4 DEF v

LEMMA OwnFewer ==
  ASSUME NEW w, NEW r, NEW a, OwnReplies(w, r, a), NEW b, b \subseteq a, NEW q,
         \A j \in 1 .. Len(q) : Solicited(q[j]) =>
           \/ \E k \in 1 .. Len(r) : Solicited(r[k]) /\ SameReply(q[j], r[k])
           \/ \E x \in a : SameReply(q[j], x)
  PROVE  OwnReplies(w, q, b)
<1>1. ASSUME NEW i \in 1 .. Len(w), Radio(w[i].step), NEW j \in 1 .. Len(q), Solicited(q[j])
      PROVE  Answering(q[j], w[i])
  <2>1. PICK x : SameReply(q[j], x) /\ Answering(x, w[i])
    BY <1>1 DEF OwnReplies
  <2> QED  BY <2>1 DEF SameReply, Answering
<1> QED  BY <1>1 DEF OwnReplies

LEMMA OwnNew ==
  ASSUME NEW S, NEW w \in Seq(S), NEW e \in S, NEW r, NEW a, OwnReplies(w, r, a),
         Radio(e.step) => Unborne(e.frame, w, r, a)
  PROVE  OwnReplies(Append(w, e), r, a)
<1> DEFINE v == Append(w, e)
<1>1. /\ Len(v) = Len(w) + 1 /\ Len(w) \in Nat /\ v[Len(w) + 1] = e
      /\ \A k \in 1 .. Len(w) : v[k] = w[k]
  BY AppendFacts, LenProperties
<1>2. \A k \in 1 .. Len(v) : k \in 1 .. Len(w) \/ k = Len(w) + 1
  BY <1>1
<1> HIDE DEF v
<1>3. ASSUME NEW i \in 1 .. Len(v), Radio(v[i].step), NEW k \in 1 .. Len(v), k # i, Radio(v[k].step)
      PROVE  v[k].frame # v[i].frame
  BY <1>1, <1>2, <1>3 DEF OwnReplies, Unborne
<1>4. ASSUME NEW i \in 1 .. Len(v), Radio(v[i].step)
      PROVE  /\ \A x \in a : Answering(x, v[i])
             /\ \A j \in 1 .. Len(r) : Solicited(r[j]) => Answering(r[j], v[i])
  <2>1. CASE i \in 1 .. Len(w)
    <3>1. v[i] = w[i]
      BY <1>1, <2>1
    <3> QED  BY <1>4, <2>1, <3>1 DEF OwnReplies
  <2>2. CASE i = Len(w) + 1
    <3>1. v[i] = e
      BY <1>1, <2>2
    <3>2. Unborne(e.frame, w, r, a)
      BY <1>4, <3>1
    <3> QED  BY <3>1, <3>2 DEF Unborne, Answering
  <2> QED  BY <1>2, <2>1, <2>2
<1>5. OwnReplies(v, r, a)
  BY <1>3, <1>4 DEF OwnReplies
<1> QED  BY <1>5 DEF v

LEMMA ExceptFacts ==
  ASSUME NEW S, NEW w \in Seq(S), NEW i \in 1 .. Len(w), NEW e
  PROVE  /\ Len([w EXCEPT ![i] = e]) = Len(w)
         /\ [w EXCEPT ![i] = e][i] = e
         /\ \A k \in 1 .. Len(w) : k # i => [w EXCEPT ![i] = e][k] = w[k]
OBVIOUS

LEMMA OwnRenew ==
  ASSUME NEW S, NEW w \in Seq(S), NEW i \in 1 .. Len(w), NEW e, NEW r, NEW a, OwnReplies(w, r, a),
         Radio(e.step) => Unborne(e.frame, w, r, a)
  PROVE  OwnReplies([w EXCEPT ![i] = e], r, a)
<1> DEFINE v == [w EXCEPT ![i] = e]
<1>1. Len(v) = Len(w) /\ v[i] = e /\ \A k \in 1 .. Len(w) : k # i => v[k] = w[k]
  BY ExceptFacts
<1> HIDE DEF v
<1>2. ASSUME NEW j \in 1 .. Len(v), Radio(v[j].step), NEW k \in 1 .. Len(v), k # j, Radio(v[k].step)
      PROVE  v[k].frame # v[j].frame
  BY <1>1, <1>2 DEF OwnReplies, Unborne
<1>3. ASSUME NEW k \in 1 .. Len(v), Radio(v[k].step)
      PROVE  /\ \A x \in a : Answering(x, v[k])
             /\ \A j \in 1 .. Len(r) : Solicited(r[j]) => Answering(r[j], v[k])
  BY <1>1, <1>3 DEF OwnReplies, Unborne, Answering
<1>4. OwnReplies(v, r, a)
  BY <1>2, <1>3 DEF OwnReplies
<1> QED  BY <1>4 DEF v

LEMMA OwnSent ==
  ASSUME NEW w, NEW r, NEW a, OwnReplies(w, r, a), NEW i \in 1 .. Len(w), Radio(w[i].step)
  PROVE  OwnReplies(w, r, a \cup Answers(w[i]))
<1>1. \A x \in Answers(w[i]) : x.frame = w[i].frame /\ Answering(x, w[i])
  BY DEF Answers, Answering
<1>2. ASSUME NEW k \in 1 .. Len(w), Radio(w[k].step), NEW x \in Answers(w[i])
      PROVE  Answering(x, w[k])
  <2>1. k # i => w[k].frame # w[i].frame
    BY <1>2 DEF OwnReplies
  <2>2. x.frame = w[i].frame /\ Answering(x, w[i])
    BY <1>1
  <2> QED  BY <2>1, <2>2 DEF Answering
<1> QED  BY <1>2 DEF OwnReplies

(* What leaves the read queue.                                             *)
LEMMA OwnTaken ==
  ASSUME NEW w, NEW S, NEW r \in Seq(S), NEW j \in 1 .. Len(r), NEW a, OwnReplies(w, r, a)
  PROVE  OwnReplies(w, RemoveAt(r, j), a)
<1> DEFINE q == RemoveAt(r, j)
           from(k) == IF k < j THEN k ELSE k + 1
<1>1. Len(q) = Len(r) - 1 /\ Len(r) \in Nat /\ \A k \in 1 .. Len(q) : q[k] = r[from(k)]
  BY RemoveAtProperties, LenProperties
<1>2. \A k \in 1 .. Len(q) : from(k) \in 1 .. Len(r)
  BY <1>1
<1> HIDE DEF q, from
<1>3. \A k \in 1 .. Len(q) : Solicited(q[k]) =>
        \E l \in 1 .. Len(r) : Solicited(r[l]) /\ SameReply(q[k], r[l])
  BY <1>1, <1>2 DEF SameReply
<1>4. OwnReplies(w, q, a)
  BY <1>3, OwnFewer
<1> QED  BY <1>4 DEF q

(* The invariant, and when an identifier is drawn.                         *)
Own == TypeOK /\ OwnReplies(wq, rq, air)
DrawnUnborne == FrameID' # FrameID => Unborne(FrameID, wq, rq, air)

LEMMA Drawn ==
  ASSUME TypeOK, FrameMax > 1, DrawnUnborne, FrameID' = NextFrame
  PROVE  Unborne(FrameID, wq, rq, air)
<1>1. NextFrame # FrameID
  BY ConstantsAssumption DEF TypeOK, NextFrame
<1> QED  BY <1>1 DEF DrawnUnborne

LEMMA OwnParts ==
  Own <=> /\ wq \in Seq(Entry) /\ rq \in Seq(Frame) /\ TypeOK
          /\ OwnReplies(wq, rq, air)
BY DEF Own, TypeOK

(* A new entry takes the identifier that was drawn.                        *)
LEMMA NewIsOwn ==
  ASSUME TypeOK, NEW w \in Seq(Entry), OwnReplies(w, rq, air), NEW s \in Nat \ {0}, NEW step \in Steps,
         NEW sub \in BOOLEAN, NEW pkt \in Nat, NEW wait \in Nat,
         Radio(step) => Unborne(FrameID, w, rq, air)
  PROVE  OwnReplies(Append(w, NewEntry(s, step, sub, pkt, wait)), rq, air)
<1> DEFINE e == NewEntry(s, step, sub, pkt, wait)
<1>1. e \in Entry
  BY NewEntryType
<1>2. e.step = step /\ (Radio(step) => e.frame = FrameID)
  BY DEF NewEntry
<1> HIDE DEF e
<1>3. Radio(e.step) => Unborne(e.frame, w, rq, air)
  BY <1>2
<1>4. OwnReplies(Append(w, e), rq, air)
  BY <1>1, <1>3, OwnNew
<1> QED  BY <1>4 DEF e

LEMMA StartOwn ==
  ASSUME Own, FrameMax > 1, DrawnUnborne, NEW c \in Commands, NEW client \in BOOLEAN, Start(c, client)
  PROVE  OwnReplies(wq', rq, air)
<1>1. wq \in Seq(Entry) /\ OwnReplies(wq, rq, air) /\ TypeOK
  BY OwnParts
<1>2. c.steps[1] \in Steps /\ WaitTime(c.steps[1]) \in Nat /\ c.steps \in Seq(Steps)
  BY StepTypes
<1>3. NextSeq \in Nat \ {0}
  BY <1>1 DEF TypeOK, NextSeq
<1>4. CASE c.combi
  <2> DEFINE e == CombiEntry(NextSeq, c.steps)
  <2>1. wq' = Append(wq, e)
    BY <1>4 DEF Start
  <2>2. ~Radio(e.step)
    BY DEF CombiEntry, CombiStep, Radio
  <2>3. e \in Entry
    <3>1. CombiStep \in Steps
      BY ConstantsAssumption DEF CombiStep, Steps, StepKinds
    <3>2. 0 \in 0 .. FrameMax /\ 1000 \in State
      BY ConstantsAssumption DEF State
    <3> QED  BY <1>2, <1>3, <3>1, <3>2 DEF CombiEntry, Entry
  <2> HIDE DEF e
  <2> QED  BY <1>1, <2>1, <2>2, <2>3, OwnNew
<1>5. CASE ~c.combi /\ Queued(c.steps[1])
  <2>1. wq' = Append(wq, NewEntry(NextSeq, c.steps[1], FALSE, 0, WaitTime(c.steps[1])))
    BY <1>5 DEF Start
  <2>2. Radio(c.steps[1]) => Unborne(FrameID, wq, rq, air)
    <3>1. Radio(c.steps[1]) => FrameID' = NextFrame
      BY <1>5 DEF Start
    <3> QED  BY <1>1, <3>1, Drawn
  <2> QED  BY <1>1, <1>2, <1>3, <2>1, <2>2, NewIsOwn
<1>6. CASE ~c.combi /\ ~Queued(c.steps[1])
  BY <1>1, <1>6 DEF Start
<1> QED  BY <1>4, <1>5, <1>6

(* What the ports bring.                                                   *)
LEMMA PortsOwn ==
  ASSUME Own, FrameMax > 1, DrawnUnborne, Ports
  PROVE  OwnReplies(wq', rq', air')
<1>1. wq \in Seq(Entry) /\ rq \in Seq(Frame) /\ OwnReplies(wq, rq, air) /\ TypeOK
  BY OwnParts
<1>2. ASSUME NEW c \in Commands, Submit(c)  PROVE OwnReplies(wq', rq', air')
  BY <1>2, StartOwn DEF Submit
<1>3. ASSUME NEW r \in air, NEW known \in BOOLEAN, Receive(r, known)
      PROVE  OwnReplies(wq', rq', air')
  <2> DEFINE q == [type |-> r.type, frame |-> r.frame, dev |-> r.dev, seq |-> r.seq,
                   pkt |-> r.pkt, try |-> r.try, age |-> 0, cmd |-> NoCommand]
  <2>1. rq' = Append(rq, q) /\ air' = air \ {r} /\ wq' = wq
    BY <1>3 DEF Receive, Arrive
  <2>2. SameReply(q, r) /\ q \in Frame
    <3>1. r \in Reply
      BY <1>1 DEF TypeOK
    <3> QED  BY <3>1 DEF SameReply, Reply, Frame
  <2> HIDE DEF q
  <2>3. /\ Len(rq') = Len(rq) + 1 /\ Len(rq) \in Nat /\ rq'[Len(rq) + 1] = q
        /\ \A k \in 1 .. Len(rq) : rq'[k] = rq[k]
    BY <1>1, <2>1, <2>2, AppendFacts, LenProperties
  <2>4. ASSUME NEW j \in 1 .. Len(rq'), Solicited(rq'[j])
        PROVE  \/ \E k \in 1 .. Len(rq) : Solicited(rq[k]) /\ SameReply(rq'[j], rq[k])
               \/ \E x \in air : SameReply(rq'[j], x)
    <3>1. CASE j \in 1 .. Len(rq)
      BY <2>3, <2>4, <3>1 DEF SameReply
    <3>2. CASE j = Len(rq) + 1
      BY <2>2, <2>3, <3>2
    <3> QED  BY <2>3, <3>1, <3>2
  <2>5. air' \subseteq air
    BY <2>1
  <2> QED  BY <1>1, <2>1, <2>4, <2>5, OwnFewer
<1>4. ASSUME NEW d \in Devices, NEW n \in Notices, Notify(d, n)
      PROVE  OwnReplies(wq', rq', air')
  <2> DEFINE q == [type |-> n.type, frame |-> 0, dev |-> d, seq |-> 0, pkt |-> 0, try |-> 0,
                   age |-> 0, cmd |-> n.cmd]
  <2>1. rq' = Append(rq, q) /\ air' = air /\ wq' = wq
    BY <1>4 DEF Notify, Arrive
  <2>2. ~Solicited(q) /\ q \in Frame
    <3>1. n \in [type: {"keypad", "boot", "status"}, cmd: Commands \cup {NoCommand}]
      BY ConstantsAssumption
    <3>2. ~Solicited(q)
      BY <3>1 DEF Solicited
    <3> QED  BY <3>1, <3>2, ConstantsAssumption DEF Frame
  <2> HIDE DEF q
  <2>3. /\ Len(rq') = Len(rq) + 1 /\ Len(rq) \in Nat /\ rq'[Len(rq) + 1] = q
        /\ \A k \in 1 .. Len(rq) : rq'[k] = rq[k]
    BY <1>1, <2>1, <2>2, AppendFacts, LenProperties
  <2>4. ASSUME NEW j \in 1 .. Len(rq'), Solicited(rq'[j])
        PROVE  \E k \in 1 .. Len(rq) : Solicited(rq[k]) /\ SameReply(rq'[j], rq[k])
    <3>1. j \in 1 .. Len(rq)
      BY <2>2, <2>3, <2>4
    <3> QED  BY <2>3, <2>4, <3>1 DEF SameReply
  <2> QED  BY <1>1, <2>1, <2>4, OwnFewer
<1> QED  BY <1>2, <1>3, <1>4 DEF Ports

(* A transaction that ends, or is tried again.                             *)
LEMMA FinishedOwn ==
  ASSUME Own, NEW i, NEW j, FirstPair(i, j), NEW answers, Finished(i, j, answers)
  PROVE  OwnReplies(wq', rq', air')
<1>1. wq \in Seq(Entry) /\ rq \in Seq(Frame) /\ OwnReplies(wq, rq, air)
  BY OwnParts
<1>2. i \in 1 .. Len(wq) /\ j \in 1 .. Len(rq)
  BY DEF FirstPair, Pairable
<1>3. wq' = RemoveAt(wq, i) /\ rq' = RemoveAt(rq, j) /\ air' = air
  BY DEF Finished, Drop
<1>4. OwnReplies(RemoveAt(wq, i), rq, air)
  BY <1>1, <1>2, OwnDrop
<1> QED  BY <1>1, <1>2, <1>3, <1>4, OwnTaken

LEMMA TryAgainOwn ==
  ASSUME Own, FrameMax > 1, DrawnUnborne, NEW i, NEW j, FirstPair(i, j), NEW delay,
         TryAgain(i, j, delay)
  PROVE  OwnReplies(wq', rq', air')
<1>1. wq \in Seq(Entry) /\ rq \in Seq(Frame) /\ OwnReplies(wq, rq, air) /\ TypeOK
  BY OwnParts
<1>2. i \in 1 .. Len(wq) /\ j \in 1 .. Len(rq)
  BY DEF FirstPair, Pairable
<1> DEFINE e == Resend(wq[i], delay)
<1>3. wq' = [wq EXCEPT ![i] = e] /\ rq' = RemoveAt(rq, j) /\ air' = air /\ FrameID' = NextFrame
  BY DEF TryAgain
<1>4. e.frame = FrameID
  <2>1. wq[i] \in Entry
    BY <1>1, <1>2, ElementOfSeq
  <2> QED  BY <2>1 DEF Resend, Entry
<1>5. Unborne(FrameID, wq, rq, air)
  BY <1>1, <1>3, Drawn
<1> HIDE DEF e
<1>6. OwnReplies([wq EXCEPT ![i] = e], rq, air)
  BY <1>1, <1>2, <1>4, <1>5, OwnRenew
<1> QED  BY <1>1, <1>2, <1>3, <1>6, OwnTaken

LEMMA PairOwn ==
  ASSUME Own, FrameMax > 1, DrawnUnborne, Pair
  PROVE  OwnReplies(wq', rq', air')
<1>1. wq \in Seq(Entry) /\ rq \in Seq(Frame) /\ OwnReplies(wq, rq, air) /\ TypeOK
  BY OwnParts
<1>2. ASSUME NEW i, NEW j, NEW good \in BOOLEAN, PairEnd(i, j, good)
      PROVE  OwnReplies(wq', rq', air')
  BY <1>2, FinishedOwn DEF PairEnd
<1>3. ASSUME NEW i, NEW j, PairNext(i, j)  PROVE OwnReplies(wq', rq', air')
  <2> DEFINE e == wq[i]
             w == RemoveAt(wq, i)
  <2>1. i \in 1 .. Len(wq) /\ j \in 1 .. Len(rq)
    BY <1>3 DEF PairNext, FirstPair, Pairable
  <2>2. /\ wq' = Append(w, NewEntry(e.seq, e.step, e.sub, e.pkt + 1, e.step.gap))
        /\ rq' = RemoveAt(rq, j) /\ FrameID' = NextFrame /\ air' = air
    BY <1>3 DEF PairNext
  <2>3. /\ e.seq \in Nat \ {0} /\ e.step \in Steps /\ e.sub \in BOOLEAN /\ e.pkt + 1 \in Nat
        /\ e.step.gap \in Nat
    <3>1. e \in Entry
      BY <1>1, <2>1, ElementOfSeq
    <3>2. e.seq \in Nat \ {0} /\ e.step \in Steps /\ e.sub \in BOOLEAN /\ e.pkt \in Nat
      BY <3>1 DEF Entry
    <3> QED  BY <3>2 DEF Steps
  <2>4. Unborne(FrameID, wq, rq, air)
    BY <1>1, <2>2, Drawn
  <2>5. OwnReplies(w, rq, air) /\ Unborne(FrameID, w, rq, air) /\ w \in Seq(Entry)
    BY <1>1, <2>1, <2>4, OwnDrop, RemoveAtProperties
  <2> HIDE DEF e, w
  <2>6. OwnReplies(wq', rq, air)
    BY <1>1, <2>2, <2>3, <2>5, NewIsOwn
  <2> QED  BY <1>1, <2>1, <2>2, <2>6, OwnTaken
<1>4. ASSUME NEW i, NEW j, NEW retry \in BOOLEAN, PairError(i, j, retry)
      PROVE  OwnReplies(wq', rq', air')
  BY <1>4, FinishedOwn, TryAgainOwn DEF PairError
<1>5. ASSUME NEW i, NEW j, Delivered(i, j)  PROVE OwnReplies(wq', rq', air')
  <2>1. j \in 1 .. Len(rq) /\ wq' = wq /\ rq' = RemoveAt(rq, j) /\ air' = air
    BY <1>5 DEF Delivered, FirstPair, Pairable
  <2> QED  BY <1>1, <2>1, OwnTaken
<1>6. ASSUME NEW i, NEW j, NEW noaddr \in BOOLEAN, NotDelivered(i, j, noaddr)
      PROVE  OwnReplies(wq', rq', air')
  BY <1>6, FinishedOwn, TryAgainOwn DEF NotDelivered
<1> QED  BY <1>2, <1>3, <1>4, <1>5, <1>6 DEF Pair

LEMMA SameLength ==
  ASSUME NEW S, NEW v \in Seq(S), NEW n \in Nat, DOMAIN v = 1 .. n
  PROVE  Len(v) = n
<1>1. Len(v) \in Nat /\ 1 .. Len(v) = 1 .. n
  BY LenProperties
<1>2. Len(v) > n => Len(v) \in 1 .. Len(v) /\ Len(v) \notin 1 .. n
  BY <1>1
<1>3. n > Len(v) => n \in 1 .. n /\ n \notin 1 .. Len(v)
  BY <1>1
<1> QED  BY <1>1, <1>2, <1>3

(* Time passes, and delays begin.                                          *)
LEMMA TickOwn ==
  ASSUME Own, TypeOK', Tick
  PROVE  OwnReplies(wq', rq', air')
<1>1. wq \in Seq(Entry) /\ rq \in Seq(Frame) /\ OwnReplies(wq, rq, air)
  BY OwnParts
<1>2. /\ wq' = [i \in 1 .. Len(wq) |-> Older(wq[i])]
      /\ rq' = [j \in 1 .. Len(rq) |-> [rq[j] EXCEPT !.age = @ + 1]] /\ air' = air
  BY DEF Tick
<1>3. Len(wq') = Len(wq) /\ Len(rq') = Len(rq)
  <2>1. wq' = [i \in 1 .. Len(wq) |-> Older(wq[i])] /\ Len(wq) \in Nat
    BY <1>1, <1>2, LenProperties
  <2>2. rq' = [j \in 1 .. Len(rq) |-> [rq[j] EXCEPT !.age = @ + 1]] /\ Len(rq) \in Nat
    BY <1>1, <1>2, LenProperties
  <2>3. Len(wq') = Len(wq)
    <3>1. wq' \in Seq(Entry) /\ DOMAIN wq' = 1 .. Len(wq)
      BY <2>1 DEF TypeOK
    <3> QED  BY <2>1, <3>1, SameLength
  <2>4. Len(rq') = Len(rq)
    BY <2>2
  <2> QED  BY <2>3, <2>4
<1>4. ASSUME NEW i \in 1 .. Len(wq)  PROVE SameAttempt(wq'[i], wq[i])
  <2>1. wq'[i] = Older(wq[i]) /\ wq[i] \in Entry
    BY <1>1, <1>2, ElementOfSeq
  <2> QED  BY <2>1 DEF Older, Entry, SameAttempt
<1>5. ASSUME NEW j \in 1 .. Len(rq'), Solicited(rq'[j])
      PROVE  \E k \in 1 .. Len(rq) : Solicited(rq[k]) /\ SameReply(rq'[j], rq[k])
  <2>1. j \in 1 .. Len(rq) /\ rq'[j] = [rq[j] EXCEPT !.age = @ + 1]
    BY <1>2, <1>3
  <2>2. rq[j] \in Frame
    BY <1>1, <2>1, ElementOfSeq
  <2>3. Solicited(rq[j]) /\ SameReply(rq'[j], rq[j])
    BY <1>5, <2>1, <2>2 DEF Frame, Solicited, SameReply
  <2> QED  BY <2>1, <2>3
<1>6. OwnReplies(wq', rq, air)
  BY <1>1, <1>3, <1>4, OwnAlike
<1> QED  BY <1>2, <1>5, <1>6, OwnFewer

LEMMA TimerOwn ==
  ASSUME Own, TypeOK', TimerCheck
  PROVE  OwnReplies(wq', rq', air')
<1>1. wq \in Seq(Entry) /\ OwnReplies(wq, rq, air)
  BY OwnParts
<1>2. /\ wq' = [i \in 1 .. Len(wq) |->
              IF wq[i].st = 0 THEN [wq[i] EXCEPT !.st = 1, !.t = wq[i].wait] ELSE wq[i]]
      /\ rq' = rq /\ air' = air
  BY DEF TimerCheck
<1>3. Len(wq') = Len(wq)
  <2>1. wq' \in Seq(Entry) /\ Len(wq) \in Nat
    BY <1>1, LenProperties DEF TypeOK
  <2>2. DOMAIN wq' = 1 .. Len(wq)
    BY <1>2
  <2> QED  BY <2>1, <2>2, SameLength
<1>4. ASSUME NEW i \in 1 .. Len(wq)  PROVE SameAttempt(wq'[i], wq[i])
  <2>1. /\ wq'[i] = IF wq[i].st = 0 THEN [wq[i] EXCEPT !.st = 1, !.t = wq[i].wait] ELSE wq[i]
        /\ wq[i] \in Entry
    BY <1>1, <1>2, ElementOfSeq
  <2> QED  BY <2>1 DEF Entry, SameAttempt
<1> QED  BY <1>1, <1>2, <1>3, <1>4, OwnAlike

(* What the walks over the queues do.                                      *)
LEMMA FrameOwn ==
  ASSUME Own, FrameMax > 1, DrawnUnborne, OnFrame
  PROVE  OwnReplies(wq', rq', air')
<1>1. rq \in Seq(Frame) /\ OwnReplies(wq, rq, air)
  BY OwnParts
<1>2. PICK j \in 1 .. Len(rq) : ReadNotification(j) \/ Discard(j)
  BY DEF OnFrame
<1>3. rq' = RemoveAt(rq, j) /\ air' = air
  BY <1>2 DEF ReadNotification, Discard
<1>4. OwnReplies(wq', rq, air)
  <2>1. CASE Discard(j)
    BY <1>1, <2>1 DEF Discard
  <2>2. CASE ReadNotification(j) /\ rq[j].cmd = NoCommand
    BY <1>1, <2>2 DEF ReadNotification
  <2>3. CASE ReadNotification(j) /\ rq[j].cmd # NoCommand
    <3>1. rq[j].cmd \in Commands
      <4>1. rq[j] \in Frame
        BY <1>1, ElementOfSeq
      <4> QED  BY <2>3, <4>1 DEF Frame
    <3> QED  BY <2>3, <3>1, StartOwn DEF ReadNotification
  <2> QED  BY <1>2, <2>1, <2>2, <2>3
<1> QED  BY <1>1, <1>3, <1>4, OwnTaken

LEMMA EntryOwn ==
  ASSUME Own, FrameMax > 1, DrawnUnborne, OnEntry
  PROVE  OwnReplies(wq', rq', air')
<1>1. wq \in Seq(Entry) /\ OwnReplies(wq, rq, air) /\ TypeOK
  BY OwnParts
<1>2. PICK i \in 1 .. Len(wq) : Send(i) \/ WaitOver(i) \/ Timeout(i) \/ CombiEnd(i) \/ CombiStepOn(i)
  BY DEF OnEntry
<1>3. wq[i] \in Entry /\ rq' = rq
  BY <1>1, <1>2, ElementOfSeq DEF Send, WaitOver, Timeout, CombiEnd, CombiStepOn
<1>4. CASE Send(i)
  <2>1. /\ wq' = [wq EXCEPT ![i] = [[wq[i] EXCEPT !.st = 2] EXCEPT !.t = 0]]
        /\ air' = air \cup Answers(wq[i]) /\ Radio(wq[i].step)
    BY <1>1, <1>4 DEF Send
  <2>2. Len(wq') = Len(wq)
    BY <1>1, <2>1
  <2>3. ASSUME NEW k \in 1 .. Len(wq)  PROVE SameAttempt(wq'[k], wq[k])
    <3>1. CASE k = i
      <4> DEFINE f == [[wq[i] EXCEPT !.st = 2] EXCEPT !.t = 0]
      <4>1. wq' = [wq EXCEPT ![i] = f]
        BY <2>1
      <4> HIDE DEF f
      <4>2. wq'[i] = f
        BY <1>1, <4>1, ExceptFacts
      <4> QED  BY <1>3, <3>1, <4>2 DEF Entry, SameAttempt, f
    <3>2. CASE k # i
      BY <1>1, <2>1, <3>2 DEF SameAttempt
    <3> QED  BY <3>1, <3>2
  <2>4. OwnReplies(wq, rq, air')
    BY <1>1, <2>1, OwnSent
  <2> QED  BY <1>3, <2>2, <2>3, <2>4, OwnAlike
<1>5. CASE WaitOver(i) \/ CombiEnd(i)
  <2>1. wq' = RemoveAt(wq, i) /\ air' = air
    BY <1>5 DEF WaitOver, CombiEnd
  <2> QED  BY <1>1, <1>3, <2>1, OwnDrop
<1>6. CASE Timeout(i)
  <2>1. air' = air /\ FrameID' = NextFrame
    BY <1>6 DEF Timeout
  <2>2. CASE Exhausted(wq[i])
    <3>1. wq' = RemoveAt(wq, i)
      BY <1>6, <2>2 DEF Timeout
    <3> QED  BY <1>1, <1>3, <2>1, <3>1, OwnDrop
  <2>3. CASE ~Exhausted(wq[i])
    <3> DEFINE e == Resend(wq[i], 0)
    <3>1. wq' = [wq EXCEPT ![i] = e]
      BY <1>6, <2>3 DEF Timeout
    <3>2. e.frame = FrameID
      BY <1>3 DEF Resend, Entry
    <3>3. Unborne(FrameID, wq, rq, air)
      BY <1>1, <2>1, Drawn
    <3> HIDE DEF e
    <3>4. OwnReplies([wq EXCEPT ![i] = e], rq, air)
      BY <1>1, <3>2, <3>3, OwnRenew
    <3> QED  BY <1>3, <2>1, <3>1, <3>4
  <2> QED  BY <2>2, <2>3
<1>7. CASE CombiStepOn(i)
  <2> DEFINE e    == wq[i]
             step == Head(e.rest)
             w    == [wq EXCEPT ![i] = [e EXCEPT !.rest = Tail(e.rest)]]
  <2>1. /\ wq' = IF Queued(step) THEN Append(w, NewEntry(e.seq, step, TRUE, 0, WaitTime(step))) ELSE w
        /\ FrameID' = IF Radio(step) THEN NextFrame ELSE FrameID
        /\ air' = air /\ e.rest # << >>
    <3>1. [wq EXCEPT ![i].rest = Tail(e.rest)] = w
      BY <1>1
    <3> QED  BY <1>7, <3>1 DEF CombiStepOn
  <2>2. e.rest \in Seq(Steps) /\ e.seq \in Nat \ {0}
    BY <1>3 DEF Entry
  <2>3. step \in Steps /\ Tail(e.rest) \in Seq(Steps)
    BY <2>1, <2>2, HeadTailProperties
  <2>4. WaitTime(step) \in Nat
    BY <2>3 DEF WaitTime, Steps
  <2>5. [e EXCEPT !.rest = Tail(e.rest)] \in Entry
    BY <1>3, <2>3 DEF Entry
  <2>6. w \in Seq(Entry) /\ Len(w) = Len(wq)
    BY <1>1, <2>5, ExceptSeq
  <2>7. ASSUME NEW k \in 1 .. Len(wq)  PROVE SameAttempt(w[k], wq[k])
    <3>1. CASE k = i
      <4> DEFINE f == [e EXCEPT !.rest = Tail(e.rest)]
      <4>1. w = [wq EXCEPT ![i] = f]
        OBVIOUS
      <4> HIDE DEF f, w
      <4>2. w[i] = f
        BY <1>1, <4>1, ExceptFacts
      <4> QED  BY <1>3, <3>1, <4>2 DEF Entry, SameAttempt, f
    <3>2. CASE k # i
      BY <1>1, <3>2 DEF SameAttempt
    <3> QED  BY <3>1, <3>2
  <2> HIDE DEF w, e, step
  <2>8. OwnReplies(w, rq, air)
    BY <1>1, <2>6, <2>7, OwnAlike
  <2>9. ASSUME Radio(step)  PROVE Unborne(FrameID, w, rq, air)
    <3>1. Unborne(FrameID, wq, rq, air)
      BY <1>1, <2>1, <2>9, Drawn
    <3> QED  BY <2>6, <2>7, <3>1 DEF Unborne, SameAttempt
  <2>10. OwnReplies(Append(w, NewEntry(e.seq, step, TRUE, 0, WaitTime(step))), rq, air)
    <3>1. TRUE \in BOOLEAN /\ 0 \in Nat
      OBVIOUS
    <3> QED  BY <1>1, <2>2, <2>3, <2>4, <2>6, <2>8, <2>9, <3>1, NewIsOwn
  <2> QED  BY <1>3, <2>1, <2>8, <2>10
<1> QED  BY <1>2, <1>4, <1>5, <1>6, <1>7

(* A frame is paired with the very attempt it answers, as long as no       *)
(* identifier comes round again while a reply to it may still arrive, or   *)
(* an entry bears it: that is all the one-byte counter FrameID must        *)
(* guarantee (AddWriteQueue, Retry).                                       *)
THEOREM FramesFindTheirAttempt ==
  ASSUME FrameMax > 1
  PROVE  Spec /\ [][DrawnUnborne]_FrameID => []PairsOwnAttempt
<1> USE FrameMax > 1
<1>1. Init => OwnReplies(wq, rq, air)
  BY DEF Init, OwnReplies
<1>2. TypeOK /\ TypeOK' /\ OwnReplies(wq, rq, air) /\ [Next]_vars /\ [DrawnUnborne]_FrameID
        => OwnReplies(wq, rq, air)'
  <2> SUFFICES ASSUME TypeOK, TypeOK', OwnReplies(wq, rq, air), [Next]_vars, [DrawnUnborne]_FrameID
               PROVE  OwnReplies(wq, rq, air)'
    OBVIOUS
  <2>1. Own /\ DrawnUnborne
    BY DEF Own, DrawnUnborne
  <2>2. CASE Moves \/ UNCHANGED vars
    <3>1. UNCHANGED <<wq, rq, air>>
      BY <2>2 DEF Moves, Wakeup, PairDone, ReadDone, SendDone, TimeoutDone, DiscardDone, CommandDone, vars
    <3> QED  BY <3>1
  <2>3. CASE Ports \/ Pair \/ OnFrame \/ OnEntry
    BY <2>1, <2>3, PortsOwn, PairOwn, FrameOwn, EntryOwn
  <2>4. CASE Tick \/ TimerCheck
    BY <2>1, <2>4, TickOwn, TimerOwn
  <2> QED  BY <2>2, <2>3, <2>4 DEF Next, QueueCheck, Moves
<1>3. Inductive /\ OwnReplies(wq, rq, air) => PairsOwnAttempt
  <2> SUFFICES ASSUME Inductive, OwnReplies(wq, rq, air), NEW i \in Positions, NEW j \in 1 .. Len(rq),
                      Pairable(i, j)
               PROVE  rq[j].seq = wq[i].seq /\ rq[j].pkt = wq[i].pkt /\ rq[j].try = wq[i].retry
    BY DEF PairsOwnAttempt
  <2>1. i \in 1 .. Len(wq) /\ Solicited(rq[j]) /\ wq[i].st = 2 /\ wq[i].frame = rq[j].frame
    BY DEF Pairable, Matches, Solicited, Positions
  <2>2. Radio(wq[i].step)
    BY <2>1 DEF Inductive, EntryOfJob
  <2> QED  BY <2>1, <2>2 DEF OwnReplies, Answering
<1> QED  BY <1>1, <1>2, <1>3, QueueInvariant, QueueTypes, PTL DEF Spec
=============================================================================

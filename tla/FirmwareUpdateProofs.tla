------------------------ MODULE FirmwareUpdateProofs ------------------------
(***************************************************************************)
(* Proofs about FirmwareUpdate.  The invariant speaks of one device at a   *)
(* time (Sound); only the ownership of the line relates devices.  A step   *)
(* changes one device, and FWUpdateCheck appends to the chains of others   *)
(* without touching the chain that runs.                                   *)
(***************************************************************************)
EXTENDS FirmwareUpdate, SequenceTheorems, TLAPS

Initial == {"NodeId", "Reboot4"}
(* The step in progress; a device without chains counts as one that is     *)
(* about to begin.                                                         *)
Stage(q) == IF q = << >> THEN "NodeId" ELSE q[1].stage
(* Chains that wait have not begun.                                        *)
Waiting(q) == \A i \in 2 .. Len(q) : q[i].stage \in Initial

Sound(q, f, m, i) ==
  /\ q \in Seq(Chain) /\ f \in 0 .. 3
  /\ m \in {"firmware", "boot"} /\ i \in {"old", "new", "partial"}
  /\ Waiting(q)
  /\ Stage(q) \in {"Reboot", "GetVer3"} => i = "new"
  /\ Stage(q) \in {"Page", "LastPage"} => f # 3
  /\ i = "partial" => f # 3 /\ m = "boot"
  /\ ~ErrorReplies /\ i = "partial" => Stage(q) \in {"Page", "LastPage"} \/ f \in {0, 1}

(* Who may write to devices: nobody but the owner of the line.             *)
Owns(c, owner) == ~FlowCtrl => \A d \in Devices : Stage(c[d]) \in Updating => owner = d

Functions ==
  /\ flag \in [Devices -> 0 .. 3] /\ FWVer \in [Devices -> Versions]
  /\ FWUpdateDevice \in Devices \cup {NoDevice}
  /\ chains \in [Devices -> Seq(Chain)]
  /\ mode \in [Devices -> {"firmware", "boot"}]
  /\ image \in [Devices -> {"old", "new", "partial"}]
  /\ updates \in 0 .. MaxUpdates /\ restarts \in 0 .. MaxRestarts

Inv ==
  /\ Functions
  /\ \A d \in Devices : Sound(chains[d], flag[d], mode[d], image[d])
  /\ Owns(chains, FWUpdateDevice)

-----------------------------------------------------------------------------
(* Queues of chains                                                        *)

LEMMA StepType == ASSUME NEW s \in Stages, NEW p \in Nat
                  PROVE  Step(s, p) \in Chain /\ Step(s, p).stage = s
BY DEF Step, Chain

(* A chain that is queued does not disturb the one that runs.              *)
LEMMA Queue ==
  ASSUME NEW q \in Seq(Chain), Waiting(q), NEW s \in Initial
  PROVE  /\ Append(q, Step(s, 0)) \in Seq(Chain)
         /\ Waiting(Append(q, Step(s, 0)))
         /\ \/ Stage(Append(q, Step(s, 0))) = Stage(q)
            \/ q = << >> /\ Stage(Append(q, Step(s, 0))) \in Initial
<1>1. s \in Stages
  BY DEF Initial, Stages
<1>2. Step(s, 0) \in Chain /\ Step(s, 0).stage = s
  BY <1>1, StepType
<1> DEFINE x == Step(s, 0)
<1> HIDE DEF x
<1>3. Append(q, x) \in Seq(Chain) /\ Len(Append(q, x)) = Len(q) + 1 /\ x.stage \in Initial
  BY <1>2 DEF x
<1>4. Waiting(Append(q, x))
  <2> SUFFICES ASSUME NEW i \in 2 .. Len(q) + 1  PROVE Append(q, x)[i].stage \in Initial
    BY <1>3 DEF Waiting
  <2>1. CASE i = Len(q) + 1
    BY <2>1, <1>3
  <2>2. CASE i # Len(q) + 1
    <3>1. i \in 2 .. Len(q) /\ Append(q, x)[i] = q[i]
      BY <2>2
    <3> QED  BY <3>1 DEF Waiting
  <2> QED  BY <2>1, <2>2
<1>5. Stage(Append(q, x)) = Stage(q) \/ (q = << >> /\ Stage(Append(q, x)) \in Initial)
  <2>0. Append(q, x) # << >>
    BY <1>3, EmptySeq
  <2>1. CASE q = << >>
    <3>1. Append(q, x)[1] = x
      BY <2>1
    <3> QED  BY <2>0, <2>1, <3>1, <1>3 DEF Stage
  <2>2. CASE q # << >>
    <3>1. Append(q, x)[1] = q[1]
      BY <2>2
    <3> QED  BY <2>0, <2>2, <3>1 DEF Stage
  <2> QED  BY <2>1, <2>2
<1> QED  BY <1>3, <1>4, <1>5 DEF x

(* A chain that ends makes way for one that has not begun.                 *)
LEMMA Dequeue ==
  ASSUME NEW q \in Seq(Chain), q # << >>, Waiting(q)
  PROVE  /\ Tail(q) \in Seq(Chain) /\ Waiting(Tail(q)) /\ Stage(Tail(q)) \in Initial
<1>1. Tail(q) \in Seq(Chain) /\ Len(Tail(q)) = Len(q) - 1
  OBVIOUS
<1>2. \A i \in 1 .. Len(q) - 1 : Tail(q)[i] = q[i + 1] /\ i + 1 \in 2 .. Len(q)
  OBVIOUS
<1>3. Waiting(Tail(q))
  BY <1>1, <1>2 DEF Waiting
<1>4. CASE Tail(q) = << >>
  BY <1>1, <1>3, <1>4 DEF Stage, Initial
<1>5. CASE Tail(q) # << >>
  <2>1. Len(q) - 1 >= 1
    BY <1>1, <1>5
  <2>2. Tail(q)[1].stage \in Initial
    BY <1>2, <2>1 DEF Waiting
  <2> QED  BY <1>1, <1>3, <1>5, <2>2 DEF Stage
<1> QED  BY <1>4, <1>5

(* A chain that goes on leaves the waiting ones where they are.            *)
LEMMA Forward ==
  ASSUME NEW q \in Seq(Chain), q # << >>, Waiting(q), NEW x \in Chain
  PROVE  /\ <<x>> \o Tail(q) \in Seq(Chain) /\ Waiting(<<x>> \o Tail(q))
         /\ Stage(<<x>> \o Tail(q)) = x.stage
<1>1. Tail(q) \in Seq(Chain) /\ Len(Tail(q)) = Len(q) - 1
  OBVIOUS
<1>2. <<x>> \in Seq(Chain) /\ Len(<<x>>) = 1 /\ <<x>>[1] = x
  OBVIOUS
<1> DEFINE r == <<x>> \o Tail(q)
<1>3. r \in Seq(Chain) /\ Len(r) = Len(q) /\ r[1] = x
  BY <1>1, <1>2
<1>4. \A i \in 2 .. Len(q) : r[i] = q[i]
  BY <1>1, <1>2
<1>5. Waiting(r)
  BY <1>3, <1>4 DEF Waiting
<1>6. r # << >>
  BY <1>3
<1> QED  BY <1>3, <1>5, <1>6 DEF Stage

(* FWUpdateCheck takes back or keeps flags and queues chains, for devices  *)
(* that are sound with flags f and chains c.                               *)
LEMMA CheckSound ==
  ASSUME Functions,
         NEW f \in [Devices -> 0 .. 3], NEW c \in [Devices -> Seq(Chain)], NEW v, NEW recent,
         \A d \in Devices : Sound(c[d], f[d], mode'[d], image'[d]),
         Owns(c, FWUpdateDevice'),
         FWUpdateCheck(f, v, c, recent)
  PROVE  /\ flag' \in [Devices -> 0 .. 3] /\ chains' \in [Devices -> Seq(Chain)]
         /\ \A d \in Devices : Sound(chains'[d], flag'[d], mode'[d], image'[d])
         /\ Owns(chains', FWUpdateDevice')
<1>1. \A d \in Devices : flag'[d] = f[d] \/ (f[d] = 1 /\ flag'[d] = 0)
  BY DEF FWUpdateCheck, Demoted
<1>2. flag' \in [Devices -> 0 .. 3]
  BY DEF FWUpdateCheck, Demoted
<1>3. \A d \in Devices : chains'[d] = c[d] \/ chains'[d] = Append(c[d], Step("NodeId", 0))
  BY DEF FWUpdateCheck
<1>4. ASSUME NEW d \in Devices
      PROVE  /\ chains'[d] \in Seq(Chain) /\ Waiting(chains'[d])
             /\ Stage(chains'[d]) = Stage(c[d])
  <2>1. c[d] \in Seq(Chain) /\ Waiting(c[d])
    BY DEF Sound
  <2>2. CASE chains'[d] = c[d]
    BY <2>1, <2>2
  <2>3. CASE chains'[d] = Append(c[d], Step("NodeId", 0))
    <3>1. "NodeId" \in Initial
      BY DEF Initial
    <3>2. /\ chains'[d] \in Seq(Chain) /\ Waiting(chains'[d])
      BY <2>1, <2>3, <3>1, Queue
    <3>3. Stage(chains'[d]) = Stage(c[d])
      <4>1. CASE c[d] = << >>
        <5>1. chains'[d] = <<Step("NodeId", 0)>>
          BY <2>3, <4>1
        <5> QED  BY <4>1, <5>1, StepType DEF Stage, Step
      <4>2. CASE c[d] # << >>
        <5>1. chains'[d] # << >> /\ chains'[d][1] = c[d][1]
          BY <2>1, <2>3, <4>2
        <5> QED  BY <4>2, <5>1 DEF Stage
      <4> QED  BY <4>1, <4>2
    <3> QED  BY <3>2, <3>3
  <2> QED  BY <1>3, <2>2, <2>3
<1>5. chains' \in [Devices -> Seq(Chain)]
  BY <1>4 DEF FWUpdateCheck
<1>6. ASSUME NEW d \in Devices  PROVE Sound(chains'[d], flag'[d], mode'[d], image'[d])
  BY <1>1, <1>2, <1>4 DEF Sound
<1>7. Owns(chains', FWUpdateDevice')
  BY <1>4 DEF Owns
<1> QED  BY <1>2, <1>5, <1>6, <1>7

-----------------------------------------------------------------------------
(* Steps                                                                   *)

(* A step that concerns device d alone.                                    *)
LEMMA OneDevice ==
  ASSUME Inv, NEW d \in Devices, Functions',
         \A e \in Devices \ {d} : /\ chains'[e] = chains[e] /\ flag'[e] = flag[e]
                                 /\ mode'[e] = mode[e] /\ image'[e] = image[e],
         Sound(chains'[d], flag'[d], mode'[d], image'[d]),
         ~FlowCtrl /\ Stage(chains'[d]) \in Updating => FWUpdateDevice' = d,
         ~FlowCtrl => \/ FWUpdateDevice' = FWUpdateDevice
                      \/ Stage(chains[d]) \in Updating
                      \/ FWUpdateDevice \in {NoDevice, d}
  PROVE  Inv'
<1>1. ASSUME NEW e \in Devices  PROVE Sound(chains'[e], flag'[e], mode'[e], image'[e])
  BY DEF Inv
<1>2. ASSUME ~FlowCtrl, NEW e \in Devices, Stage(chains'[e]) \in Updating
      PROVE  FWUpdateDevice' = e
  <2>1. CASE e = d
    BY <1>2, <2>1
  <2>2. CASE e # d
    <3>1. Stage(chains[e]) \in Updating /\ FWUpdateDevice = e
      BY <1>2, <2>2 DEF Inv, Owns
    <3>2. Stage(chains[d]) \notin Updating
      BY <1>2, <2>2, <3>1 DEF Inv, Owns
    <3>3. FWUpdateDevice \notin {NoDevice, d}
      BY <2>2, <3>1, UpdateAssumption
    <3> QED  BY <1>2, <3>1, <3>2, <3>3
  <2> QED  BY <2>1, <2>2
<1> QED  BY <1>1, <1>2 DEF Inv, Owns

(* What is known of a device whose chain is at a step.                     *)
LEMMA AtFacts ==
  ASSUME Inv, NEW d \in Devices
  PROVE  /\ Sound(chains[d], flag[d], mode[d], image[d])
         /\ \A S : At(d, S) => chains[d] # << >> /\ Stage(chains[d]) \in S
         /\ \A S : chains[d] # << >> /\ Stage(chains[d]) \in S => At(d, S)
<1>1. Sound(chains[d], flag[d], mode[d], image[d])
  BY DEF Inv
<1>2. chains[d] \in Seq(Chain)
  BY DEF Inv, Functions
<1>3. chains[d] # << >> => Head(chains[d]) = chains[d][1]
  BY <1>2
<1> QED  BY <1>1, <1>3 DEF At, Stage

(* The chain of a device ends.                                             *)
LEMMA OverFacts ==
  ASSUME Inv, NEW d \in Devices, chains[d] # << >>
  PROVE  /\ Over(d) \in [Devices -> Seq(Chain)]
         /\ Waiting(Over(d)[d]) /\ Stage(Over(d)[d]) \in Initial
         /\ \A e \in Devices \ {d} : Over(d)[e] = chains[e]
<1>1. chains \in [Devices -> Seq(Chain)] /\ Waiting(chains[d]) /\ chains[d] \in Seq(Chain)
  BY DEF Inv, Functions, Sound
<1>2. Tail(chains[d]) \in Seq(Chain) /\ Waiting(Tail(chains[d])) /\ Stage(Tail(chains[d])) \in Initial
  BY <1>1, Dequeue
<1> QED  BY <1>1, <1>2 DEF Over

(* The chain of a device goes on.                                          *)
LEMMA GoOnFacts ==
  ASSUME Inv, NEW d \in Devices, chains[d] # << >>, NEW s \in Stages, NEW p \in Nat
  PROVE  /\ GoOn(d, s, p) \in [Devices -> Seq(Chain)]
         /\ Waiting(GoOn(d, s, p)[d]) /\ Stage(GoOn(d, s, p)[d]) = s
         /\ \A e \in Devices \ {d} : GoOn(d, s, p)[e] = chains[e]
<1>1. chains \in [Devices -> Seq(Chain)] /\ Waiting(chains[d]) /\ chains[d] \in Seq(Chain)
  BY DEF Inv, Functions, Sound
<1>2. Step(s, p) \in Chain /\ Step(s, p).stage = s
  BY StepType
<1> DEFINE q == <<Step(s, p)>> \o Tail(chains[d])
<1>3. q \in Seq(Chain) /\ Waiting(q) /\ Stage(q) = s
  BY <1>1, <1>2, Forward
<1>4. GoOn(d, s, p) = [chains EXCEPT ![d] = q]
  BY DEF GoOn
<1> HIDE DEF q
<1> QED  BY <1>1, <1>3, <1>4

(* The version a device reports.                                           *)
LEMMA VersionFacts ==
  ASSUME Inv, NEW d \in Devices, LearnVersion(d)
  PROVE  FWVer' \in [Devices -> Versions]
<1>1. Version(d) \in Versions
  BY DEF Inv, Functions, Sound, Version, Versions
<1> QED  BY <1>1 DEF LearnVersion, Inv, Functions

LEMMA NodeIdStep ==
  ASSUME Inv, NEW d \in Devices, NEW ours \in BOOLEAN, NodeIdRes(d, ours)
  PROVE  Inv'
<1>1. chains[d] # << >> /\ Stage(chains[d]) = "NodeId"
  BY AtFacts DEF NodeIdRes
<1>2. Sound(chains[d], flag[d], mode[d], image[d])
  BY AtFacts
<1>3. CASE ours
  <2>0. "GetVer1" \in Stages /\ 0 \in Nat
    BY DEF Stages
  <2>1. chains' = GoOn(d, "GetVer1", 0)
    BY <1>3 DEF NodeIdRes
  <2>2. /\ chains' \in [Devices -> Seq(Chain)] /\ Waiting(chains'[d])
        /\ Stage(chains'[d]) = "GetVer1"
        /\ \A e \in Devices \ {d} : chains'[e] = chains[e]
    BY <1>1, <2>0, <2>1, GoOnFacts
  <2>3. Functions'
    BY <2>2 DEF Inv, Functions, NodeIdRes
  <2>4. Sound(chains'[d], flag'[d], mode'[d], image'[d])
    BY <1>1, <1>2, <2>2, <2>3 DEF Sound, Functions, NodeIdRes
  <2> QED  BY <2>2, <2>3, <2>4, OneDevice DEF NodeIdRes, Updating
<1>4. CASE ~ours
  <2>1. chains' = Over(d)
    BY <1>4 DEF NodeIdRes
  <2>2. /\ chains' \in [Devices -> Seq(Chain)] /\ Waiting(chains'[d])
        /\ Stage(chains'[d]) \in Initial
        /\ \A e \in Devices \ {d} : chains'[e] = chains[e]
    BY <1>1, <2>1, OverFacts
  <2>3. Functions'
    BY <2>2 DEF Inv, Functions, NodeIdRes
  <2>4. Sound(chains'[d], flag'[d], mode'[d], image'[d])
    BY <1>1, <1>2, <2>2, <2>3 DEF Sound, Functions, NodeIdRes, Initial
  <2> QED  BY <2>2, <2>3, <2>4, OneDevice DEF NodeIdRes, Updating, Initial
<1> QED  BY <1>3, <1>4

LEMMA GetVer1Step ==
  ASSUME Inv, NEW d \in Devices, FWUpdateGetVer1Res(d)
  PROVE  Inv'
<1>0. UNCHANGED <<mode, image, updates, restarts>> /\ LearnVersion(d) /\ At(d, {"GetVer1"})
  BY DEF FWUpdateGetVer1Res
<1>1. chains[d] # << >> /\ Stage(chains[d]) = "GetVer1"
  BY <1>0, AtFacts
<1>2. Sound(chains[d], flag[d], mode[d], image[d])
  BY AtFacts
<1>3. FWVer' \in [Devices -> Versions]
  BY <1>0, VersionFacts
<1>4. ASSUME Occupied, chains' = Over(d), UNCHANGED <<flag, FWUpdateDevice>>
      PROVE  Inv'
  <2>2. /\ chains' \in [Devices -> Seq(Chain)] /\ Waiting(chains'[d])
        /\ Stage(chains'[d]) \in Initial
        /\ \A e \in Devices \ {d} : chains'[e] = chains[e]
    BY <1>1, <1>4, OverFacts
  <2>3. Functions'
    BY <1>0, <1>3, <1>4, <2>2 DEF Inv, Functions
  <2>4. Sound(chains'[d], flag'[d], mode'[d], image'[d])
    BY <1>0, <1>1, <1>2, <1>4, <2>2, <2>3 DEF Sound, Functions, Initial
  <2> QED  BY <1>0, <1>4, <2>2, <2>3, <2>4, OneDevice DEF Updating, Initial
<1>5. ASSUME ~Occupied, Version(d) = "boot", Claim(d),
             flag' = [flag EXCEPT ![d] = 2], chains' = GoOn(d, "Page", 0)
      PROVE  Inv'
  <2>1. "Page" \in Stages /\ 0 \in Nat
    BY DEF Stages
  <2>2. /\ chains' \in [Devices -> Seq(Chain)] /\ Waiting(chains'[d])
        /\ Stage(chains'[d]) = "Page"
        /\ \A e \in Devices \ {d} : chains'[e] = chains[e]
    BY <1>1, <1>5, <2>1, GoOnFacts
  <2>3. Functions' /\ flag'[d] = 2 /\ \A e \in Devices \ {d} : flag'[e] = flag[e]
    BY <1>0, <1>3, <1>5, <2>2 DEF Inv, Functions, Claim
  <2>4. Sound(chains'[d], flag'[d], mode'[d], image'[d])
    BY <1>0, <1>1, <1>2, <1>5, <2>2, <2>3 DEF Sound, Functions
  <2> QED  BY <1>0, <1>5, <2>2, <2>3, <2>4, OneDevice DEF Claim, Occupied
<1>6. ASSUME ~Occupied, Claim(d), chains' = GoOn(d, "Boot", 0), UNCHANGED flag
      PROVE  Inv'
  <2>1. "Boot" \in Stages /\ 0 \in Nat
    BY DEF Stages
  <2>2. /\ chains' \in [Devices -> Seq(Chain)] /\ Waiting(chains'[d])
        /\ Stage(chains'[d]) = "Boot"
        /\ \A e \in Devices \ {d} : chains'[e] = chains[e]
    BY <1>1, <1>6, <2>1, GoOnFacts
  <2>3. Functions'
    BY <1>0, <1>3, <1>6, <2>2 DEF Inv, Functions, Claim
  <2>4. Sound(chains'[d], flag'[d], mode'[d], image'[d])
    BY <1>0, <1>1, <1>2, <1>6, <2>2, <2>3 DEF Sound, Functions
  <2> QED  BY <1>0, <1>6, <2>2, <2>3, <2>4, OneDevice DEF Claim, Occupied
<1>7. ASSUME Version(d) # "boot", flag' = [flag EXCEPT ![d] = 3], chains' = Over(d),
             UNCHANGED FWUpdateDevice
      PROVE  Inv'
  <2>2. /\ chains' \in [Devices -> Seq(Chain)] /\ Waiting(chains'[d])
        /\ Stage(chains'[d]) \in Initial
        /\ \A e \in Devices \ {d} : chains'[e] = chains[e]
    BY <1>1, <1>7, OverFacts
  <2>1. flag \in [Devices -> 0 .. 3]
    BY DEF Inv, Functions
  <2>6. flag' \in [Devices -> 0 .. 3] /\ flag'[d] = 3 /\ \A e \in Devices \ {d} : flag'[e] = flag[e]
    BY <1>7, <2>1
  <2>3. Functions' /\ flag'[d] = 3 /\ \A e \in Devices \ {d} : flag'[e] = flag[e]
    BY <1>0, <1>3, <1>7, <2>2, <2>6 DEF Inv, Functions
  <2>4. image[d] # "partial"
    BY <1>2, <1>7 DEF Sound, Version
  <2>5. Sound(chains'[d], flag'[d], mode'[d], image'[d])
    BY <1>0, <1>1, <1>2, <2>2, <2>3, <2>4 DEF Sound, Functions, Initial
  <2> QED  BY <1>0, <1>7, <2>2, <2>3, <2>5, OneDevice DEF Updating, Initial
<1> QED  BY <1>4, <1>5, <1>6, <1>7 DEF FWUpdateGetVer1Res

LEMMA GetVer2Step ==
  ASSUME Inv, NEW d \in Devices, NEW enters \in BOOLEAN, FWUpdateGetVer2(d, enters)
  PROVE  Inv'
<1>0. /\ UNCHANGED <<flag, FWVer, FWUpdateDevice, image, updates, restarts>>
      /\ At(d, {"Boot"}) /\ chains' = GoOn(d, "GetVer2", 0)
      /\ mode' = IF enters THEN [mode EXCEPT ![d] = "boot"] ELSE mode
  BY DEF FWUpdateGetVer2
<1>1. chains[d] # << >> /\ Stage(chains[d]) = "Boot"
  BY <1>0, AtFacts
<1>2. Sound(chains[d], flag[d], mode[d], image[d])
  BY AtFacts
<1>3. "GetVer2" \in Stages /\ 0 \in Nat
  BY DEF Stages
<1>4. /\ chains' \in [Devices -> Seq(Chain)] /\ Waiting(chains'[d])
      /\ Stage(chains'[d]) = "GetVer2"
      /\ \A e \in Devices \ {d} : chains'[e] = chains[e]
  BY <1>0, <1>1, <1>3, GoOnFacts
<1>5. mode \in [Devices -> {"firmware", "boot"}]
  BY DEF Inv, Functions
<1>6. /\ mode' \in [Devices -> {"firmware", "boot"}]
      /\ \A e \in Devices \ {d} : mode'[e] = mode[e]
      /\ mode'[d] \in {mode[d], "boot"}
  BY <1>0, <1>5
<1>7. Functions'
  BY <1>0, <1>4, <1>6 DEF Inv, Functions
<1>8. Sound(chains'[d], flag'[d], mode'[d], image'[d])
  BY <1>0, <1>1, <1>2, <1>4, <1>6 DEF Sound
<1>9. ~FlowCtrl => FWUpdateDevice = d
  BY <1>1 DEF Inv, Owns, Updating
<1> QED  BY <1>0, <1>4, <1>6, <1>7, <1>8, <1>9, OneDevice

LEMMA GetVer2ResStep ==
  ASSUME Inv, NEW d \in Devices, FWUpdateGetVer2Res(d)
  PROVE  Inv'
<1>0. UNCHANGED <<mode, image, updates, restarts>> /\ At(d, {"GetVer2"}) /\ LearnVersion(d)
  BY DEF FWUpdateGetVer2Res
<1>1. chains[d] # << >> /\ Stage(chains[d]) = "GetVer2"
  BY <1>0, AtFacts
<1>2. Sound(chains[d], flag[d], mode[d], image[d])
  BY AtFacts
<1>3. FWVer' \in [Devices -> Versions]
  BY <1>0, VersionFacts
<1>4. ~FlowCtrl => FWUpdateDevice = d
  BY <1>1 DEF Inv, Owns, Updating
<1>5. CASE Version(d) = "boot"
  <2>1. /\ flag' = [flag EXCEPT ![d] = 2] /\ chains' = GoOn(d, "Page", 0)
        /\ UNCHANGED FWUpdateDevice
    BY <1>5 DEF FWUpdateGetVer2Res
  <2>2. "Page" \in Stages /\ 0 \in Nat
    BY DEF Stages
  <2>3. /\ chains' \in [Devices -> Seq(Chain)] /\ Waiting(chains'[d])
        /\ Stage(chains'[d]) = "Page"
        /\ \A e \in Devices \ {d} : chains'[e] = chains[e]
    BY <1>1, <2>1, <2>2, GoOnFacts
  <2>4. Functions' /\ flag'[d] = 2 /\ \A e \in Devices \ {d} : flag'[e] = flag[e]
    BY <1>0, <1>3, <2>1, <2>3 DEF Inv, Functions
  <2>5. Sound(chains'[d], flag'[d], mode'[d], image'[d])
    BY <1>0, <1>2, <2>3, <2>4 DEF Sound
  <2> QED  BY <1>0, <1>4, <2>1, <2>3, <2>4, <2>5, OneDevice
<1>6. CASE Version(d) # "boot"
  <2>1. FWUpdateDevice' = NoDevice /\ chains' = Over(d) /\ UNCHANGED flag
    BY <1>6 DEF FWUpdateGetVer2Res, Release
  <2>3. /\ chains' \in [Devices -> Seq(Chain)] /\ Waiting(chains'[d])
        /\ Stage(chains'[d]) \in Initial
        /\ \A e \in Devices \ {d} : chains'[e] = chains[e]
    BY <1>1, <2>1, OverFacts
  <2>4. Functions'
    BY <1>0, <1>3, <2>1, <2>3 DEF Inv, Functions
  <2>5. Sound(chains'[d], flag'[d], mode'[d], image'[d])
    BY <1>0, <1>1, <1>2, <2>1, <2>3 DEF Sound, Initial
  <2> QED  BY <1>0, <1>4, <2>1, <2>3, <2>4, <2>5, OneDevice DEF Initial, Updating
<1> QED  BY <1>5, <1>6

LEMMA TransferStep ==
  ASSUME Inv, NEW d \in Devices, FWUpdateTransferRes(d)
  PROVE  Inv'
<1>0. /\ UNCHANGED <<flag, FWVer, FWUpdateDevice, mode, updates, restarts>>
      /\ At(d, {"Page"}) /\ mode[d] = "boot" /\ image' = [image EXCEPT ![d] = "partial"]
  BY DEF FWUpdateTransferRes
<1>1. chains[d] # << >> /\ Stage(chains[d]) = "Page"
  BY <1>0, AtFacts
<1>2. Sound(chains[d], flag[d], mode[d], image[d])
  BY AtFacts
<1>3. PICK s \in {"Page", "LastPage"}, p \in Nat : chains' = GoOn(d, s, p)
  <2>1. chains[d] \in Seq(Chain)
    BY DEF Inv, Functions
  <2>3. Head(chains[d]) \in Chain
    BY <1>1, <2>1
  <2>2. Head(chains[d]).page \in Nat
    BY <2>3 DEF Chain
  <2> QED  BY <2>2 DEF FWUpdateTransferRes, AfterPage
<1>4. s \in Stages
  BY DEF Stages
<1>5. /\ chains' \in [Devices -> Seq(Chain)] /\ Waiting(chains'[d])
      /\ Stage(chains'[d]) = s
      /\ \A e \in Devices \ {d} : chains'[e] = chains[e]
  BY <1>1, <1>3, <1>4, GoOnFacts
<1>6. Functions' /\ image'[d] = "partial" /\ \A e \in Devices \ {d} : image'[e] = image[e]
  BY <1>0, <1>5 DEF Inv, Functions
<1>7. Sound(chains'[d], flag'[d], mode'[d], image'[d])
  BY <1>0, <1>1, <1>2, <1>5, <1>6 DEF Sound
<1>8. ~FlowCtrl => FWUpdateDevice = d
  BY <1>1 DEF Inv, Owns, Updating
<1> QED  BY <1>0, <1>5, <1>6, <1>7, <1>8, OneDevice

LEMMA RebootStep ==
  ASSUME Inv, NEW d \in Devices, FWUpdateRebootFW(d)
  PROVE  Inv'
<1>0. /\ UNCHANGED <<flag, FWVer, FWUpdateDevice, mode, updates, restarts>>
      /\ At(d, {"LastPage"}) /\ image' = [image EXCEPT ![d] = "new"]
      /\ chains' = GoOn(d, "Reboot", 0)
  BY DEF FWUpdateRebootFW
<1>1. chains[d] # << >> /\ Stage(chains[d]) = "LastPage"
  BY <1>0, AtFacts
<1>2. Sound(chains[d], flag[d], mode[d], image[d])
  BY AtFacts
<1>4. "Reboot" \in Stages /\ 0 \in Nat
  BY DEF Stages
<1>5. /\ chains' \in [Devices -> Seq(Chain)] /\ Waiting(chains'[d])
      /\ Stage(chains'[d]) = "Reboot"
      /\ \A e \in Devices \ {d} : chains'[e] = chains[e]
  BY <1>0, <1>1, <1>4, GoOnFacts
<1>6. Functions' /\ image'[d] = "new" /\ \A e \in Devices \ {d} : image'[e] = image[e]
  BY <1>0, <1>5 DEF Inv, Functions
<1>7. Sound(chains'[d], flag'[d], mode'[d], image'[d])
  BY <1>0, <1>1, <1>2, <1>5, <1>6 DEF Sound
<1>8. ~FlowCtrl => FWUpdateDevice = d
  BY <1>1 DEF Inv, Owns, Updating
<1> QED  BY <1>0, <1>5, <1>6, <1>7, <1>8, OneDevice

LEMMA AskVersionStep ==
  ASSUME Inv, NEW d \in Devices, NEW starts \in BOOLEAN,
         FWUpdateGetVer3(d, starts) \/ FWUpdateGetVer4(d, starts)
  PROVE  Inv'
<1>1. PICK s \in Stages, next \in Stages :
        /\ AskVersion(d, s, next, starts)
        /\ \/ s = "Reboot" /\ next = "GetVer3"
           \/ s = "Reboot4" /\ next = "GetVer4"
  BY DEF FWUpdateGetVer3, FWUpdateGetVer4, Stages
<1>2. /\ UNCHANGED <<flag, FWVer, FWUpdateDevice, image, updates, restarts>>
      /\ At(d, {s}) /\ chains' = GoOn(d, next, 0)
      /\ starts => image[d] # "partial"
      /\ mode' = IF starts THEN [mode EXCEPT ![d] = "firmware"] ELSE mode
  BY <1>1 DEF AskVersion
<1>3. chains[d] # << >> /\ Stage(chains[d]) = s
  BY <1>2, AtFacts
<1>4. Sound(chains[d], flag[d], mode[d], image[d])
  BY AtFacts
<1>5. /\ chains' \in [Devices -> Seq(Chain)] /\ Waiting(chains'[d])
      /\ Stage(chains'[d]) = next
      /\ \A e \in Devices \ {d} : chains'[e] = chains[e]
  BY <1>2, <1>3, GoOnFacts
<1>6. mode \in [Devices -> {"firmware", "boot"}]
  BY DEF Inv, Functions
<1>7. /\ mode' \in [Devices -> {"firmware", "boot"}]
      /\ \A e \in Devices \ {d} : mode'[e] = mode[e]
      /\ mode'[d] = mode[d] \/ image[d] # "partial"
      /\ mode'[d] \in {"firmware", "boot"}
  BY <1>2, <1>6
<1>8. Functions'
  BY <1>2, <1>5, <1>7 DEF Inv, Functions
<1>9. Sound(chains'[d], flag'[d], mode'[d], image'[d])
  BY <1>1, <1>2, <1>3, <1>4, <1>5, <1>7 DEF Sound
<1>10. ~FlowCtrl /\ next \in Updating => FWUpdateDevice = d
  BY <1>1, <1>3 DEF Inv, Owns, Updating
<1> QED  BY <1>2, <1>5, <1>7, <1>8, <1>9, <1>10, OneDevice

LEMMA GetVer3ResStep ==
  ASSUME Inv, NEW d \in Devices, NEW recent, FWUpdateGetVer3Res(d, recent)
  PROVE  Inv'
<1>0. /\ UNCHANGED <<mode, image, updates, restarts>> /\ At(d, {"GetVer3"}) /\ LearnVersion(d)
      /\ FWUpdateDevice' = NoDevice
      /\ FWUpdateCheck([flag EXCEPT ![d] = 3], FWVer', Over(d), recent)
  BY DEF FWUpdateGetVer3Res, Release
<1>1. chains[d] # << >> /\ Stage(chains[d]) = "GetVer3"
  BY <1>0, AtFacts
<1>2. \A e \in Devices : Sound(chains[e], flag[e], mode[e], image[e])
  BY DEF Inv
<1>3. FWVer' \in [Devices -> Versions]
  BY <1>0, VersionFacts
<1> DEFINE f == [flag EXCEPT ![d] = 3]
<1>4. /\ Over(d) \in [Devices -> Seq(Chain)] /\ Waiting(Over(d)[d]) /\ Stage(Over(d)[d]) \in Initial
      /\ \A e \in Devices \ {d} : Over(d)[e] = chains[e]
  BY <1>1, OverFacts
<1>5. f \in [Devices -> 0 .. 3] /\ f[d] = 3 /\ \A e \in Devices \ {d} : f[e] = flag[e]
  BY DEF Inv, Functions
<1>6. ASSUME NEW e \in Devices  PROVE Sound(Over(d)[e], f[e], mode'[e], image'[e])
  BY <1>0, <1>1, <1>2, <1>4, <1>5 DEF Sound, Initial
<1>7. Owns(Over(d), FWUpdateDevice')
  <2> SUFFICES ASSUME ~FlowCtrl, NEW e \in Devices, Stage(Over(d)[e]) \in Updating
               PROVE  FALSE
    BY DEF Owns
  <2>1. e # d
    BY <1>4 DEF Initial, Updating
  <2>2. Stage(chains[e]) \in Updating
    BY <1>4, <2>1
  <2>3. Stage(chains[d]) \in Updating
    BY <1>1 DEF Updating
  <2> QED  BY <2>1, <2>2, <2>3 DEF Inv, Owns
<1>8. /\ flag' \in [Devices -> 0 .. 3] /\ chains' \in [Devices -> Seq(Chain)]
      /\ \A e \in Devices : Sound(chains'[e], flag'[e], mode'[e], image'[e])
      /\ Owns(chains', FWUpdateDevice')
  <2>1. Functions
    BY DEF Inv
  <2> HIDE DEF f
  <2> QED  BY <1>0, <1>4, <1>5, <1>6, <1>7, <2>1, CheckSound DEF f
<1>9. Functions'
  BY <1>0, <1>3, <1>8 DEF Inv, Functions
<1> QED  BY <1>8, <1>9 DEF Inv

LEMMA GetVer4ResStep ==
  ASSUME Inv, NEW d \in Devices, NEW recent, FWUpdateGetVer4Res(d, recent)
  PROVE  Inv'
<1>0. /\ UNCHANGED <<FWUpdateDevice, mode, image, updates, restarts>>
      /\ At(d, {"GetVer4"}) /\ LearnVersion(d)
  BY DEF FWUpdateGetVer4Res
<1>1. chains[d] # << >> /\ Stage(chains[d]) = "GetVer4"
  BY <1>0, AtFacts
<1>2. \A e \in Devices : Sound(chains[e], flag[e], mode[e], image[e])
  BY DEF Inv
<1>3. FWVer' \in [Devices -> Versions]
  BY <1>0, VersionFacts
<1>4. /\ Over(d) \in [Devices -> Seq(Chain)] /\ Waiting(Over(d)[d]) /\ Stage(Over(d)[d]) \in Initial
      /\ \A e \in Devices \ {d} : Over(d)[e] = chains[e]
  BY <1>1, OverFacts
<1>5. ASSUME NEW f \in [Devices -> 0 .. 3], \A e \in Devices \ {d} : f[e] = flag[e],
             f[d] \in {flag[d], 1}, NEW e \in Devices
      PROVE  Sound(Over(d)[e], f[e], mode'[e], image'[e])
  <2>1. CASE e # d
    BY <1>0, <1>2, <1>4, <1>5, <2>1
  <2>2. CASE e = d
    <3>1. f[d] \in 0 .. 3 /\ Over(d)[d] \in Seq(Chain)
      BY <1>4
    <3>2. Sound(chains[d], flag[d], mode[d], image[d])
      BY <1>2
    <3> QED  BY <1>0, <1>1, <1>4, <1>5, <2>2, <3>1, <3>2 DEF Sound, Initial
  <2> QED  BY <2>1, <2>2
<1>6. Owns(Over(d), FWUpdateDevice')
  <2> SUFFICES ASSUME ~FlowCtrl, NEW e \in Devices, Stage(Over(d)[e]) \in Updating
               PROVE  FWUpdateDevice' = e
    BY DEF Owns
  <2>1. e # d
    BY <1>4 DEF Initial, Updating
  <2>2. Stage(chains[e]) \in Updating
    BY <1>4, <2>1
  <2> QED  BY <1>0, <2>2 DEF Inv, Owns
<1>7. CASE Version(d) = "boot"
  <2> DEFINE f == IF flag[d] = 3 THEN [flag EXCEPT ![d] = 1] ELSE flag
  <2>1. FWUpdateCheck(f, FWVer', Over(d), recent)
    BY <1>7 DEF FWUpdateGetVer4Res
  <2>2. /\ f \in [Devices -> 0 .. 3] /\ f[d] \in {flag[d], 1}
        /\ \A e \in Devices \ {d} : f[e] = flag[e]
    BY DEF Inv, Functions
  <2>3. Functions
    BY DEF Inv
  <2> HIDE DEF f
  <2>4. \A e \in Devices : Sound(Over(d)[e], f[e], mode'[e], image'[e])
    BY <1>5, <2>2
  <2>5. /\ flag' \in [Devices -> 0 .. 3] /\ chains' \in [Devices -> Seq(Chain)]
        /\ \A e \in Devices : Sound(chains'[e], flag'[e], mode'[e], image'[e])
        /\ Owns(chains', FWUpdateDevice')
    BY <1>4, <1>6, <2>1, <2>2, <2>3, <2>4, CheckSound
  <2>6. Functions'
    BY <1>0, <1>3, <2>5 DEF Inv, Functions
  <2> QED  BY <2>5, <2>6 DEF Inv
<1>8. CASE Version(d) # "boot"
  <2>1. chains' = Over(d) /\ flag' = flag
    BY <1>8 DEF FWUpdateGetVer4Res
  <2>2. flag \in [Devices -> 0 .. 3]
    BY DEF Inv, Functions
  <2>3. Functions'
    BY <1>0, <1>3, <1>4, <2>1 DEF Inv, Functions
  <2>4. \A e \in Devices : Sound(chains'[e], flag'[e], mode'[e], image'[e])
    BY <1>5, <2>1, <2>2
  <2> QED  BY <1>6, <2>1, <2>3, <2>4 DEF Inv
<1> QED  BY <1>7, <1>8

(* No answer: what the device did unheard keeps it sound, and its chain    *)
(* ends.                                                                   *)
LEMMA GiveUpStep ==
  ASSUME Inv, NEW d \in Devices, GiveUp(d)
  PROVE  Inv'
<1>0. /\ UNCHANGED <<FWVer, mode, image, updates, restarts>> /\ chains[d] # << >> /\ chains' = Over(d)
      /\ flag' = [flag EXCEPT ![d] = 1]
      /\ FWUpdateDevice' = IF FWUpdateDevice = d THEN NoDevice ELSE FWUpdateDevice
  BY DEF GiveUp, Abandon
<1>1. Sound(chains[d], flag[d], mode[d], image[d])
  BY AtFacts
<1>2. /\ chains' \in [Devices -> Seq(Chain)] /\ Waiting(chains'[d])
      /\ Stage(chains'[d]) \in Initial
      /\ \A e \in Devices \ {d} : chains'[e] = chains[e]
  BY <1>0, OverFacts
<1>3. flag' \in [Devices -> 0 .. 3] /\ flag'[d] = 1 /\ \A e \in Devices \ {d} : flag'[e] = flag[e]
  BY <1>0 DEF Inv, Functions
<1>4. Functions'
  BY <1>0, <1>2, <1>3 DEF Inv, Functions
<1>5. Sound(chains'[d], flag'[d], mode'[d], image'[d])
  BY <1>0, <1>1, <1>2, <1>3 DEF Sound, Initial
<1>6. Stage(chains'[d]) \notin Updating
  BY <1>2 DEF Initial, Updating
<1> QED  BY <1>0, <1>2, <1>3, <1>4, <1>5, <1>6, OneDevice

(* A device that acts without being heard.                                 *)
LEMMA ActsStep ==
  ASSUME Inv, NEW d \in Devices, Acts(d)
  PROVE  Inv'
<1>0. UNCHANGED <<flag, FWVer, FWUpdateDevice, chains, updates, restarts>>
  BY DEF Acts
<1>1. Sound(chains[d], flag[d], mode[d], image[d])
  BY AtFacts
<1>2. /\ mode \in [Devices -> {"firmware", "boot"}]
      /\ image \in [Devices -> {"old", "new", "partial"}]
      /\ chains \in [Devices -> Seq(Chain)]
  BY DEF Inv, Functions
<1>3. ~FlowCtrl /\ Stage(chains[d]) \in Updating => FWUpdateDevice = d
  BY DEF Inv, Owns
<1>4. ASSUME NEW m \in {"firmware", "boot"}, mode' = [mode EXCEPT ![d] = m], UNCHANGED image,
             m = "boot" \/ image[d] # "partial"
      PROVE  Inv'
  <2>1. /\ mode' \in [Devices -> {"firmware", "boot"}] /\ mode'[d] = m
        /\ \A e \in Devices \ {d} : mode'[e] = mode[e]
    BY <1>2, <1>4
  <2>2. Functions'
    BY <1>0, <1>4, <2>1 DEF Inv, Functions
  <2>3. Sound(chains'[d], flag'[d], mode'[d], image'[d])
    BY <1>0, <1>1, <1>4, <2>1 DEF Sound
  <2> QED  BY <1>0, <1>3, <1>4, <2>1, <2>2, <2>3, OneDevice
<1>5. ASSUME At(d, {"Page"}), mode[d] = "boot", UNCHANGED mode,
             image' = [image EXCEPT ![d] = "partial"]
      PROVE  Inv'
  <2>1. Stage(chains[d]) = "Page"
    BY <1>5, AtFacts
  <2>2. /\ image' \in [Devices -> {"old", "new", "partial"}] /\ image'[d] = "partial"
        /\ \A e \in Devices \ {d} : image'[e] = image[e]
    BY <1>2, <1>5
  <2>3. Functions'
    BY <1>0, <1>5, <2>2 DEF Inv, Functions
  <2>4. Sound(chains'[d], flag'[d], mode'[d], image'[d])
    BY <1>0, <1>1, <1>5, <2>1, <2>2 DEF Sound
  <2> QED  BY <1>0, <1>3, <1>5, <2>2, <2>3, <2>4, OneDevice
<1>6. ASSUME At(d, {"LastPage"}), UNCHANGED mode, image' = [image EXCEPT ![d] = "new"]
      PROVE  Inv'
  <2>1. Stage(chains[d]) = "LastPage"
    BY <1>6, AtFacts
  <2>2. /\ image' \in [Devices -> {"old", "new", "partial"}] /\ image'[d] = "new"
        /\ \A e \in Devices \ {d} : image'[e] = image[e]
    BY <1>2, <1>6
  <2>3. Functions'
    BY <1>0, <1>6, <2>2 DEF Inv, Functions
  <2>4. Sound(chains'[d], flag'[d], mode'[d], image'[d])
    BY <1>0, <1>1, <1>6, <2>1, <2>2 DEF Sound
  <2> QED  BY <1>0, <1>3, <1>6, <2>2, <2>3, <2>4, OneDevice
<1>7. \/ mode' = [mode EXCEPT ![d] = "boot"] /\ UNCHANGED image
      \/ /\ mode' = [mode EXCEPT ![d] = "firmware"] /\ UNCHANGED image
         /\ image[d] # "partial"
      \/ /\ At(d, {"Page"}) /\ mode[d] = "boot" /\ UNCHANGED mode
         /\ image' = [image EXCEPT ![d] = "partial"]
      \/ /\ At(d, {"LastPage"}) /\ UNCHANGED mode
         /\ image' = [image EXCEPT ![d] = "new"]
  <2>1. At(d, {"Page", "LastPage"}) /\ ~At(d, {"Page"}) => At(d, {"LastPage"})
    BY DEF At
  <2> QED  BY <2>1 DEF Acts
<1> QED  BY <1>4, <1>5, <1>6, <1>7

LEMMA ErrorGiveUpStep ==
  ASSUME Inv, NEW d \in Devices, ErrorGiveUp(d)
  PROVE  Inv'
<1>0. /\ ErrorReplies /\ chains[d] # << >> /\ chains' = Over(d)
      /\ UNCHANGED <<flag, FWVer, FWUpdateDevice, mode, image, updates, restarts>>
  BY DEF ErrorGiveUp
<1>1. Sound(chains[d], flag[d], mode[d], image[d])
  BY AtFacts
<1>2. /\ chains' \in [Devices -> Seq(Chain)] /\ Waiting(chains'[d])
      /\ Stage(chains'[d]) \in Initial
      /\ \A e \in Devices \ {d} : chains'[e] = chains[e]
  BY <1>0, OverFacts
<1>3. Functions'
  BY <1>0, <1>2 DEF Inv, Functions
<1>4. Sound(chains'[d], flag'[d], mode'[d], image'[d])
  BY <1>0, <1>1, <1>2 DEF Sound, Initial
<1>5. Stage(chains'[d]) \notin Updating
  BY <1>2 DEF Initial, Updating
<1> QED  BY <1>0, <1>2, <1>3, <1>4, <1>5, OneDevice

(* FWUpdateCheck when its interval comes or a user asks.                   *)
LEMMA CheckStep ==
  ASSUME Inv, NEW f \in [Devices -> 0 .. 3], NEW recent,
         \A d \in Devices : f[d] \in {flag[d], 0, 1},
         FWUpdateCheck(f, FWVer, chains, recent),
         UNCHANGED <<FWVer, FWUpdateDevice, mode, image, restarts>>, updates' \in 0 .. MaxUpdates
  PROVE  Inv'
<1>1. ASSUME NEW d \in Devices  PROVE Sound(chains[d], f[d], mode'[d], image'[d])
  BY DEF Inv, Sound
<1>2. Functions /\ chains \in [Devices -> Seq(Chain)] /\ Owns(chains, FWUpdateDevice')
  BY DEF Inv, Functions
<1>3. /\ flag' \in [Devices -> 0 .. 3] /\ chains' \in [Devices -> Seq(Chain)]
      /\ \A e \in Devices : Sound(chains'[e], flag'[e], mode'[e], image'[e])
      /\ Owns(chains', FWUpdateDevice')
  BY <1>1, <1>2, CheckSound
<1>4. Functions'
  BY <1>3 DEF Inv, Functions
<1> QED  BY <1>3, <1>4 DEF Inv

(* A started daemon knows nothing, so that nothing it knows is wrong.      *)
LEMMA RestartStep == ASSUME Inv, Restart  PROVE Inv'
<1>0. /\ restarts < MaxRestarts /\ restarts' = restarts + 1
      /\ flag' = [d \in Devices |-> 0] /\ FWVer' = [d \in Devices |-> "none"]
      /\ FWUpdateDevice' = NoDevice /\ chains' = [d \in Devices |-> << >>]
      /\ UNCHANGED <<mode, image, updates>>
  BY DEF Restart
<1>1. << >> \in Seq(Chain) /\ Len(<< >>) = 0 /\ Waiting(<< >>) /\ Stage(<< >>) = "NodeId"
  BY EmptySeq DEF Waiting, Stage
<1>2. restarts' \in 0 .. MaxRestarts
  BY <1>0, UpdateAssumption DEF Inv, Functions
<1>3. Functions'
  BY <1>0, <1>1, <1>2 DEF Inv, Functions, Versions
<1>4. ASSUME NEW d \in Devices  PROVE Sound(chains'[d], flag'[d], mode'[d], image'[d])
  BY <1>0, <1>1 DEF Inv, Sound
<1>5. Owns(chains', FWUpdateDevice')
  BY <1>0, <1>1 DEF Owns, Updating
<1> QED  BY <1>3, <1>4, <1>5 DEF Inv

LEMMA TriggersStep ==
  ASSUME Inv, Triggers
  PROVE  Inv'
<1>0. flag \in [Devices -> 0 .. 3] /\ updates \in 0 .. MaxUpdates
  BY DEF Inv, Functions
<1>1. ASSUME NEW recent, Interval(recent)  PROVE Inv'
  BY <1>0, <1>1, CheckStep DEF Interval
<1>2. ASSUME NEW S, NEW f \in {0, 1}, NEW recent, Update(S, f, recent)  PROVE Inv'
  <2> DEFINE g == [d \in Devices |-> IF d \in S THEN f ELSE flag[d]]
  <2>1. g \in [Devices -> 0 .. 3] /\ \A d \in Devices : g[d] \in {flag[d], 0, 1}
    BY <1>0
  <2>2. /\ FWUpdateCheck(g, FWVer, chains, recent)
        /\ UNCHANGED <<FWVer, FWUpdateDevice, mode, image, restarts>>
        /\ updates < MaxUpdates /\ updates' = updates + 1
    BY <1>2 DEF Update
  <2>3. updates' \in 0 .. MaxUpdates
    BY <1>0, <2>2, UpdateAssumption
  <2> HIDE DEF g
  <2> QED  BY <2>1, <2>2, <2>3, CheckStep
<1>3. ASSUME NEW d \in Devices, RebootNotification(d)  PROVE Inv'
  <2>0. /\ image[d] # "partial" /\ mode' = [mode EXCEPT ![d] = "firmware"]
        /\ FWVer' = [FWVer EXCEPT ![d] = image[d]]
        /\ UNCHANGED <<flag, FWUpdateDevice, chains, image, updates, restarts>>
    BY <1>3 DEF RebootNotification
  <2>1. Sound(chains[d], flag[d], mode[d], image[d])
    BY AtFacts
  <2>2. /\ mode' \in [Devices -> {"firmware", "boot"}] /\ mode'[d] = "firmware"
        /\ \A e \in Devices \ {d} : mode'[e] = mode[e]
    BY <2>0 DEF Inv, Functions
  <2>3. FWVer' \in [Devices -> Versions]
    BY <2>0, <2>1 DEF Inv, Functions, Sound, Versions
  <2>4. Functions'
    BY <2>0, <2>2, <2>3 DEF Inv, Functions
  <2>5. Sound(chains'[d], flag'[d], mode'[d], image'[d])
    BY <2>0, <2>1, <2>2 DEF Sound
  <2>6. ~FlowCtrl /\ Stage(chains[d]) \in Updating => FWUpdateDevice = d
    BY DEF Inv, Owns
  <2> QED  BY <2>0, <2>2, <2>4, <2>5, <2>6, OneDevice
<1>4. ASSUME NEW d \in Devices, BootModeNotification(d)  PROVE Inv'
  <2>0. /\ FWVer' = [FWVer EXCEPT ![d] = "boot"]
        /\ UNCHANGED <<flag, FWUpdateDevice, mode, image, updates, restarts>>
        /\ chains' = chains \/ chains' = [chains EXCEPT ![d] = Append(@, Step("Reboot4", 0))]
    BY <1>4 DEF BootModeNotification
  <2>1. Sound(chains[d], flag[d], mode[d], image[d])
    BY AtFacts
  <2>2. chains \in [Devices -> Seq(Chain)]
    BY DEF Inv, Functions
  <2>3. ~FlowCtrl /\ Stage(chains[d]) \in Updating => FWUpdateDevice = d
    BY DEF Inv, Owns
  <2>4. CASE chains' = chains
    <3>1. Functions'
      BY <2>0, <2>4 DEF Inv, Functions, Versions
    <3> QED  BY <2>0, <2>1, <2>3, <2>4, <3>1, OneDevice
  <2>5. CASE chains' = [chains EXCEPT ![d] = Append(@, Step("Reboot4", 0))]
    <3> DEFINE q == Append(chains[d], Step("Reboot4", 0))
    <3>1. "Reboot4" \in Initial /\ chains[d] \in Seq(Chain) /\ Waiting(chains[d])
      BY <2>1 DEF Initial, Sound
    <3>2. /\ q \in Seq(Chain) /\ Waiting(q)
          /\ Stage(q) = Stage(chains[d]) \/ (chains[d] = << >> /\ Stage(q) \in Initial)
      BY <3>1, Queue
    <3>3. /\ chains' \in [Devices -> Seq(Chain)] /\ chains'[d] = q
          /\ \A e \in Devices \ {d} : chains'[e] = chains[e]
      <4>1. chains' = [chains EXCEPT ![d] = q]
        BY <2>5
      <4> HIDE DEF q
      <4> QED  BY <2>2, <3>2, <4>1
    <3> HIDE DEF q
    <3>4. Functions'
      BY <2>0, <3>3 DEF Inv, Functions, Versions
    <3>5. \/ Stage(chains[d]) = Stage(q)
          \/ Stage(chains[d]) = "NodeId" /\ Stage(q) \in Initial
      BY <3>2 DEF Stage
    <3>6. Sound(chains'[d], flag'[d], mode'[d], image'[d])
      BY <2>0, <2>1, <3>2, <3>3, <3>5 DEF Sound, Initial
    <3> QED  BY <2>0, <2>3, <3>3, <3>4, <3>5, <3>6, OneDevice DEF Initial, Updating
  <2> QED  BY <2>0, <2>4, <2>5
<1> QED  BY <1>1, <1>2, <1>3, <1>4, RestartStep DEF Triggers

LEMMA InitInv == Init => Inv
<1> SUFFICES ASSUME Init  PROVE Inv
  OBVIOUS
<1>1. << >> \in Seq(Chain) /\ Len(<< >>) = 0 /\ Waiting(<< >>) /\ Stage(<< >>) = "NodeId"
  BY EmptySeq DEF Waiting, Stage
<1>2. Functions
  BY <1>1, UpdateAssumption DEF Init, Functions, Versions
<1>3. ASSUME NEW d \in Devices  PROVE Sound(chains[d], flag[d], mode[d], image[d])
  <2>1. /\ chains[d] = << >> /\ flag[d] = 0
        /\ image[d] = "partial" => mode[d] = "boot"
        /\ mode[d] \in {"firmware", "boot"} /\ image[d] \in {"old", "new", "partial"}
    BY DEF Init
  <2> QED  BY <1>1, <2>1 DEF Sound
<1>4. Owns(chains, FWUpdateDevice)
  BY <1>1 DEF Init, Owns, Updating
<1> QED  BY <1>2, <1>3, <1>4 DEF Inv

LEMMA NextInv ==
  ASSUME Inv, [Next]_vars
  PROVE  Inv'
<1>1. CASE Triggers
  BY <1>1, TriggersStep
<1>2. ASSUME NEW d \in Devices, Advance(d)  PROVE Inv'
  <2>1. CASE Answer(d)
    BY <2>1, NodeIdStep, GetVer1Step, GetVer2Step, GetVer2ResStep, TransferStep, RebootStep,
       AskVersionStep, GetVer3ResStep, GetVer4ResStep DEF Answer
  <2> QED  BY <1>2, <2>1, GiveUpStep, ErrorGiveUpStep DEF Advance
<1>3. ASSUME NEW d \in Devices, Acts(d)  PROVE Inv'
  BY <1>3, ActsStep
<1>4. CASE UNCHANGED vars
  BY <1>4 DEF vars, Inv, Functions
<1> QED  BY <1>1, <1>2, <1>3, <1>4 DEF Next

-----------------------------------------------------------------------------
(* The theorems                                                            *)

LEMMA UpdateInvariant == Spec => []Inv
BY InitInv, NextInv, PTL DEF Spec

(* Flags, versions and chains keep their types, whatever devices do.       *)
THEOREM UpdaterTypes == Spec => []TypeOK
<1>1. Inv => TypeOK
  BY DEF Inv, Functions, TypeOK
<1> QED  BY <1>1, UpdateInvariant, PTL

(* Without flow control an update owns the line from its first write to a  *)
(* device to its end.                                                      *)
THEOREM UpdatesOwnTheLine == Spec => []UpdateOwnsTheLine
<1>1. Inv => UpdateOwnsTheLine
  BY AtFacts DEF Inv, Owns, UpdateOwnsTheLine, InUpdate
<1> QED  BY <1>1, UpdateInvariant, PTL

(* Hence no two devices are updated at the same time.                      *)
THEOREM UpdatesDoNotOverlap == Spec => []OneUpdateAtATime
<1>1. UpdateOwnsTheLine => OneUpdateAtATime
  BY DEF UpdateOwnsTheLine, OneUpdateAtATime
<1> QED  BY <1>1, UpdatesOwnTheLine, PTL

(* A half-written device is never taken for done, so that a boot-mode      *)
(* notification does not start half a firmware.                            *)
THEOREM PartialIsNeverDone == Spec => []PartialIsNotDone
<1>1. Inv => PartialIsNotDone
  BY DEF Inv, Sound, PartialIsNotDone
<1> QED  BY <1>1, UpdateInvariant, PTL

(* The updater reboots a device into an image that is complete.            *)
THEOREM OnlyWholeImagesAreStarted == Spec => []RebootsWholeImage
<1>1. Inv => RebootsWholeImage
  BY AtFacts DEF Inv, Sound, RebootsWholeImage
<1> QED  BY <1>1, UpdateInvariant, PTL

(* A half-written device is being written, or an update of it is due, if   *)
(* devices do not answer with errors for ever.                             *)
THEOREM PartialIsAlwaysAttended == ~ErrorReplies => (Spec => []PartialIsAttended)
<1> SUFFICES ASSUME ~ErrorReplies  PROVE Spec => []PartialIsAttended
  OBVIOUS
<1>1. Inv => PartialIsAttended
  <2> SUFFICES ASSUME Inv, NEW d \in Devices, image[d] = "partial", flag[d] \notin {0, 1}
               PROVE  At(d, {"Page", "LastPage"})
    BY DEF PartialIsAttended
  <2>1. Stage(chains[d]) \in {"Page", "LastPage"}
    BY DEF Inv, Sound
  <2>2. chains[d] # << >>
    BY <2>1 DEF Stage
  <2> QED  BY <2>1, <2>2, AtFacts
<1> QED  BY <1>1, UpdateInvariant, PTL
=============================================================================

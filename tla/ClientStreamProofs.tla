-------------------------- MODULE ClientStreamProofs --------------------------
(***************************************************************************)
(* Proofs about what the clients of Clients say and what the daemon makes  *)
(* of it: nothing is read twice, out of order or in the name of another,   *)
(* and while a connection is in step no message of it is lost, torn or     *)
(* left behind.  The invariant is Streams, on top of what ClientsProofs    *)
(* shows of the table.                                                     *)
(***************************************************************************)
EXTENDS ClientsProofs, SequenceTheorems, FiniteSetTheorems

(***************************************************************************)
(* What is on its way from a client and what the daemon holds of it are    *)
(* one stream.  Rank numbers the units of a connection in the order in     *)
(* which they are said.  Those of a client come in that order, behind the  *)
(* message upTo; some may be lost, but of the messages up to which it is   *)
(* in step all are there.  Of the relay server any may be lost.            *)
(***************************************************************************)
Rank(u) == IF u.end THEN 2 * u.n ELSE 2 * u.n - 1
LastRank(fd) == IF half[fd] THEN 2 * Len(sent[fd]) - 1 ELSE 2 * Len(sent[fd])

UnitsOf(fd) ==
  {u \in [s : {peer[fd]}, n : 1 .. Len(sent[fd]), kind : Kinds \cup WebKinds, end : BOOLEAN] :
     u.kind = sent[fd][u.n]}

Nothing(fd) == /\ line[fd] = << >> /\ sent[fd] = << >> /\ upTo[fd] = 0 /\ lost[fd] = 0
               /\ ~eof[fd] /\ ~half[fd]

(* Ranks that go up, each unit in its place or, where some are lost, ahead *)
(* of it; and the ranks that must be there, each exactly in its place.     *)
Ascend(w, base, last) ==
  \A i \in 1 .. Len(w) : /\ Rank(w[i]) \in base + i .. last
                         /\ \A j \in i .. Len(w) : Rank(w[i]) + (j - i) <= Rank(w[j])
There(w, base, last, known) ==
  \A r \in known : base < r /\ r <= last => r - base \in 1 .. Len(w) /\ Rank(w[r - base]) = r

Way(fd) == InputBuffer[fd] \o line[fd]
Known(fd) == {r \in Int : \E n \in 1 .. Len(sent[fd]) : InStep(fd, n) /\ r \in {2 * n - 1, 2 * n}}

ClientStream(fd) ==
  /\ line[fd] \in Seq(UnitsOf(fd)) /\ InputBuffer[fd] \in Seq(UnitsOf(fd))
  /\ 2 * upTo[fd] <= LastRank(fd) /\ Ascend(Way(fd), 2 * upTo[fd], LastRank(fd))
  /\ There(Way(fd), 2 * upTo[fd], LastRank(fd), Known(fd))
  /\ \A i \in 1 .. Len(line[fd]) : lost[fd] <= line[fd][i].n
  /\ InStep(fd, upTo[fd]) => Format[fd] = Mode(fd, upTo[fd])

Ops == {"101", "refusal", "text", "first", "last", "ping", "pong", "close"}

Ranks(us) == {Rank(us[i]) : i \in 1 .. Len(us)}

Precede(A, B) == \A x \in A, y \in B : x < y

Held(fd) == {2 * upTo[fd]} \cup Ranks(InputBuffer[fd])    \* what the daemon has of the link

InOrder(held, frames, last) ==
  \A i \in 1 .. Len(frames) :
    /\ Ranks(frames[i].units) \subseteq 1 .. last
    /\ Precede(held, Ranks(frames[i].units))
    /\ \A j \in i + 1 .. Len(frames) : Precede(Ranks(frames[i].units), Ranks(frames[j].units))

FramesOf(fd) == [op : Ops, units : Seq(UnitsOf(fd))]

LinkStream(fd) ==
  /\ line[fd] \in Seq(FramesOf(fd)) /\ InputBuffer[fd] \in Seq(UnitsOf(fd))
  /\ Held(fd) \subseteq 2 * upTo[fd] .. LastRank(fd)
  /\ Precede({2 * upTo[fd]}, Ranks(InputBuffer[fd]))
  /\ InOrder(Held(fd), line[fd], LastRank(fd))
  /\ Format[fd] = "json" /\ sent[fd] \in Seq(WebKinds)

Stream(fd) == /\ ClientIF[fd] = "none" => Nothing(fd)
              /\ ClientIF[fd] = "tcp"  => ClientStream(fd)
              /\ ClientIF[fd] = "web"  => LinkStream(fd)
              /\ half[fd] => sent[fd] # << >>

(* The command buffer of the call in progress holds what the client has    *)
(* been served: one message of it, as long as it is in step, and what is   *)
(* put together of the messages up to there if not.                        *)
Ran(fd, cmd) ==
  LET m == Last(cmd) IN
  /\ cmd \in Seq(UnitsOf(fd)) /\ cmd # << >> /\ m.n \in 1 .. upTo[fd]
  /\ \A i \in 1 .. Len(cmd) : cmd[i].n <= m.n
  /\ ClientIF[fd] = "web" \/ InStep(fd, m.n) =>
       /\ cmd = Whole(peer[fd], m.n, sent[fd][m.n])
       /\ sent[fd][m.n] \in Changes => Format[fd] = sent[fd][m.n]
CallAgrees ==
  IF rx.fd = None THEN rx = NoCall
  ELSE /\ rx.cmd = << >> \/ Ran(rx.fd, rx.cmd)
       /\ ClientIF[rx.fd] = "web" /\ rx.cmd # << >> => InputBuffer[rx.fd] = << >>

(* Messages of a client that is not being served, see NothingLeft.         *)
LeftBehind(fd) ==
  ClientIF[fd] = "tcp" => \A i \in 1 .. Len(InputBuffer[fd]) : InputBuffer[fd][i].end =>
    /\ Format[fd] = "json"
    /\ ~InStep(fd, InputBuffer[fd][i].n) \/ (upTo[fd] # 0 /\ sent[fd][upTo[fd]] = "junk")

Shapes == /\ line = [fd \in Fds |-> line[fd]] /\ {eof, half} \subseteq [Fds -> BOOLEAN]
          /\ upTo = [fd \in Fds |-> upTo[fd]] /\ lost = [fd \in Fds |-> lost[fd]]

Streams == /\ TypeOK /\ Shapes
           /\ \A fd \in Fds : Stream(fd) /\ (fd = rx.fd \/ LeftBehind(fd))
           /\ CallAgrees

-----------------------------------------------------------------------------
(* Sequences and the greatest number of a set.                             *)
LEMMA MaxExists ==
  ASSUME NEW n \in Nat, NEW T \in SUBSET (1 .. n), T # {}
  PROVE  Max(T) \in T /\ \A j \in T : Max(T) >= j
<1> DEFINE D == {n - i : i \in T}
<1>0. \A i \in T : i \in Nat /\ n - i \in Nat
  OBVIOUS
<1>1. D \in SUBSET Nat /\ D # {}
  BY <1>0
<1>2. Min(D) \in D /\ \A m \in D : Min(D) <= m
  BY <1>1, LowestExists
<1>3. PICK i \in T : Min(D) = n - i
  BY <1>2
<1>4. \A j \in T : n - j \in D
  OBVIOUS
<1>5. \A j \in T : i >= j
  <2>1. \A j \in T : n - i <= n - j
    BY <1>2, <1>3, <1>4
  <2> QED  BY <1>0, <2>1
<1> QED  BY <1>5 DEF Max

LEMMA ConcatOne ==
  ASSUME NEW S, NEW s \in Seq(S), NEW e \in S
  PROVE  /\ s \o <<e>> \in Seq(S) /\ Len(s) \in Nat /\ Len(s \o <<e>>) = Len(s) + 1
         /\ \A i \in 1 .. Len(s) : (s \o <<e>>)[i] = s[i]
         /\ (s \o <<e>>)[Len(s) + 1] = e
<1>1. Append(s, e) = s \o <<e>>
  BY AppendIsConcat
<1> QED  BY <1>1, AppendProperties, LenProperties

LEMMA SeqOfMore ==
  ASSUME NEW S, NEW T, S \subseteq T
  PROVE  \A s \in Seq(S) : s \in Seq(T)
BY SeqMonotonic

LEMMA Elements == \A S : \A s \in Seq(S) : Len(s) \in Nat /\ \A i \in 1 .. Len(s) : s[i] \in S
BY ElementOfSeq, LenProperties

LEMMA Concat == \A S : \A s, t \in Seq(S) :
  /\ s \o t \in Seq(S) /\ Len(s \o t) = Len(s) + Len(t) /\ Len(s) \in Nat /\ Len(t) \in Nat
  /\ \A i \in 1 .. Len(s) : (s \o t)[i] = s[i]
  /\ \A i \in 1 .. Len(t) : (s \o t)[Len(s) + i] = t[i]
  /\ \A i \in 1 .. Len(s \o t) : i \in 1 .. Len(s) \/ \E j \in 1 .. Len(t) : i = Len(s) + j
<1> SUFFICES ASSUME NEW S, NEW s \in Seq(S), NEW t \in Seq(S)
    PROVE  /\ s \o t \in Seq(S) /\ Len(s \o t) = Len(s) + Len(t) /\ Len(s) \in Nat /\ Len(t) \in Nat
           /\ \A i \in 1 .. Len(s) : (s \o t)[i] = s[i]
           /\ \A i \in 1 .. Len(t) : (s \o t)[Len(s) + i] = t[i]
           /\ \A i \in 1 .. Len(s \o t) : i \in 1 .. Len(s) \/ \E j \in 1 .. Len(t) : i = Len(s) + j
  OBVIOUS
<1>1. Len(s) \in Nat /\ Len(t) \in Nat
  BY LenProperties
<1>2. /\ s \o t \in Seq(S) /\ Len(s \o t) = Len(s) + Len(t)
      /\ \A i \in 1 .. Len(s) + Len(t) : (s \o t)[i] = IF i <= Len(s) THEN s[i] ELSE t[i - Len(s)]
  BY ConcatProperties
<1>3. \A i \in 1 .. Len(s) : i \in 1 .. Len(s) + Len(t) /\ i <= Len(s)
  BY <1>1
<1>4. \A i \in 1 .. Len(t) : /\ Len(s) + i \in 1 .. Len(s) + Len(t) /\ ~(Len(s) + i <= Len(s))
                             /\ Len(s) + i - Len(s) = i
  BY <1>1
<1>5. \A i \in 1 .. Len(s) + Len(t) :
         i \in 1 .. Len(s) \/ (i - Len(s) \in 1 .. Len(t) /\ i = Len(s) + (i - Len(s)))
  BY <1>1
<1> QED  BY <1>1, <1>2, <1>3, <1>4, <1>5

LEMMA RanksConcat ==
  ASSUME NEW S, NEW s \in Seq(S), NEW t \in Seq(S)
  PROVE  Ranks(s \o t) = Ranks(s) \cup Ranks(t)
<1>1. /\ Len(s \o t) = Len(s) + Len(t) /\ Len(s) \in Nat /\ Len(t) \in Nat
      /\ \A i \in 1 .. Len(s) : (s \o t)[i] = s[i]
      /\ \A i \in 1 .. Len(t) : (s \o t)[Len(s) + i] = t[i]
      /\ \A i \in 1 .. Len(s \o t) : i \in 1 .. Len(s) \/ \E j \in 1 .. Len(t) : i = Len(s) + j
  BY Concat
<1>2. Ranks(s \o t) \subseteq Ranks(s) \cup Ranks(t)
  BY <1>1 DEF Ranks
<1>3. (\A i \in 1 .. Len(s) : i \in 1 .. Len(s \o t)) /\ \A i \in 1 .. Len(t) : Len(s) + i \in 1 .. Len(s \o t)
  BY <1>1
<1>4. Ranks(s) \subseteq Ranks(s \o t) /\ Ranks(t) \subseteq Ranks(s \o t)
  BY <1>1, <1>3 DEF Ranks
<1> QED  BY <1>2, <1>4

(* Ranks that go up still do when the first of them are taken, ...         *)
LEMMA Cut ==
  ASSUME NEW w, NEW v, NEW base \in Int, NEW last \in Int, NEW next \in Int, NEW k \in Nat \ {0},
         Len(w) \in Nat, Len(v) \in Nat, Len(v) + k = Len(w), \A i \in 1 .. Len(v) : v[i] = w[i + k],
         Ascend(w, base, last), next <= Rank(w[k])
  PROVE  Ascend(v, next, last)
<1> DEFINE r(i) == Rank(w[i])
           lw == Len(w)
           lv == Len(v)
<1>1. \A i \in 1 .. lw : r(i) \in base + i .. last /\ \A j \in i .. lw : r(i) + (j - i) <= r(j)
  BY DEF Ascend
<1>2. \A i \in 1 .. lv : Rank(v[i]) = r(i + k)
  OBVIOUS
<1>3. \A i \in 1 .. lv : k + i \in 1 .. lw /\ i + k \in k .. lw /\ \A j \in i .. lv : j + k \in i + k .. lw
  OBVIOUS
<1>4. lw \in Nat /\ lv \in Nat /\ lv + k = lw /\ next <= r(k) /\ k \in 1 .. lw
  OBVIOUS
<1>5. ASSUME NEW i \in 1 .. lv
      PROVE  r(i + k) \in next + i .. last /\ \A j \in i .. lv : r(i + k) + (j - i) <= r(j + k)
  <2> HIDE DEF r, lw, lv
  <2>1. i + k \in 1 .. lw /\ r(k) \in Int /\ r(i + k) \in Int /\ r(i + k) <= last
    BY <1>1, <1>3, <1>4
  <2>2. r(k) + (i + k - k) <= r(i + k)
    BY <1>1, <1>3, <1>4
  <2>3. next + i <= r(i + k)
    BY <1>4, <2>1, <2>2
  <2>4. ASSUME NEW j \in i .. lv  PROVE r(i + k) + (j - i) <= r(j + k)
    <3>1. r(i + k) + (j + k - (i + k)) <= r(j + k)
      BY <1>1, <1>3, <2>1
    <3>2. j + k - (i + k) = j - i
      BY <1>4
    <3> QED  BY <3>1, <3>2
  <2> QED  BY <2>1, <2>3, <2>4
<1>6. \A i \in 1 .. lv : i \in Int /\ \A j \in i .. lv : j \in 1 .. lv
  BY <1>4
<1> SUFFICES ASSUME NEW i \in 1 .. Len(v)
             PROVE  /\ Rank(v[i]) \in next + i .. last
                    /\ \A j \in i .. Len(v) : Rank(v[i]) + (j - i) <= Rank(v[j])
  BY DEF Ascend
<1>7. Rank(v[i]) = r(i + k) /\ \A j \in i .. lv : Rank(v[j]) = r(j + k)
  BY <1>2, <1>6
<1> HIDE DEF r
<1> QED  BY <1>5, <1>7

(* ... and when some of them, behind place p, are lost.  What is known to  *)
(* be before these places is still there.                                  *)
LEMMA Thinned ==
  ASSUME NEW w, NEW v, NEW base \in Int, NEW last \in Int, NEW p \in Nat, NEW d \in Nat,
         Len(w) \in Nat, Len(v) \in Nat, Len(v) + d = Len(w), p <= Len(v),
         \A i \in 1 .. Len(v) : v[i] = w[IF i <= p THEN i ELSE i + d],
         Ascend(w, base, last)
  PROVE  /\ Ascend(v, base, last)
         /\ \A known : There(w, base, last, known) /\ (\A r \in known : r \in Int /\ (base < r /\ r <= last => r - base <= p))
                         => There(v, base, last, known)
<1> DEFINE r(i) == Rank(w[i])
           lw == Len(w)
           lv == Len(v)
           at(i) == IF i <= p THEN i ELSE i + d
<1>1. \A i \in 1 .. lw : r(i) \in base + i .. last /\ \A j \in i .. lw : r(i) + (j - i) <= r(j)
  BY DEF Ascend
<1>2. \A i \in 1 .. lv : Rank(v[i]) = r(at(i))
  OBVIOUS
<1>3. lw \in Nat /\ lv \in Nat /\ lv + d = lw /\ p <= lv
  OBVIOUS
<1>4. \A i \in 1 .. lv : /\ at(i) \in 1 .. lw /\ i <= at(i)
                         /\ \A j \in i .. lv : at(j) \in at(i) .. lw /\ j - i <= at(j) - at(i)
  <2> HIDE DEF lw, lv
  <2> QED  BY <1>3
<1>5. ASSUME NEW i \in 1 .. lv
      PROVE  r(at(i)) \in base + i .. last /\ \A j \in i .. lv : r(at(i)) + (j - i) <= r(at(j))
  <2>1. at(i) \in 1 .. lw /\ i <= at(i) /\ \A j \in i .. lv : at(j) \in at(i) .. lw /\ j - i <= at(j) - at(i)
    BY <1>4
  <2> HIDE DEF r, lw, lv, at
  <2>2. r(at(i)) \in base + at(i) .. last /\ \A j \in at(i) .. lw : r(at(i)) + (j - at(i)) <= r(j)
    BY <1>1, <2>1
  <2>3. r(at(i)) \in base + i .. last
    BY <2>1, <2>2
  <2>4. ASSUME NEW j \in i .. lv  PROVE r(at(i)) + (j - i) <= r(at(j))
    <3>1. r(at(i)) + (at(j) - at(i)) <= r(at(j)) /\ j - i <= at(j) - at(i)
      BY <2>1, <2>2
    <3>2. at(j) \in 1 .. lw /\ r(at(j)) \in Int /\ at(j) \in Int /\ at(i) \in Int /\ r(at(i)) \in Int
      <4>1. at(j) \in 1 .. lw /\ at(j) \in Int /\ at(i) \in Int
        BY <1>3, <2>1
      <4> QED  BY <1>1, <2>1, <4>1
    <3>3. j \in Int /\ i \in Int
      BY <1>3
    <3> DEFINE a == at(i)
               b == at(j)
               x == r(at(i))
               y == r(at(j))
    <3>4. /\ a \in Int /\ b \in Int /\ x \in Int /\ y \in Int
          /\ x + (b - a) <= y /\ j - i <= b - a
      BY <3>1, <3>2
    <3> HIDE DEF a, b, x, y
    <3>5. x + (j - i) <= y
      BY <3>3, <3>4
    <3> QED  BY <3>5 DEF x, y
  <2> QED  BY <2>3, <2>4
<1>6. \A i \in 1 .. lv : i \in Int /\ \A j \in i .. lv : j \in 1 .. lv
  BY <1>3
<1>7. Ascend(v, base, last)
  <2> SUFFICES ASSUME NEW i \in 1 .. Len(v)
               PROVE  /\ Rank(v[i]) \in base + i .. last
                      /\ \A j \in i .. Len(v) : Rank(v[i]) + (j - i) <= Rank(v[j])
    BY DEF Ascend
  <2>1. Rank(v[i]) = r(at(i)) /\ \A j \in i .. lv : Rank(v[j]) = r(at(j))
    BY <1>2, <1>6
  <2> HIDE DEF r, at
  <2> QED  BY <1>5, <2>1
<1>8. ASSUME NEW known, There(w, base, last, known),
             \A x \in known : x \in Int /\ (base < x /\ x <= last => x - base <= p)
      PROVE  There(v, base, last, known)
  <2> SUFFICES ASSUME NEW x \in known, base < x, x <= last
               PROVE  x - base \in 1 .. Len(v) /\ Rank(v[x - base]) = x
    BY DEF There
  <2>1. x \in Int /\ x - base <= p /\ x - base \in 1 .. lw /\ r(x - base) = x
    BY <1>8 DEF There
  <2> DEFINE i == x - base
  <2>2. i \in 1 .. lv /\ at(i) = i
    <3> HIDE DEF lw, lv
    <3> QED  BY <1>3, <2>1
  <2>3. Rank(v[i]) = r(at(i))
    BY <1>2, <2>2
  <2> HIDE DEF r, at
  <2> QED  BY <2>1, <2>2, <2>3
<1> QED  BY <1>7, <1>8

(* The next unit that is said comes behind them all, in its place if none  *)
(* before it was lost.                                                     *)
LEMMA OneMore ==
  ASSUME NEW U, NEW w \in Seq(U), NEW u \in U, NEW base \in Int, NEW last \in Int, base <= last,
         Rank(u) = last + 1, Ascend(w, base, last),
         NEW known, There(w, base, last, known), NEW more,
         \A r \in more : r \in Int /\ (r <= last => r \in known) /\ (r = last + 1 /\ base < last => last \in known)
  PROVE  Ascend(w \o <<u>>, base, last + 1) /\ There(w \o <<u>>, base, last + 1, more)
<1> DEFINE v == w \o <<u>>
           r(i) == Rank(w[i])
           lw == Len(w)
<1>1. /\ lw \in Nat /\ Len(v) = lw + 1 /\ \A i \in 1 .. lw : Rank(v[i]) = r(i)
      /\ Rank(v[lw + 1]) = last + 1
  BY ConcatOne
<1>2. \A i \in 1 .. lw : r(i) \in base + i .. last /\ \A j \in i .. lw : r(i) + (j - i) <= r(j)
  BY DEF Ascend
<1> HIDE DEF v, r, lw
<1>3. base + lw <= last
  <2>1. CASE lw = 0
    BY <2>1
  <2>2. CASE lw # 0
    <3>1. r(lw) \in base + lw .. last
      BY <1>1, <1>2, <2>2
    <3> QED  BY <1>1, <3>1
  <2> QED  BY <2>1, <2>2
<1>4. Ascend(v, base, last + 1)
  <2> SUFFICES ASSUME NEW i \in 1 .. Len(v)
               PROVE  /\ Rank(v[i]) \in base + i .. last + 1
                      /\ \A j \in i .. Len(v) : Rank(v[i]) + (j - i) <= Rank(v[j])
    BY DEF Ascend
  <2>1. CASE i = lw + 1
    <3>1. i .. Len(v) = {lw + 1} /\ Rank(v[i]) = last + 1
      BY <1>1, <2>1
    <3> QED  BY <1>1, <1>3, <2>1, <3>1
  <2>2. CASE i \in 1 .. lw
    <3>1. r(i) \in base + i .. last /\ lw \in i .. lw /\ r(lw) <= last /\ r(i) + (lw - i) <= r(lw) /\ r(lw) \in Int
      BY <1>1, <1>2, <2>2
    <3>2. r(i) + (lw + 1 - i) <= last + 1
      BY <1>1, <2>2, <3>1
    <3>3. \A j \in i .. Len(v) : (j \in i .. lw /\ j \in 1 .. lw) \/ j = lw + 1
      BY <1>1, <2>2
    <3>4. ASSUME NEW j \in i .. Len(v)  PROVE r(i) + (j - i) <= Rank(v[j])
      <4>1. CASE j \in i .. lw /\ j \in 1 .. lw
        BY <1>1, <1>2, <2>2, <4>1
      <4>2. CASE j = lw + 1
        BY <1>1, <3>2, <4>2
      <4> QED  BY <3>3, <4>1, <4>2
    <3> QED  BY <1>1, <2>2, <3>1, <3>4
  <2> QED  BY <1>1, <2>1, <2>2
<1>5. There(v, base, last + 1, more)
  <2> SUFFICES ASSUME NEW x \in more, base < x, x <= last + 1
               PROVE  x - base \in 1 .. Len(v) /\ Rank(v[x - base]) = x
    BY DEF There
  <2>1. x \in Int
    OBVIOUS
  <2>2. CASE x <= last
    <3>1. x - base \in 1 .. lw /\ r(x - base) = x
      BY <2>2 DEF There, lw, r
    <3> QED  BY <1>1, <3>1
  <2>3. CASE x = last + 1 /\ base = last
    <3>1. lw = 0
      BY <1>1, <1>3, <2>3
    <3> QED  BY <1>1, <2>3, <3>1
  <2>4. CASE x = last + 1 /\ base < last
    <3>1. last - base \in 1 .. lw
      BY <2>4 DEF There, lw, r
    <3>2. x - base = lw + 1
      BY <1>1, <1>3, <2>4, <3>1
    <3> QED  BY <1>1, <2>4, <3>2
  <2> QED  BY <2>1, <2>2, <2>3, <2>4
<1> QED  BY <1>4, <1>5 DEF v

(* The format after n messages is a matter of these messages alone, ...    *)
LEMMA ModeStays ==
  ASSUME NEW fd, NEW n \in Nat, \A i \in 1 .. n : sent'[fd][i] = sent[fd][i]
  PROVE  Mode(fd, n)' = Mode(fd, n)
<1> DEFINE C == {i \in 1 .. n : sent[fd][i] \in Changes}
           D == {i \in 1 .. n : sent'[fd][i] \in Changes}
<1>1. C = D
  OBVIOUS
<1>2. Mode(fd, n) = IF C = {} THEN "text" ELSE sent[fd][Max(C)]
  BY DEF Mode
<1>3. Mode(fd, n)' = IF D = {} THEN "text" ELSE sent'[fd][Max(D)]
  BY DEF Mode
<1>4. C # {} => Max(C) \in 1 .. n
  BY MaxExists
<1> HIDE DEF C, D
<1> QED  BY <1>1, <1>2, <1>3, <1>4

(* ... and the next one may change it.                                     *)
LEMMA ModeNext ==
  ASSUME NEW fd, NEW n \in Nat
  PROVE  /\ Mode(fd, 0) = "text"
         /\ sent[fd][n + 1] \in Changes => Mode(fd, n + 1) = sent[fd][n + 1]
         /\ sent[fd][n + 1] \notin Changes => Mode(fd, n + 1) = Mode(fd, n)
<1> DEFINE C == {i \in 1 .. n : sent[fd][i] \in Changes}
           D == {i \in 1 .. n + 1 : sent[fd][i] \in Changes}
           Z == {i \in 1 .. 0 : sent[fd][i] \in Changes}
<1>1. /\ Mode(fd, n) = IF C = {} THEN "text" ELSE sent[fd][Max(C)]
      /\ Mode(fd, n + 1) = IF D = {} THEN "text" ELSE sent[fd][Max(D)]
      /\ Mode(fd, 0) = IF Z = {} THEN "text" ELSE sent[fd][Max(Z)]
  BY DEF Mode
<1>2. Z = {}
  OBVIOUS
<1>3. ASSUME sent[fd][n + 1] \in Changes  PROVE Max(D) = n + 1 /\ D # {}
  <2>1. n + 1 \in Nat /\ n + 1 \in D /\ D \in SUBSET (1 .. n + 1) /\ D # {}
    BY <1>3
  <2>2. Max(D) \in D /\ \A j \in D : Max(D) >= j
    <3> HIDE DEF D
    <3> QED  BY <2>1, MaxExists
  <2>3. Max(D) \in 1 .. n + 1
    BY <2>1, <2>2
  <2> HIDE DEF D
  <2> QED  BY <2>1, <2>2, <2>3
<1>4. ASSUME sent[fd][n + 1] \notin Changes  PROVE C = D
  BY <1>4
<1> HIDE DEF C, D, Z
<1> QED  BY <1>1, <1>2, <1>3, <1>4

LEMMA ItemsGrow ==
  ASSUME made \in Nat, made' \in Nat, made <= made'
  PROVE  Items \subseteq Items' /\ Seq(Items) \subseteq Seq(Items)'
<1>1. Items \subseteq Items'
  BY DEF Items
<1>2. \A seq \in Seq(Items) : seq \in Seq(Items')
  BY <1>1, SeqMonotonic
<1> QED  BY <1>1, <1>2

(* How far a connection is in step is a matter of its messages up to there *)
(* and of what was lost, and it is in step with all messages before.       *)
LEMMA InStepLess ==
  ASSUME TypeOK, NEW fd \in Fds, NEW n \in Int, NEW m \in Int, InStep(fd, n), m <= n
  PROVE  InStep(fd, m)
<1>1. lost[fd] \in Int
  <2>1. lost[fd] \in 0 .. Len(sent[fd])
    BY DEF TypeOK
  <2> QED  BY <2>1
<1> QED  BY <1>1 DEF InStep

LEMMA InStepStays ==
  ASSUME NEW fd, NEW n \in Int, \A i \in 1 .. n : sent'[fd][i] = sent[fd][i], lost'[fd] = lost[fd]
  PROVE  InStep(fd, n)' = InStep(fd, n)
BY DEF InStep

(* What a descriptor is about stays while nothing of it changes.           *)
Same(fd) == /\ ClientIF'[fd] = ClientIF[fd] /\ Format'[fd] = Format[fd]
            /\ InputBuffer'[fd] = InputBuffer[fd] /\ line'[fd] = line[fd]
            /\ peer'[fd] = peer[fd] /\ sent'[fd] = sent[fd]
            /\ upTo'[fd] = upTo[fd] /\ lost'[fd] = lost[fd]
            /\ eof'[fd] = eof[fd] /\ half'[fd] = half[fd]

LEMMA SameStream ==
  ASSUME TypeOK, NEW fd \in Fds, Same(fd), Stream(fd)
  PROVE  Stream(fd)' /\ (LeftBehind(fd) => LeftBehind(fd)')
<1>1. /\ UnitsOf(fd)' = UnitsOf(fd) /\ LastRank(fd)' = LastRank(fd) /\ Way(fd)' = Way(fd)
      /\ Known(fd)' = Known(fd)
  BY DEF Same, UnitsOf, LastRank, Way, Known, InStep
<1>2. PICK n \in Int : n = upTo[fd] /\ n = upTo'[fd]
  <2>1. upTo[fd] \in 0 .. Len(sent[fd])
    BY DEF TypeOK
  <2> QED  BY <2>1 DEF Same
<1>3. /\ Mode(fd, upTo[fd])' = Mode(fd, upTo[fd])
      /\ InStep(fd, upTo[fd])' = InStep(fd, upTo[fd])
  <2>1. Mode(fd, n)' = Mode(fd, n) /\ InStep(fd, n)' = InStep(fd, n)
    BY DEF Same, Mode, InStep
  <2>2. Mode(fd, n)' = Mode(fd, upTo[fd])' /\ InStep(fd, n)' = InStep(fd, upTo[fd])'
    BY <1>2 DEF Mode, InStep
  <2> QED  BY <1>2, <2>1, <2>2
<1>4. ClientIF[fd] = "tcp" => ClientStream(fd)'
  BY <1>1, <1>3 DEF Stream, ClientStream, Same
<1>5. ClientIF[fd] = "web" => LinkStream(fd)'
  <2>1. Held(fd)' = Held(fd) /\ FramesOf(fd)' = FramesOf(fd)
    BY <1>1 DEF Held, FramesOf, Same
  <2> QED  BY <1>1, <2>1 DEF Stream, LinkStream, Same
<1>6. ClientIF[fd] = "none" => Nothing(fd)'
  BY DEF Stream, Nothing, Same
<1>7. LeftBehind(fd) => LeftBehind(fd)'
  BY DEF LeftBehind, Same, InStep
<1> QED  BY <1>4, <1>5, <1>6, <1>7 DEF Stream, Same

-----------------------------------------------------------------------------
(* What clients and the relay server say.                                  *)
Extended(fd) == /\ sent[fd] \in Seq(Kinds \cup WebKinds) /\ sent'[fd] \in Seq(Kinds \cup WebKinds)
                /\ Len(sent[fd]) <= Len(sent'[fd])
                /\ \A i \in 1 .. Len(sent[fd]) : sent'[fd][i] = sent[fd][i]

LEMMA UnitsGrow ==
  ASSUME NEW fd, Extended(fd), peer'[fd] = peer[fd]
  PROVE  UnitsOf(fd) \subseteq UnitsOf(fd)' /\ \A seq \in Seq(UnitsOf(fd)) : seq \in Seq(UnitsOf(fd)')
<1>1. Len(sent[fd]) \in Nat /\ Len(sent'[fd]) \in Nat
  BY LenProperties DEF Extended
<1>2. UnitsOf(fd) \subseteq UnitsOf(fd)'
  BY <1>1 DEF Extended, UnitsOf
<1> QED  BY <1>2, SeqMonotonic

LEMMA RankFacts ==
  ASSUME NEW fd, sent[fd] \in Seq(Kinds \cup WebKinds), half[fd] \in BOOLEAN
  PROVE  /\ LastRank(fd) \in Int /\ Len(sent[fd]) \in Nat
         /\ LastRank(fd) \in 2 * Len(sent[fd]) - 1 .. 2 * Len(sent[fd])
         /\ \A u \in UnitsOf(fd) : Rank(u) \in Nat /\ u.n \in 1 .. Len(sent[fd]) /\ u.end \in BOOLEAN
                                   /\ Rank(u) = IF u.end THEN 2 * u.n ELSE 2 * u.n - 1
<1>1. Len(sent[fd]) \in Nat
  BY LenProperties
<1> QED  BY <1>1 DEF LastRank, UnitsOf, Rank

LEMMA KnownBefore ==
  ASSUME TypeOK, NEW fd \in Fds, Extended(fd), lost'[fd] = lost[fd]
  PROVE  \A r \in Known(fd)' : /\ r \in Int
                               /\ r <= 2 * Len(sent[fd]) => r \in Known(fd)
                               /\ 1 < r /\ r <= 2 * Len(sent[fd]) + 1 => r - 1 \in Known(fd)
<1> DEFINE l == Len(sent[fd])
<1>1. l \in Nat /\ lost[fd] \in Int /\ \A i \in 1 .. l : sent'[fd][i] = sent[fd][i]
  <2>1. l \in Nat /\ \A i \in 1 .. l : sent'[fd][i] = sent[fd][i]
    BY LenProperties DEF Extended
  <2>2. lost[fd] \in 0 .. l
    BY DEF TypeOK
  <2> QED  BY <2>1, <2>2
<1> SUFFICES ASSUME NEW r \in Known(fd)'
             PROVE  r \in Int /\ (r <= 2 * l => r \in Known(fd)) /\ (1 < r /\ r <= 2 * l + 1 => r - 1 \in Known(fd))
  OBVIOUS
<1>2. PICK n \in 1 .. Len(sent'[fd]) : InStep(fd, n)' /\ r \in {2 * n - 1, 2 * n}
  BY DEF Known
<1>3. r \in Int /\ n \in Nat \ {0}
  BY <1>2
<1>4. ASSUME NEW m \in 1 .. l, m <= n  PROVE InStep(fd, m)
  <2>1. /\ lost[fd] = 0 \/ n < lost[fd]
        /\ \A i \in 1 .. n : sent'[fd][i] \notin Unbalanced
    BY <1>2 DEF InStep
  <2>2. \A i \in 1 .. m : i \in 1 .. n /\ i \in 1 .. l
    BY <1>1, <1>3, <1>4
  <2> HIDE DEF l
  <2> QED  BY <1>1, <1>3, <1>4, <2>1, <2>2 DEF InStep
<1>5. ASSUME r <= 2 * l  PROVE r \in Known(fd)
  <2>1. n \in 1 .. l
    <3> HIDE DEF l
    <3> QED  BY <1>1, <1>2, <1>3, <1>5
  <2> QED  BY <1>2, <1>3, <1>4, <2>1 DEF Known
<1>6. ASSUME 1 < r, r <= 2 * l + 1  PROVE r - 1 \in Known(fd)
  <2>1. PICK m \in 1 .. l : m <= n /\ r - 1 \in {2 * m - 1, 2 * m}
    <3> HIDE DEF l
    <3>1. CASE r = 2 * n
      <4>1. n \in 1 .. l /\ n <= n /\ r - 1 = 2 * n - 1
        BY <1>1, <1>3, <1>6, <3>1
      <4> QED  BY <4>1
    <3>2. CASE r = 2 * n - 1
      <4>1. n - 1 \in 1 .. l /\ n - 1 <= n /\ r - 1 = 2 * (n - 1)
        BY <1>1, <1>3, <1>6, <3>2
      <4> QED  BY <4>1
    <3> QED  BY <1>2, <3>1, <3>2
  <2>2. InStep(fd, m)
    BY <1>4, <2>1
  <2>3. r - 1 \in Int
    <3> HIDE DEF l
    <3> QED  BY <1>3
  <2> QED  BY <2>1, <2>2, <2>3 DEF Known
<1> QED  BY <1>3, <1>5, <1>6

LEMMA ClientTalks ==
  ASSUME TypeOK, NEW fd \in Fds, half[fd] \in BOOLEAN, half'[fd] \in BOOLEAN,
         ClientStream(fd), Extended(fd),
         NEW u \in UnitsOf(fd)', Rank(u) = LastRank(fd) + 1, LastRank(fd)' = LastRank(fd) + 1,
         line'[fd] = line[fd] \o <<u>>,
         UNCHANGED <<peer, Format, InputBuffer, upTo, lost>>
  PROVE  ClientStream(fd)'
<1> DEFINE U == UnitsOf(fd)'
           l == line[fd]
           b == InputBuffer[fd]
           base == 2 * upTo[fd]
           last == LastRank(fd)
<1>1. l \in Seq(U) /\ b \in Seq(U) /\ u \in U
  BY UnitsGrow DEF ClientStream
<1>2. /\ l \o <<u>> \in Seq(U) /\ Len(l \o <<u>>) = Len(l) + 1 /\ Len(l) \in Nat
      /\ \A i \in 1 .. Len(l) : (l \o <<u>>)[i] = l[i]
      /\ (l \o <<u>>)[Len(l) + 1] = u
  <2> HIDE DEF U, l
  <2> QED  BY <1>1, ConcatOne
<1>3. /\ last \in Int /\ last \in 2 * Len(sent[fd]) - 1 .. 2 * Len(sent[fd]) /\ base \in Int /\ 0 <= base
      /\ base <= last /\ upTo[fd] \in Nat /\ upTo[fd] <= Len(sent[fd]) /\ Len(sent[fd]) \in Nat
      /\ lost[fd] \in 0 .. Len(sent[fd])
  <2>1. /\ upTo[fd] \in 0 .. Len(sent[fd]) /\ lost[fd] \in 0 .. Len(sent[fd])
        /\ last \in Int /\ Len(sent[fd]) \in Nat /\ last \in 2 * Len(sent[fd]) - 1 .. 2 * Len(sent[fd])
    BY RankFacts DEF TypeOK, Extended
  <2>2. base <= last
    BY DEF ClientStream
  <2> QED  BY <2>1, <2>2
<1>4. Way(fd)' = Way(fd) \o <<u>> /\ Way(fd) \in Seq(U)
  <2>1. Way(fd)' = b \o (l \o <<u>>) /\ Way(fd) = b \o l
    BY DEF Way
  <2>2. b \o l \in Seq(U) /\ (b \o l) \o <<u>> = b \o (l \o <<u>>)
    <3> HIDE DEF b, l, U
    <3>1. <<u>> \in Seq(U)
      BY <1>1
    <3> QED  BY <1>1, <3>1, ConcatProperties, ConcatAssociative
  <2> QED  BY <2>1, <2>2
<1>5. Ascend(Way(fd)', base, last + 1) /\ There(Way(fd)', base, last + 1, Known(fd)')
  <2> DEFINE w == Way(fd)
             known == Known(fd)
             more == Known(fd)'
  <2>1. Ascend(w, base, last) /\ There(w, base, last, known)
    BY DEF ClientStream
  <2>2. \A r \in more : /\ r \in Int /\ (r <= last => r \in known)
                        /\ (r = last + 1 /\ base < last => last \in known)
    <3>1. \A r \in more : /\ r \in Int
                          /\ r <= 2 * Len(sent[fd]) => r \in known
                          /\ 1 < r /\ r <= 2 * Len(sent[fd]) + 1 => r - 1 \in known
      BY KnownBefore
    <3> HIDE DEF more, known, base, last
    <3> SUFFICES ASSUME NEW r \in more
                 PROVE  /\ r \in Int /\ (r <= last => r \in known)
                        /\ (r = last + 1 /\ base < last => last \in known)
      OBVIOUS
    <3> DEFINE q == 2 * Len(sent[fd])
    <3>2. r \in Int /\ (r <= q => r \in known) /\ (1 < r /\ r <= q + 1 => r - 1 \in known)
      BY <3>1
    <3>3. q \in Int /\ last \in q - 1 .. q /\ 0 <= base /\ base \in Int
      BY <1>3
    <3> HIDE DEF q
    <3>4. r <= last => r \in known
      BY <3>2, <3>3
    <3>5. ASSUME r = last + 1, base < last  PROVE last \in known
      <4>1. 1 < r /\ r <= q + 1 /\ r - 1 = last
        BY <3>2, <3>3, <3>5
      <4> QED  BY <3>2, <4>1
    <3> QED  BY <3>2, <3>4, <3>5
  <2> HIDE DEF w, known, more, base, last, U
  <2>3. Ascend(w \o <<u>>, base, last + 1) /\ There(w \o <<u>>, base, last + 1, more)
    BY <1>1, <1>3, <1>4, <2>1, <2>2, OneMore DEF w, last
  <2> QED  BY <1>4, <2>3 DEF w, more
<1>6. \A i \in 1 .. Len(line'[fd]) : lost'[fd] <= line'[fd][i].n
  <2>1. \A i \in 1 .. Len(l) : lost[fd] <= l[i].n
    BY DEF ClientStream
  <2>2. lost[fd] <= u.n
    <3>1. u.n \in Nat /\ Rank(u) = IF u.end THEN 2 * u.n ELSE 2 * u.n - 1
      <4>1. u.n \in 1 .. Len(sent'[fd])
        BY DEF UnitsOf
      <4>2. Len(sent'[fd]) \in Nat
        BY LenProperties DEF Extended
      <4> QED  BY <4>1, <4>2 DEF Rank
    <3> DEFINE n == u.n
    <3>2. n \in Nat /\ Rank(u) \in {2 * n, 2 * n - 1} /\ Rank(u) = last + 1
      BY <3>1
    <3> HIDE DEF n, last
    <3>3. lost[fd] <= n
      BY <1>3, <3>2
    <3> QED  BY <3>3 DEF n
  <2>3. \A i \in 1 .. Len(l) + 1 : i \in 1 .. Len(l) \/ i = Len(l) + 1
    BY <1>2
  <2> HIDE DEF l
  <2> QED  BY <1>2, <2>1, <2>2, <2>3 DEF l
<1>7. /\ Mode(fd, upTo[fd])' = Mode(fd, upTo[fd])
      /\ InStep(fd, upTo[fd])' = InStep(fd, upTo[fd])
  <2>1. PICK n \in Nat : n = upTo[fd]
    BY <1>3
  <2>2. \A i \in 1 .. n : sent'[fd][i] = sent[fd][i]
    BY <1>3, <2>1 DEF Extended
  <2>3. Mode(fd, n)' = Mode(fd, n) /\ InStep(fd, n)' = InStep(fd, n)
    BY <2>2, ModeStays, InStepStays
  <2>4. Mode(fd, n)' = Mode(fd, upTo[fd])' /\ InStep(fd, n)' = InStep(fd, upTo[fd])'
    BY <2>1 DEF Mode, InStep
  <2> QED  BY <2>1, <2>3, <2>4
<1>8. InStep(fd, upTo[fd])' => Format'[fd] = Mode(fd, upTo[fd])'
  BY <1>7 DEF ClientStream
<1>9. base' = base /\ LastRank(fd)' = last + 1 /\ base <= last + 1
  BY <1>3
<1>10. line'[fd] \in Seq(U) /\ InputBuffer'[fd] \in Seq(U)
  BY <1>1, <1>2
<1> HIDE DEF U, l, b, last
<1> QED  BY <1>5, <1>6, <1>8, <1>9, <1>10 DEF ClientStream, U

(* A frame more on the link, at its end or taken from its head.            *)
LEMMA FrameMore ==
  ASSUME NEW F, NEW l \in Seq(F), NEW f \in F, NEW held \in SUBSET Int,
         NEW last \in Nat, NEW more \in Nat, last <= more,
         InOrder(held, l, last), \A r \in held : r <= last,
         Ranks(f.units) \subseteq last + 1 .. more
  PROVE  InOrder(held, l, more) /\ InOrder(held, l \o <<f>>, more)
<1> DEFINE m == l \o <<f>>
<1>1. /\ Len(l) \in Nat /\ Len(m) = Len(l) + 1
      /\ \A i \in 1 .. Len(l) : m[i] = l[i]
      /\ m[Len(l) + 1] = f
  BY ConcatOne
<1>2. \A i \in 1 .. Len(m) : i \in 1 .. Len(l) \/ (i = Len(l) + 1 /\ m[i] = f)
  <2> HIDE DEF m
  <2> QED  BY <1>1
<1>3. \A i \in 1 .. Len(l) : Ranks(l[i].units) \subseteq 1 .. more /\ Precede(Ranks(l[i].units), Ranks(f.units))
  <2> SUFFICES ASSUME NEW i \in 1 .. Len(l)
               PROVE  Ranks(l[i].units) \subseteq 1 .. more /\ Precede(Ranks(l[i].units), Ranks(f.units))
    OBVIOUS
  <2>1. Ranks(l[i].units) \subseteq 1 .. last
    BY DEF InOrder
  <2> QED  BY <2>1 DEF Precede
<1>4. Precede(held, Ranks(f.units)) /\ Ranks(f.units) \subseteq 1 .. more
  BY DEF Precede
<1>5. InOrder(held, l, more)
  BY <1>3 DEF InOrder
<1>6. InOrder(held, m, more)
  <2> SUFFICES ASSUME NEW i \in 1 .. Len(m)
               PROVE  /\ Ranks(m[i].units) \subseteq 1 .. more
                      /\ Precede(held, Ranks(m[i].units))
                      /\ \A j \in i + 1 .. Len(m) : Precede(Ranks(m[i].units), Ranks(m[j].units))
    BY DEF InOrder
  <2> HIDE DEF m
  <2>1. CASE i \in 1 .. Len(l)
    <3>1. \A j \in i + 1 .. Len(m) : (j \in i + 1 .. Len(l) /\ m[j] = l[j]) \/ m[j] = f
      BY <1>1, <1>2, <2>1
    <3> QED  BY <1>1, <1>3, <1>5, <2>1, <3>1 DEF InOrder
  <2>2. CASE i = Len(l) + 1
    <3>1. i + 1 .. Len(m) = {}
      BY <1>1, <2>2
    <3> QED  BY <1>1, <1>4, <2>2, <3>1
  <2> QED  BY <1>2, <2>1, <2>2
<1> QED  BY <1>5, <1>6

LEMMA FrameLess ==
  ASSUME NEW F, NEW l \in Seq(F), l # << >>, NEW held, NEW last, InOrder(held, l, last)
  PROVE  InOrder(held \cup Ranks(Head(l).units), Tail(l), last)
<1>1. /\ Len(l) \in Nat \ {0} /\ Len(Tail(l)) = Len(l) - 1 /\ Head(l) = l[1]
      /\ \A i \in 1 .. Len(Tail(l)) : Tail(l)[i] = l[i + 1]
  BY HeadTailProperties, EmptySeq
<1>2. \A i \in 1 .. Len(Tail(l)) : /\ i + 1 \in 1 .. Len(l) /\ i + 1 \in 1 + 1 .. Len(l)
                                  /\ \A j \in i + 1 .. Len(Tail(l)) : j + 1 \in (i + 1) + 1 .. Len(l)
  BY <1>1
<1>3. 1 \in 1 .. Len(l)
  BY <1>1
<1>4. \A i \in 1 .. Len(Tail(l)) : \A j \in i + 1 .. Len(Tail(l)) : j \in 1 .. Len(Tail(l))
  BY <1>1
<1> SUFFICES ASSUME NEW i \in 1 .. Len(Tail(l))
             PROVE  /\ Ranks(Tail(l)[i].units) \subseteq 1 .. last
                    /\ Precede(held \cup Ranks(Head(l).units), Ranks(Tail(l)[i].units))
                    /\ \A j \in i + 1 .. Len(Tail(l)) : Precede(Ranks(Tail(l)[i].units), Ranks(Tail(l)[j].units))
  BY DEF InOrder
<1> DEFINE h == l[i + 1]
<1>5. Ranks(h.units) \subseteq 1 .. last /\ Precede(held, Ranks(h.units))
  BY <1>2 DEF InOrder
<1>6. Precede(Ranks(l[1].units), Ranks(h.units))
  BY <1>2, <1>3 DEF InOrder
<1>7. \A j \in i + 1 .. Len(Tail(l)) : Precede(Ranks(h.units), Ranks(l[j + 1].units))
  BY <1>2 DEF InOrder
<1>8. Tail(l)[i] = h /\ \A j \in i + 1 .. Len(Tail(l)) : Tail(l)[j] = l[j + 1]
  BY <1>1, <1>4
<1>9. Precede(held \cup Ranks(l[1].units), Ranks(h.units))
  BY <1>5, <1>6 DEF Precede
<1> HIDE DEF h
<1> QED  BY <1>1, <1>5, <1>7, <1>8, <1>9

LEMMA LinkTalks ==
  ASSUME TypeOK, NEW fd \in Fds, half[fd] \in BOOLEAN, half'[fd] \in BOOLEAN,
         LinkStream(fd), Extended(fd), sent'[fd] \in Seq(WebKinds), LastRank(fd) <= LastRank(fd)',
         NEW f \in FramesOf(fd)', Ranks(f.units) \subseteq LastRank(fd) + 1 .. LastRank(fd)',
         line'[fd] \in {line[fd], line[fd] \o <<f>>},
         UNCHANGED <<peer, Format, InputBuffer, upTo, lost>>
  PROVE  LinkStream(fd)'
<1> DEFINE l == line[fd]
           F == FramesOf(fd)'
           held == Held(fd)
<1>1. LastRank(fd) \in Nat /\ LastRank(fd)' \in Nat
  <2>1. LastRank(fd) \in Int /\ upTo[fd] \in Nat /\ 2 * upTo[fd] <= LastRank(fd)
    <3>1. LastRank(fd) \in Int
      BY RankFacts DEF Extended
    <3>2. 2 * upTo[fd] \in Held(fd)
      BY DEF Held
    <3> QED  BY <3>1, <3>2 DEF LinkStream, TypeOK
  <2>2. LastRank(fd)' \in Int
    <3>1. Len(sent'[fd]) \in Nat
      BY LenProperties DEF Extended
    <3> QED  BY <3>1 DEF LastRank
  <2> QED  BY <2>1, <2>2
<1>2. InputBuffer[fd] \in Seq(UnitsOf(fd)') /\ l \in Seq(F)
  <2>1. UnitsOf(fd) \subseteq UnitsOf(fd)' /\ \A us \in Seq(UnitsOf(fd)) : us \in Seq(UnitsOf(fd)')
    BY UnitsGrow
  <2>2. FramesOf(fd) \subseteq FramesOf(fd)'
    BY <2>1 DEF FramesOf
  <2> QED  BY <2>1, <2>2, SeqOfMore DEF LinkStream
<1>3. held \in SUBSET Int /\ \A r \in held : 2 * upTo[fd] <= r /\ r <= LastRank(fd)
  BY DEF LinkStream
<1>4. InOrder(held, l, LastRank(fd)') /\ InOrder(held, l \o <<f>>, LastRank(fd)')
  <2>1. InOrder(held, l, LastRank(fd))
    BY DEF LinkStream
  <2> HIDE DEF l, F, held
  <2> QED  BY <1>1, <1>2, <1>3, <2>1, FrameMore DEF F
<1>5. l \o <<f>> \in Seq(F)
  <2> HIDE DEF l, F
  <2> QED  BY <1>2, ConcatOne DEF F
<1>6. Held(fd)' = held /\ held \subseteq 2 * upTo[fd] .. LastRank(fd)'
  <2>1. Held(fd)' = held
    BY DEF Held
  <2>2. upTo[fd] \in Nat
    BY SMTT(30) DEF TypeOK
  <2>3. 2 * upTo[fd] \in Int
    BY <2>2
  <2> HIDE DEF held
  <2> QED  BY <1>1, <1>3, <2>1, <2>3
<1>7. Precede({2 * upTo[fd]}, Ranks(InputBuffer[fd]))' /\ Format'[fd] = "json"
  BY DEF LinkStream
<1> HIDE DEF held, F
<1> QED  BY <1>2, <1>4, <1>5, <1>6, <1>7 DEF LinkStream, F

LEMMA RanksOf ==
  /\ Ranks(<< >>) = {}
  /\ \A u : Ranks(<<u>>) = {Rank(u)}
  /\ \A u, v : Ranks(<<u, v>>) = {Rank(u), Rank(v)}
<1>1. 1 .. Len(<< >>) = {} /\ (\A u : 1 .. Len(<<u>>) = {1}) /\ \A u, v : 1 .. Len(<<u, v>>) = {1, 2}
  OBVIOUS
<1> QED  BY <1>1 DEF Ranks

(* A step that is about one descriptor.                                    *)
LEMMA OneStream ==
  ASSUME Streams, TypeOK', Shapes', NEW fd \in Fds, rx.fd \in {fd, None},
         \A g \in Fds \ {fd} : Same(g), Stream(fd)', fd = rx'.fd \/ LeftBehind(fd)', CallAgrees'
  PROVE  Streams'
<1>1. ASSUME NEW g \in Fds, g # fd  PROVE Stream(g)' /\ LeftBehind(g)'
  <2>1. Same(g) /\ Stream(g) /\ LeftBehind(g)
    BY <1>1, FdFacts DEF Streams
  <2> QED  BY <2>1, SameStream DEF Streams
<1> QED  BY <1>1 DEF Streams

LEMMA TalkKeepsTypes ==
  ASSUME TypeOK, UNCHANGED <<daemon, peer, made>>, NEW fd \in Fds,
         sent' = sent \/ \E k \in Kinds \cup WebKinds : sent' = [sent EXCEPT ![fd] = Append(@, k)]
  PROVE  TypeOK' /\ \A g \in Fds : Extended(g)
<1>0. sent \in [Fds -> Seq(Kinds \cup WebKinds)]
  BY DEF TypeOK
<1>1. \A g \in Fds : sent[g] \in Seq(Kinds \cup WebKinds) /\ Len(sent[g]) \in Nat
  BY <1>0, LenProperties
<1>2. /\ sent' \in [Fds -> Seq(Kinds \cup WebKinds)]
      /\ \A g \in Fds : /\ Len(sent'[g]) \in Nat /\ Len(sent[g]) <= Len(sent'[g])
                        /\ \A i \in 1 .. Len(sent[g]) : sent'[g][i] = sent[g][i]
  <2>1. CASE sent' = sent
    BY <1>0, <1>1, <2>1
  <2>2. ASSUME NEW k \in Kinds \cup WebKinds, sent' = [sent EXCEPT ![fd] = Append(@, k)]
        PROVE  /\ sent' \in [Fds -> Seq(Kinds \cup WebKinds)]
               /\ \A g \in Fds : /\ Len(sent'[g]) \in Nat /\ Len(sent[g]) <= Len(sent'[g])
                                 /\ \A i \in 1 .. Len(sent[g]) : sent'[g][i] = sent[g][i]
    <3>1. /\ Append(sent[fd], k) \in Seq(Kinds \cup WebKinds) /\ Len(Append(sent[fd], k)) = Len(sent[fd]) + 1
          /\ \A i \in 1 .. Len(sent[fd]) : Append(sent[fd], k)[i] = sent[fd][i]
      BY <1>1, AppendProperties
    <3> QED  BY <1>0, <1>1, <2>2, <3>1
  <2> QED  BY <2>1, <2>2
<1>3. \A g \in Fds : Extended(g)
  BY <1>1, <1>2 DEF Extended
<1>4. \A g \in Fds : /\ Len(InputBuffer'[g]) < BufferSize
                     /\ {upTo'[g], lost'[g]} \subseteq 0 .. Len(sent'[g])
  <2>1. \A g \in Fds : Len(InputBuffer[g]) < BufferSize /\ {upTo[g], lost[g]} \subseteq 0 .. Len(sent[g])
    BY DEF TypeOK
  <2> QED  BY <1>1, <1>2, <2>1 DEF daemon, table, past
<1> QED  BY <1>2, <1>3, <1>4 DEF TypeOK, daemon, table, web, past, Items

LEMMA ClientTalkStep ==
  ASSUME Inductive, Streams, Quiet, NEW fd \in Fds,
         SayRest(fd) \/ \E k \in Kinds : Say(fd, k)
  PROVE  Streams'
<1> DEFINE n == Len(sent[fd])
<1>1. /\ TypeOK /\ Shapes /\ Stream(fd) /\ LeftBehind(fd) /\ ClientStream(fd) /\ ClientIF[fd] = "tcp"
      /\ half[fd] \in BOOLEAN /\ sent[fd] \in Seq(Kinds \cup WebKinds) /\ n \in Nat
      /\ peer[fd] \in 0 .. made
  <2>1. TypeOK /\ Shapes /\ Stream(fd) /\ LeftBehind(fd) /\ ClientIF[fd] = "tcp"
    BY FdFacts DEF Streams, Say, SayRest, Quiet
  <2> QED  BY <2>1, LenProperties DEF TypeOK, Shapes, Stream
<1>2. UNCHANGED <<daemon, peer, made, eof>>
  BY DEF Say, SayRest
<1> DEFINE Said(k, u) ==
        /\ sent' \in {sent, [sent EXCEPT ![fd] = Append(@, k)]}
        /\ line' = [line EXCEPT ![fd] = @ \o <<u>>] /\ half' \in [Fds -> BOOLEAN]
        /\ \A g \in Fds : g # fd => half'[g] = half[g]
        /\ u \in UnitsOf(fd)' /\ Rank(u) = LastRank(fd) + 1 /\ LastRank(fd)' = LastRank(fd) + 1
        /\ sent'[fd] # << >>
<1>3. PICK k \in Kinds \cup WebKinds : \E u : Said(k, u)
  <2>1. ASSUME NEW k \in Kinds, Say(fd, k)
        PROVE  LET u == Unit(peer[fd], n + 1, k, FALSE) IN
               /\ sent' = [sent EXCEPT ![fd] = Append(@, k)]
               /\ line' = [line EXCEPT ![fd] = @ \o <<u>>] /\ half' = [half EXCEPT ![fd] = TRUE]
               /\ u \in UnitsOf(fd)' /\ Rank(u) = LastRank(fd) + 1 /\ LastRank(fd)' = LastRank(fd) + 1
               /\ sent'[fd] # << >>
    <3>1. /\ ~half[fd] /\ sent' = [sent EXCEPT ![fd] = Append(@, k)]
          /\ line' = [line EXCEPT ![fd] = @ \o <<Unit(peer[fd], n + 1, k, FALSE)>>]
          /\ half' = [half EXCEPT ![fd] = TRUE]
      BY <2>1 DEF Say, Says, Adds
    <3>2. sent'[fd] = Append(sent[fd], k) /\ half'[fd]
      BY <1>1, <3>1 DEF TypeOK, Shapes
    <3>3. Len(sent'[fd]) = n + 1 /\ sent'[fd][n + 1] = k /\ sent'[fd] # << >>
      BY <1>1, <3>2, AppendProperties
    <3>4. LastRank(fd) = 2 * n /\ LastRank(fd)' = 2 * (n + 1) - 1
      BY <3>1, <3>2, <3>3 DEF LastRank
    <3>5. n + 1 \in 1 .. Len(sent'[fd]) /\ peer'[fd] = peer[fd]
      BY <1>1, <1>2, <3>3
    <3>6. Unit(peer[fd], n + 1, k, FALSE) \in UnitsOf(fd)'
      BY <3>3, <3>5 DEF UnitsOf, Unit
    <3>7. Rank(Unit(peer[fd], n + 1, k, FALSE)) = 2 * (n + 1) - 1
      BY DEF Rank, Unit
    <3>8. 2 * (n + 1) - 1 = 2 * n + 1
      BY <1>1
    <3> HIDE DEF n
    <3> QED  BY <3>1, <3>3, <3>4, <3>6, <3>7, <3>8
  <2>2. ASSUME SayRest(fd)
        PROVE  LET u == Unit(peer[fd], n, Last(sent[fd]), TRUE) IN
               /\ sent' = sent
               /\ line' = [line EXCEPT ![fd] = @ \o <<u>>] /\ half' = [half EXCEPT ![fd] = FALSE]
               /\ u \in UnitsOf(fd)' /\ Rank(u) = LastRank(fd) + 1 /\ LastRank(fd)' = LastRank(fd) + 1
               /\ sent'[fd] # << >> /\ Last(sent[fd]) \in Kinds \cup WebKinds
    <3>1. /\ half[fd] /\ sent' = sent
          /\ line' = [line EXCEPT ![fd] = @ \o <<Unit(peer[fd], n, Last(sent[fd]), TRUE)>>]
          /\ half' = [half EXCEPT ![fd] = FALSE]
      BY <2>2 DEF SayRest, Says
    <3>2. sent'[fd] = sent[fd] /\ ~half'[fd] /\ sent[fd] # << >>
      BY <1>1, <3>1 DEF Shapes, Stream
    <3>3. n \in 1 .. n /\ sent[fd][n] \in Kinds \cup WebKinds
      BY <1>1, <3>2, EmptySeq, ElementOfSeq
    <3>4. LastRank(fd) = 2 * n - 1 /\ LastRank(fd)' = 2 * n
      BY <3>1, <3>2 DEF LastRank
    <3>5. Unit(peer[fd], n, Last(sent[fd]), TRUE) \in UnitsOf(fd)'
      BY <1>2, <3>2, <3>3 DEF UnitsOf, Unit, Last
    <3>6. Rank(Unit(peer[fd], n, Last(sent[fd]), TRUE)) = 2 * n
      BY DEF Rank, Unit
    <3>7. 2 * n = 2 * n - 1 + 1
      BY <1>1
    <3>8. Last(sent[fd]) \in Kinds \cup WebKinds
      BY <3>3 DEF Last
    <3> HIDE DEF n
    <3> QED  BY <3>1, <3>2, <3>4, <3>5, <3>6, <3>7, <3>8
  <2>3. \A b \in BOOLEAN : /\ [half EXCEPT ![fd] = b] \in [Fds -> BOOLEAN]
                          /\ \A g \in Fds : g # fd => [half EXCEPT ![fd] = b][g] = half[g]
    BY <1>1 DEF Shapes
  <2>4. CASE SayRest(fd)
    <3>1. Said(Last(sent[fd]), Unit(peer[fd], n, Last(sent[fd]), TRUE)) /\ Last(sent[fd]) \in Kinds \cup WebKinds
      BY <2>2, <2>3, <2>4
    <3> HIDE DEF Said
    <3> QED  BY <3>1
  <2>5. CASE \E k \in Kinds : Say(fd, k)
    <3>1. PICK k \in Kinds : Say(fd, k)
      BY <2>5
    <3>2. Said(k, Unit(peer[fd], n + 1, k, FALSE))
      BY <2>1, <2>3, <3>1
    <3> HIDE DEF Said
    <3> QED  BY <3>2
  <2> QED  BY <2>4, <2>5
<1>12. PICK u : Said(k, u)
  BY <1>3
<1>4. TypeOK' /\ \A g \in Fds : Extended(g)
  BY <1>1, <1>2, <1>12, TalkKeepsTypes
<1>5. line'[fd] = line[fd] \o <<u>> /\ half'[fd] \in BOOLEAN
  BY <1>1, <1>12 DEF Shapes
<1>6. UNCHANGED <<ClientIF, peer, Format, InputBuffer, upTo, lost, rx>>
  BY <1>2 DEF daemon, table, past
<1>7. ClientStream(fd)'
  BY <1>1, <1>12, <1>4, <1>5, <1>6, ClientTalks
<1>8. Stream(fd)'
  BY <1>1, <1>12, <1>6, <1>7 DEF Stream
<1>9. LeftBehind(fd)'
  <2>1. upTo[fd] \in 0 .. n /\ \A i \in 1 .. n : sent'[fd][i] = sent[fd][i]
    BY <1>1, <1>4 DEF TypeOK, Extended
  <2>2. upTo[fd] # 0 => sent'[fd][upTo[fd]] = sent[fd][upTo[fd]]
    <3> HIDE DEF n
    <3> QED  BY <1>1, <2>1
  <2>3. ASSUME NEW i \in 1 .. Len(InputBuffer[fd])
        PROVE  InStep(fd, InputBuffer[fd][i].n)' = InStep(fd, InputBuffer[fd][i].n)
    <3>1. InputBuffer[fd][i].n \in 1 .. n
      <4>1. InputBuffer[fd][i] \in UnitsOf(fd)
        BY <1>1, Elements DEF ClientStream
      <4> QED  BY <4>1 DEF UnitsOf
    <3>2. PICK m \in 1 .. n : m = InputBuffer[fd][i].n
      BY <3>1
    <3>3. m \in Int /\ \A k2 \in 1 .. m : sent'[fd][k2] = sent[fd][k2]
      <4> HIDE DEF n
      <4> QED  BY <1>1, <2>1
    <3>4. InStep(fd, m)' = InStep(fd, m)
      BY <1>6, <3>3, InStepStays
    <3>5. InStep(fd, m)' = InStep(fd, InputBuffer[fd][i].n)'
      BY <1>6, <3>2 DEF InStep
    <3> QED  BY <3>2, <3>4, <3>5
  <2> QED  BY <1>1, <1>6, <2>2, <2>3 DEF LeftBehind
<1>10. Shapes' /\ CallAgrees'
  <2>1. rx' = NoCall
    BY <1>6 DEF Quiet
  <2> QED  BY <1>1, <1>2, <1>12, <2>1, FdFacts DEF Shapes, CallAgrees, daemon, past
<1>11. \A g \in Fds \ {fd} : Same(g)
  BY <1>1, <1>2, <1>12, <1>6 DEF Same, Shapes, TypeOK
<1> QED  BY <1>4, <1>8, <1>9, <1>10, <1>11, FdFacts, OneStream DEF Quiet

LEMMA LinkTalkFits ==
  ASSUME Inductive, Streams, Quiet, NEW fd \in Fds, fd = webFd, ClientIF[fd] = "web",
         UNCHANGED <<daemon, peer, made, eof>>, NEW f,
         sent' = sent \/ \E k \in WebKinds : sent' = [sent EXCEPT ![fd] = Append(@, k)],
         line' = line \/ line' = [line EXCEPT ![fd] = @ \o <<f>>],
         NEW b \in BOOLEAN, half' = [half EXCEPT ![fd] = b], b => sent'[fd] # << >>,
         f \in FramesOf(fd)', LastRank(fd) <= LastRank(fd)',
         Ranks(f.units) \subseteq LastRank(fd) + 1 .. LastRank(fd)'
  PROVE  Streams'
<1>1. TypeOK /\ Shapes /\ fd \in Fds /\ Stream(fd) /\ LinkStream(fd)
  <2>1. TypeOK /\ Shapes /\ fd \in Fds
    BY DEF Streams, Shapes, TypeOK
  <2> QED  BY <2>1 DEF Streams, Stream
<1>2. TypeOK' /\ \A g \in Fds : Extended(g)
  BY <1>1, TalkKeepsTypes
<1>3. /\ line'[fd] \in {line[fd], line[fd] \o <<f>>} /\ half[fd] \in BOOLEAN /\ half'[fd] = b
      /\ line' = [g \in Fds |-> line'[g]] /\ half' \in [Fds -> BOOLEAN]
      /\ \A g \in Fds : g # fd => line'[g] = line[g] /\ half'[g] = half[g] /\ sent'[g] = sent[g]
  <2>1. line = [g \in Fds |-> line[g]] /\ half \in [Fds -> BOOLEAN]
    BY <1>1 DEF Shapes
  <2>2. sent \in [Fds -> Seq(Kinds \cup WebKinds)]
    BY <1>1 DEF TypeOK
  <2> QED  BY <1>1, <2>1, <2>2
<1>4. UNCHANGED <<ClientIF, peer, Format, InputBuffer, upTo, lost, rx, webFd>>
  BY DEF daemon, table, web, past
<1>5. LinkStream(fd)'
  <2>1. half'[fd] \in BOOLEAN
    BY <1>3
  <2>2. sent'[fd] \in Seq(WebKinds)
    <3>1. sent[fd] \in Seq(WebKinds) /\ sent \in [Fds -> Seq(Kinds \cup WebKinds)]
      BY <1>1 DEF LinkStream, TypeOK
    <3>2. \A k \in WebKinds : Append(sent[fd], k) \in Seq(WebKinds)
      BY <3>1, AppendProperties
    <3> QED  BY <3>1, <3>2
  <2> QED  BY <1>1, <1>2, <1>3, <1>4, <2>1, <2>2, LinkTalks
<1>6. Stream(fd)' /\ LeftBehind(fd)'
  BY <1>3, <1>4, <1>5 DEF Stream, LeftBehind
<1>7. Shapes' /\ CallAgrees'
  <2>1. rx' = NoCall
    BY <1>4 DEF Quiet
  <2> QED  BY <1>1, <1>3, <2>1, FdFacts DEF Shapes, CallAgrees, daemon, past
<1>8. \A g \in Fds \ {fd} : Same(g)
  BY <1>1, <1>3, <1>4 DEF Same
<1> QED  BY <1>1, <1>2, <1>6, <1>7, <1>8, FdFacts, OneStream DEF Quiet

(* What the relay server says fits: a handshake, control frames, messages  *)
(* in one frame or in two.                                                 *)
LEMMA LinkTalkStep ==
  ASSUME Inductive, Streams, Quiet,
         \/ Shake \/ PushLast
         \/ \E op \in {"text", "first"}, k \in WebKinds, merged \in BOOLEAN : Push(op, k, merged)
         \/ \E op \in {"ping", "pong", "close"} : Control(op)
  PROVE  Streams'
<1>1. webFd \in Fds /\ ClientIF[webFd] = "web" /\ UNCHANGED <<daemon, peer, made, eof>>
  BY DEF Shake, PushLast, Push, Control, Linked, Streams, TypeOK
<1>2. PICK fd \in Fds : fd = webFd
  BY <1>1
<1> DEFINE n == Len(sent[fd])
<1>3. /\ TypeOK /\ Shapes /\ Stream(fd) /\ LinkStream(fd) /\ ClientIF[fd] = "web"
      /\ half[fd] \in BOOLEAN /\ sent[fd] \in Seq(Kinds \cup WebKinds) /\ n \in Nat
      /\ LastRank(fd) \in Int /\ peer'[fd] = peer[fd] /\ half \in [Fds -> BOOLEAN]
  <2>1. TypeOK /\ Shapes /\ Stream(fd) /\ ClientIF[fd] = "web"
    BY <1>1, <1>2 DEF Streams, Shapes
  <2> QED  BY <1>1, <2>1, LenProperties, RankFacts DEF TypeOK, Shapes, Stream
<1>4. CASE Shake \/ \E op \in {"ping", "pong", "close"} : Control(op)
  <2>1. PICK op \in {"101", "refusal", "ping", "pong", "close"}, b \in {FALSE, half[fd]} :
          Says(fd, Frame(op, << >>), b) /\ sent' = sent
    <3>1. CASE Shake
      BY <1>2, <3>1 DEF Shake
    <3>2. CASE \E op \in {"ping", "pong", "close"} : Control(op)
      BY <1>2, <3>2 DEF Control
    <3> QED  BY <1>4, <3>1, <3>2
  <2> DEFINE f == [op |-> op, units |-> << >>]
  <2>2. line' = [line EXCEPT ![fd] = @ \o <<f>>] /\ half' = [half EXCEPT ![fd] = b]
    BY <2>1 DEF Says, Frame
  <2>3. f \in FramesOf(fd)' /\ Ranks(f.units) = {}
    BY RanksOf, EmptySeq DEF FramesOf, Ops
  <2>4. LastRank(fd) <= LastRank(fd)' /\ b \in BOOLEAN /\ (b => sent'[fd] # << >>)
    <3>1. half'[fd] = b /\ sent'[fd] = sent[fd]
      BY <1>3, <2>1, <2>2
    <3>2. 2 * n - 1 \in Int /\ 2 * n \in Int /\ 2 * n - 1 <= 2 * n /\ 2 * n <= 2 * n /\ 2 * n - 1 <= 2 * n - 1
      BY <1>3
    <3> QED  BY <1>3, <2>1, <3>1, <3>2 DEF LastRank, Stream
  <2> HIDE DEF f
  <2> QED  BY <1>1, <1>2, <1>3, <2>1, <2>2, <2>3, <2>4, LinkTalkFits
<1>5. CASE PushLast
  <2> DEFINE u == Unit(peer[fd], n, Last(sent[fd]), TRUE)
             f == [op |-> "last", units |-> <<u>>]
  <2>1. /\ half[fd] /\ sent' = sent
        /\ line' = [line EXCEPT ![fd] = @ \o <<f>>] /\ half' = [half EXCEPT ![fd] = FALSE]
    BY <1>2, <1>5 DEF PushLast, Says, Frame
  <2>2. sent'[fd] = sent[fd] /\ ~half'[fd] /\ sent[fd] # << >>
    BY <1>3, <2>1 DEF Stream
  <2>3. n \in 1 .. n /\ sent[fd][n] \in Kinds \cup WebKinds
    BY <1>3, <2>2, EmptySeq, ElementOfSeq
  <2>4. u \in UnitsOf(fd)' /\ Rank(u) = 2 * n
    BY <1>3, <2>2, <2>3 DEF UnitsOf, Unit, Last, Rank
  <2>5. f \in FramesOf(fd)' /\ Ranks(f.units) = {2 * n}
    <3>1. u.end
      BY DEF Unit
    <3> HIDE DEF n, u
    <3>2. <<u>> \in Seq(UnitsOf(fd)') /\ <<u>> # << >> /\ Last(<<u>>) = u
      BY <2>4 DEF Last
    <3> QED  BY <2>4, <3>1, <3>2, RanksOf DEF FramesOf, Ops
  <2>6. LastRank(fd) = 2 * n - 1 /\ LastRank(fd)' = 2 * n
    BY <2>1, <2>2 DEF LastRank
  <2>7. LastRank(fd) <= LastRank(fd)' /\ Ranks(f.units) \subseteq LastRank(fd) + 1 .. LastRank(fd)'
    <3> DEFINE m == 2 * n
    <3>1. m \in Int
      BY <1>3
    <3>2. Ranks(f.units) = {m} /\ LastRank(fd) = m - 1 /\ LastRank(fd)' = m
      <4> HIDE DEF f, n
      <4> QED  BY <2>5, <2>6
    <3> HIDE DEF m, f
    <3> QED  BY <3>1, <3>2
  <2> HIDE DEF f, u
  <2> QED  BY <1>1, <1>2, <1>3, <2>1, <2>5, <2>7, LinkTalkFits
<1>6. ASSUME NEW op \in {"text", "first"}, NEW k \in WebKinds, NEW merged \in BOOLEAN, Push(op, k, merged)
      PROVE  Streams'
  <2> DEFINE u == Unit(peer[fd], n + 1, k, FALSE)
             v == Unit(peer[fd], n + 1, k, TRUE)
             f == [op |-> op, units |-> IF op = "text" THEN <<u, v>> ELSE <<u>>]
             b == op = "first"
  <2>1. /\ ~half[fd] /\ sent' = [sent EXCEPT ![fd] = Append(@, k)]
        /\ line' = [line EXCEPT ![fd] = @ \o (IF merged THEN << >> ELSE <<f>>)]
        /\ half' = [half EXCEPT ![fd] = b]
    <3> HIDE DEF n, u, v, f, b
    <3>1. ~half[fd] /\ sent' = [sent EXCEPT ![fd] = Append(@, k)]
      BY <1>2, <1>6 DEF Push, Adds
    <3>2. half' = [half EXCEPT ![fd] = b]
      BY <1>2, <1>6 DEF Push, Says, b
    <3>3. f = [op |-> op, units |-> IF op = "text" THEN Whole(peer[fd], n + 1, k)
                                                   ELSE <<Unit(peer[fd], n + 1, k, FALSE)>>]
      <4>1. CASE op = "text"
        BY <4>1 DEF f, u, v, Whole
      <4>2. CASE op = "first"
        BY <4>2 DEF f, u
      <4> QED  BY <4>1, <4>2
    <3>4. line' = [line EXCEPT ![fd] = @ \o (IF merged THEN << >> ELSE <<f>>)]
      BY <1>2, <1>6, <3>3 DEF Push, Says, Frame, n
    <3> QED  BY <3>1, <3>2, <3>4
  <2>2. sent'[fd] = Append(sent[fd], k) /\ half'[fd] = b
    BY <1>3, <2>1 DEF TypeOK, Shapes
  <2>3. Len(sent'[fd]) = n + 1 /\ sent'[fd][n + 1] = k /\ sent'[fd] # << >>
    BY <1>3, <2>2, AppendProperties
  <2>4. LastRank(fd) = 2 * n /\ LastRank(fd)' = IF op = "first" THEN 2 * (n + 1) - 1 ELSE 2 * (n + 1)
    <3>1. LastRank(fd) = 2 * n
      BY <2>1 DEF LastRank
    <3>2. LastRank(fd)' = IF half'[fd] THEN 2 * Len(sent'[fd]) - 1 ELSE 2 * Len(sent'[fd])
      BY DEF LastRank
    <3> HIDE DEF n, f, u, v
    <3> QED  BY <2>2, <2>3, <3>1, <3>2
  <2>5. n + 1 \in 1 .. Len(sent'[fd])
    BY <1>3, <2>3
  <2>6. u \in UnitsOf(fd)' /\ v \in UnitsOf(fd)' /\ ~u.end /\ v.end
    BY <1>3, <2>3, <2>5 DEF UnitsOf, Unit
  <2>7. Rank(u) = 2 * (n + 1) - 1 /\ Rank(v) = 2 * (n + 1)
    BY DEF Rank, Unit
  <2>8. f \in FramesOf(fd)'
    <3> HIDE DEF u, v
    <3>1. /\ <<u>> \in Seq(UnitsOf(fd)') /\ <<u, v>> \in Seq(UnitsOf(fd)')
          /\ <<u, v>> # << >> /\ Last(<<u, v>>) = v
      BY <2>6 DEF Last
    <3> QED  BY <2>6, <3>1 DEF FramesOf, Ops
  <2>9. LastRank(fd) <= LastRank(fd)' /\ Ranks(f.units) \subseteq LastRank(fd) + 1 .. LastRank(fd)'
    <3>1. Ranks(f.units) = IF op = "text" THEN {Rank(u), Rank(v)} ELSE {Rank(u)}
      <4> HIDE DEF u, v
      <4> QED  BY RanksOf
    <3> HIDE DEF u, v, f
    <3> QED  BY <1>3, <2>4, <2>7, <3>1
  <2>10. line' = line \/ line' = [line EXCEPT ![fd] = @ \o <<f>>]
    <3>1. line[fd] \o << >> = line[fd]
      BY <1>3, ConcatEmptySeq DEF LinkStream
    <3> HIDE DEF f
    <3> QED  BY <1>3, <2>1, <3>1 DEF Shapes
  <2>11. b \in BOOLEAN
    OBVIOUS
  <2> HIDE DEF f, u, v, b
  <2> QED  BY <1>1, <1>2, <1>3, <2>1, <2>3, <2>8, <2>9, <2>10, <2>11, LinkTalkFits
<1> QED  BY <1>4, <1>5, <1>6

LEMMA LeaveStep ==
  ASSUME Inductive, Streams, Quiet, NEW fd \in Fds, Leave(fd)
  PROVE  Streams'
<1>1. /\ UNCHANGED <<daemon, peer, made, sent, line, half>> /\ ClientIF[fd] # "none"
      /\ eof' = [eof EXCEPT ![fd] = TRUE]
  BY DEF Leave
<1>2. TypeOK /\ Shapes /\ Stream(fd) /\ LeftBehind(fd)
  BY FdFacts DEF Streams, Shapes, Quiet
<1>3. TypeOK'
  BY <1>1, <1>2 DEF TypeOK, daemon, table, web, past, Items
<1>4. Shapes' /\ CallAgrees'
  BY <1>1, <1>2, FdFacts DEF Shapes, CallAgrees, Quiet, daemon, past
<1>5. Stream(fd)' /\ LeftBehind(fd)'
  <2>1. UNCHANGED <<ClientIF, Format, InputBuffer, upTo, lost, half, line, sent, peer>>
    BY <1>1 DEF daemon, table, past
  <2>2. UnitsOf(fd)' = UnitsOf(fd) /\ LastRank(fd)' = LastRank(fd) /\ Way(fd)' = Way(fd) /\ Known(fd)' = Known(fd)
    BY <2>1 DEF UnitsOf, LastRank, Way, Known, InStep
  <2>3. ClientIF[fd] = "tcp" => ClientStream(fd)'
    BY <1>2, <2>1, <2>2 DEF Stream, ClientStream, Mode, InStep
  <2>4. ClientIF[fd] = "web" => LinkStream(fd)'
    BY <1>2, <2>1, <2>2 DEF Stream, LinkStream, Held, FramesOf
  <2> QED  BY <1>1, <1>2, <2>1, <2>3, <2>4 DEF Stream, LeftBehind, InStep
<1>6. \A g \in Fds \ {fd} : Same(g)
  BY <1>1, <1>2 DEF Same, Shapes, daemon, table, past
<1> QED  BY <1>2, <1>3, <1>4, <1>5, <1>6, FdFacts, OneStream DEF Quiet

-----------------------------------------------------------------------------
(* Time, answers, and the end of a connection change no stream.            *)
Rest == /\ Format \in [Fds -> {"text", "json"}] /\ InputBuffer \in [Fds -> Seq(Items)]
        /\ age \in [Fds -> 0 .. ConnectionTimeout]
        /\ ReceiveLastPacketFin \in BOOLEAN /\ ReceiveLastOpcode \in {0, 1}
        /\ ReceiveLastPacketFin \/ ReceiveLastOpcode = 1
        /\ WebSocketIntialState \in {0, 1}
        /\ rx.cmd \in Seq(Items) /\ rx.fin \in BOOLEAN
        /\ jobs \subseteq [fd : Fds, s : 1 .. made, n : Nat, by : Nat]
        /\ sent \in [Fds -> Seq(Kinds \cup WebKinds)]
        /\ \A fd \in Fds : Len(InputBuffer[fd]) < BufferSize /\ {upTo[fd], lost[fd]} \subseteq 0 .. Len(sent[fd])

LEMMA RestIsTypes == (Inductive /\ Rest => TypeOK) /\ (TypeOK => Rest)
<1>1. ASSUME Inductive, Rest  PROVE TypeOK
  <2>1. rx \in [fd : Fds \cup {None}, cmd : Seq(Items), fin : BOOLEAN]
    BY <1>1 DEF Inductive, Typed, Rest
  <2>2. ports \subseteq Fds
    BY <1>1 DEF Inductive, DescriptorsAgree
  <2> QED  BY <1>1, <2>1, <2>2 DEF Inductive, Typed, Rest, TypeOK
<1>2. TypeOK => Rest
  BY DEF TypeOK, Rest
<1> QED  BY <1>1, <1>2

LEMMA RestIsTypesNext == Inductive' /\ Rest' => TypeOK'
BY RestIsTypes, PTL

LEMMA AgeOfAccess ==
  ASSUME TypeOK, NEW fds, Accessed(fds)
  PROVE  age' \in [Fds -> 0 .. ConnectionTimeout]
BY ClientsAssumption DEF Accessed, TypeOK

LEMMA AllSame ==
  ASSUME Inductive, Streams, Inductive', Rest', Shapes', Quiet, rx' = rx, \A fd \in Fds : Same(fd)
  PROVE  Streams'
<1>1. TypeOK'
  BY RestIsTypesNext
<1>2. rx' = NoCall /\ rx.fd = None /\ rx'.fd = None
  BY FdFacts DEF Quiet
<1>3. ASSUME NEW fd \in Fds  PROVE Stream(fd)' /\ LeftBehind(fd)'
  <2>1. Same(fd) /\ Stream(fd) /\ LeftBehind(fd) /\ TypeOK
    BY <1>2, <1>3, FdFacts DEF Streams
  <2> QED  BY <2>1, SameStream
<1> QED  BY <1>1, <1>2, <1>3 DEF Streams, CallAgrees

LEMMA TickStep == ASSUME Inductive, Streams, Inductive', Tick  PROVE Streams'
<1>1. /\ Quiet /\ rx' = rx
      /\ UNCHANGED <<ClientIF, Format, InputBuffer, ports, webFd, Sequence, ReceiveLastPacketFin,
                     ReceiveLastOpcode, WebSocketIntialState, jobs, peer, made, sent, line, eof, half, upTo, lost>>
  BY DEF Tick, web, net, past
<1>2. age' \in [Fds -> 0 .. ConnectionTimeout]
  <2>1. age \in [Fds -> 0 .. ConnectionTimeout] /\ ConnectionTimeout \in Nat
    BY ClientsAssumption DEF Streams, TypeOK
  <2>2. age' = [fd \in Fds |-> IF ClientIF[fd] = "none" \/ age[fd] = ConnectionTimeout THEN age[fd] ELSE age[fd] + 1]
    BY DEF Tick
  <2> QED  BY <2>1, <2>2
<1>3. Rest'
  BY <1>1, <1>2 DEF Streams, TypeOK, Rest, Items
<1> QED  BY <1>1, <1>3, AllSame DEF Same, Streams, Shapes

LEMMA AnswerStreams ==
  ASSUME Inductive, Streams, Inductive', NEW j \in jobs, Answer(j)
  PROVE  Streams'
<1>1. /\ Quiet /\ rx' = rx /\ jobs' \subseteq jobs /\ Accessed(Sent(Hearers(j.fd)))
      /\ UNCHANGED <<ClientIF, Format, InputBuffer, ports, webFd, Sequence, ReceiveLastPacketFin,
                     ReceiveLastOpcode, WebSocketIntialState, peer, made, sent, line, eof, half, upTo, lost>>
  BY DEF Answer, web, net, past
<1>2. age' \in [Fds -> 0 .. ConnectionTimeout]
  BY <1>1, AgeOfAccess DEF Streams
<1>3. Rest'
  BY <1>1, <1>2 DEF Streams, TypeOK, Rest, Items
<1> QED  BY <1>1, <1>3, AllSame DEF Same, Streams, Shapes

LEMMA EndStep == ASSUME Inductive, Streams, Inductive', ReadEnd  PROVE Streams'
<1>1. /\ Quiet /\ rx' = rx /\ Accessed(Untold)
      /\ UNCHANGED <<ClientIF, Format, InputBuffer, ports, webFd, ReceiveLastPacketFin,
                     ReceiveLastOpcode, WebSocketIntialState, jobs, peer, made, sent, line, eof, half, upTo, lost>>
  BY DEF ReadEnd, Ready, net, past
<1>2. age' \in [Fds -> 0 .. ConnectionTimeout]
  BY <1>1, AgeOfAccess DEF Streams
<1>3. Rest'
  BY <1>1, <1>2 DEF Streams, TypeOK, Rest, Items
<1> QED  BY <1>1, <1>3, AllSame DEF Same, Streams, Shapes

(* Connections come and go: a new one starts with nothing said.            *)
StartsEmpty == \A fd : Nothing(fd) /\ InputBuffer[fd] = << >> =>
                         /\ Format[fd] = "text" => ClientStream(fd)
                         /\ Format[fd] = "json" => LinkStream(fd)

LEMMA NothingNew == StartsEmpty
<1> SUFFICES ASSUME NEW fd, Nothing(fd), InputBuffer[fd] = << >>
             PROVE  /\ Format[fd] = "text" => ClientStream(fd)
                    /\ Format[fd] = "json" => LinkStream(fd)
  BY DEF StartsEmpty
<1>1. Len(<< >>) = 0 /\ 1 .. 0 = {} /\ \A S : << >> \in Seq(S)
  BY EmptySeq
<1>2. Format[fd] = "text" => ClientStream(fd)
  <2>1. Mode(fd, 0) = "text"
    BY ModeNext
  <2>2. << >> \o << >> = << >>
    BY <1>1, ConcatEmptySeq
  <2>3. Way(fd) = << >> /\ Known(fd) = {} /\ LastRank(fd) = 0
    BY <1>1, <2>2 DEF Nothing, Way, Known, LastRank
  <2>4. Ascend(Way(fd), 2 * upTo[fd], LastRank(fd)) /\ There(Way(fd), 2 * upTo[fd], LastRank(fd), Known(fd))
    BY <1>1, <2>3 DEF Ascend, There
  <2> QED  BY <1>1, <2>1, <2>3, <2>4 DEF Nothing, ClientStream
<1>3. Held(fd) = {0} /\ LastRank(fd) = 0 /\ Ranks(InputBuffer[fd]) = {}
  BY <1>1, RanksOf DEF Nothing, Held, LastRank
<1>4. InOrder(Held(fd), line[fd], LastRank(fd))
  BY <1>1 DEF Nothing, InOrder
<1>5. Format[fd] = "json" => LinkStream(fd)
  BY <1>1, <1>3, <1>4 DEF Nothing, LinkStream, Precede
<1> QED  BY <1>2, <1>5

LEMMA NothingNewNext == StartsEmpty'
BY NothingNew, PTL

LEMMA AcceptStreams == ASSUME Inductive, Streams, Inductive', AcceptCommandIF  PROVE Streams'
<1> DEFINE fd == NewSocket(Free)
<1>1. fd \in Fds /\ ClientIF[fd] = "none" /\ fd # webFd
  <2>1. Free \in SUBSET Fds /\ Free # {}
    BY DEF AcceptCommandIF, Free
  <2> QED  BY <2>1, SocketIsFree DEF Free
<1>2. /\ ClientIF' = [ClientIF EXCEPT ![fd] = "tcp"]
      /\ InputBuffer' = [InputBuffer EXCEPT ![fd] = << >>] /\ Format' = [Format EXCEPT ![fd] = "text"]
      /\ age' = [age EXCEPT ![fd] = 0]
      /\ peer' = [peer EXCEPT ![fd] = made + 1] /\ made' = made + 1
      /\ UNCHANGED <<webFd, Sequence, ReceiveLastPacketFin, ReceiveLastOpcode, WebSocketIntialState,
                     rx, jobs, upTo, lost, sent, line, eof, half>> /\ rx = NoCall
  BY DEF AcceptCommandIF, AcceptCleans, CleanInput, web, past, Quiet
<1>3. PICK g \in Fds : g = fd
  BY <1>1
<1> HIDE DEF fd
<1>4. TypeOK /\ Shapes /\ Stream(g)
  BY DEF Streams
<1>5. Rest'
  <2>1. made \in Nat /\ made + 1 \in Nat /\ made <= made + 1
    BY DEF Inductive, Typed
  <2>2. \A seq \in Seq(Items) : seq \in Seq(Items')
    BY <1>2, <2>1, ItemsGrow
  <2>3. InputBuffer' \in [Fds -> Seq(Items')]
    BY <1>2, <1>3, <1>4, <2>2, EmptySeq DEF TypeOK
  <2>4. age' \in [Fds -> 0 .. ConnectionTimeout]
    <3>1. 0 \in 0 .. ConnectionTimeout
      BY ClientsAssumption
    <3> QED  BY <1>2, <1>4, <3>1 DEF TypeOK
  <2>5. rx'.cmd \in Seq(Items') /\ rx'.fin \in BOOLEAN
    BY <1>2, EmptySeq DEF NoCall
  <2>6. jobs' \subseteq [fd : Fds, s : 1 .. made', n : Nat, by : Nat]
    BY <1>2, <1>4, <2>1 DEF TypeOK
  <2>7. Format' \in [Fds -> {"text", "json"}]
    BY <1>2, <1>4 DEF TypeOK
  <2>8. \A h \in Fds : Len(InputBuffer'[h]) < BufferSize
    <3>1. BufferSize \in Nat \ {0} /\ Len(<< >>) = 0
      BY ClientsAssumption
    <3>2. \A h \in Fds : InputBuffer'[h] \in {InputBuffer[h], << >>}
      BY <1>2, <1>3, <1>4 DEF TypeOK
    <3>3. 0 < BufferSize /\ \A h \in Fds : Len(InputBuffer[h]) < BufferSize
      BY <1>4, <3>1 DEF TypeOK
    <3> QED  BY <3>1, <3>2, <3>3
  <2>9. \A h \in Fds : {upTo'[h], lost'[h]} \subseteq 0 .. Len(sent'[h])
    BY <1>2, <1>4 DEF TypeOK
  <2> QED  BY <1>2, <1>4, <2>3, <2>4, <2>5, <2>6, <2>7, <2>8, <2>9 DEF TypeOK, Rest
<1>6. TypeOK'
  BY <1>5, RestIsTypesNext
<1>7. \A h \in Fds \ {g} : Same(h)
  BY <1>2, <1>3, <1>4 DEF Same, TypeOK, Inductive, Typed
<1>8. Stream(g)' /\ LeftBehind(g)'
  <2>1. Nothing(g)
    BY <1>1, <1>3, <1>4 DEF Stream
  <2>2. Nothing(g)' /\ InputBuffer'[g] = << >> /\ Format'[g] = "text" /\ ClientIF'[g] = "tcp"
    BY <1>2, <1>3, <1>4, <2>1 DEF Nothing, TypeOK
  <2>3. ClientStream(g)'
    BY <2>2, NothingNewNext DEF StartsEmpty
  <2>4. 1 .. Len(InputBuffer'[g]) = {}
    BY <2>2
  <2> QED  BY <2>2, <2>3, <2>4 DEF Stream, Nothing, LeftBehind
<1>9. Shapes' /\ CallAgrees'
  BY <1>2, <1>4, FdFacts DEF Shapes, CallAgrees, NoCall
<1> QED  BY <1>2, <1>6, <1>7, <1>8, <1>9, FdFacts, OneStream

(* The read takes over what is on its way.                                 *)
LEMMA UnitsAreItems ==
  ASSUME Inductive, TypeOK, NEW fd \in Fds, ClientIF[fd] # "none"
  PROVE  UnitsOf(fd) \subseteq Items /\ \A us \in Seq(UnitsOf(fd)) : us \in Seq(Items)
<1>1. peer[fd] \in 1 .. made
  BY DEF Inductive, Typed, DescriptorsAgree
<1>2. UnitsOf(fd) \subseteq Items
  BY <1>1 DEF UnitsOf, Items
<1> QED  BY <1>2, SeqOfMore

(* Of a sequence the part from m to n.                                     *)
LEMMA Part ==
  ASSUME NEW S, NEW s \in Seq(S), NEW m \in Nat \ {0}, NEW n \in Nat, m <= n + 1, n <= Len(s)
  PROVE  /\ SubSeq(s, m, n) \in Seq(S) /\ Len(SubSeq(s, m, n)) = n - m + 1
         /\ \A i \in 1 .. n - m + 1 : SubSeq(s, m, n)[i] = s[i + m - 1]
<1>1. Len(s) \in Nat /\ \A i \in 1 .. Len(s) : s[i] \in S
  BY Elements
<1>2. \A i \in m .. n : s[i] \in S
  BY <1>1
<1>3. /\ SubSeq(s, m, n) \in Seq(S) /\ Len(SubSeq(s, m, n)) = IF m <= n THEN n - m + 1 ELSE 0
      /\ \A i \in 1 .. n - m + 1 : SubSeq(s, m, n)[i] = s[m + i - 1]
  BY <1>2, SubSeqProperties
<1>4. n - m + 1 = IF m <= n THEN n - m + 1 ELSE 0
  OBVIOUS
<1>5. \A i \in 1 .. n - m + 1 : m + i - 1 = i + m - 1
  OBVIOUS
<1> QED  BY <1>3, <1>4, <1>5

(* What a read makes of the ring: the first p units of what is read go in, *)
(* and if the others do not, the first of them is the first that is lost.  *)
LEMMA Added ==
  ASSUME Inductive, TypeOK, Shapes, NEW fd \in Fds, ClientIF[fd] # "none", InputBuffer[fd] \in Seq(UnitsOf(fd)),
         NEW units \in Seq(UnitsOf(fd)), AddBuffer(fd, units)
  PROVE  \E p \in 0 .. Len(units) :
           /\ SubSeq(units, 1, p) \in Seq(UnitsOf(fd)) /\ Len(SubSeq(units, 1, p)) = p
           /\ \A i \in 1 .. p : SubSeq(units, 1, p)[i] = units[i]
           /\ InputBuffer' = [InputBuffer EXCEPT ![fd] = @ \o SubSeq(units, 1, p)]
           /\ IF p = Len(units) THEN lost' = lost
              ELSE lost' = [lost EXCEPT ![fd] = IF @ = 0 THEN units[p + 1].n ELSE @]
           /\ InputBuffer' \in [Fds -> Seq(Items)]
           /\ \A g \in Fds : Len(InputBuffer'[g]) < BufferSize /\ lost'[g] \in 0 .. Len(sent[g])
<1> DEFINE b == InputBuffer[fd]
           U == UnitsOf(fd)
           k == Len(units)
           room == Room(fd)
           p == IF k <= room THEN k ELSE room
           c == SubSeq(units, 1, p)
<1>1. /\ b \in Seq(U) /\ Len(b) \in Nat /\ k \in Nat /\ Len(b) < BufferSize /\ BufferSize \in Nat
      /\ \A i \in 1 .. k : units[i] \in U
  BY Elements, ClientsAssumption DEF TypeOK
<1>2. room \in Nat /\ room = BufferSize - 1 - Len(b)
  <2> HIDE DEF b
  <2>1. room = BufferSize - 1 - Len(b)
    BY DEF Room, b
  <2> QED  BY <1>1, <2>1
<1>3. /\ p \in 0 .. k /\ p <= room /\ (p # k => p = room /\ p + 1 \in 1 .. k)
      /\ k <= room => p = k
      /\ ~(k <= room) => p = room /\ p # k
  <2>1. k \in Nat /\ room \in Nat
    BY <1>1, <1>2
  <2> HIDE DEF k, room
  <2> QED  BY <2>1
<1>4. c \in Seq(U) /\ Len(c) = p /\ \A i \in 1 .. p : c[i] = units[i]
  <2>1. \A i \in Int : i + 1 - 1 = i
    OBVIOUS
  <2>2. p \in Nat /\ 1 <= p + 1 /\ p - 1 + 1 = p
    <3> HIDE DEF k, p
    <3> QED  BY <1>1, <1>3
  <2>3. /\ c \in Seq(U) /\ Len(c) = p - 1 + 1
        /\ \A i \in 1 .. p - 1 + 1 : c[i] = units[i + 1 - 1]
    <3> HIDE DEF p, U
    <3> QED  BY <1>3, <2>2, Part DEF U
  <2> HIDE DEF p, U, c
  <2> QED  BY <2>1, <2>2, <2>3
<1>5. SubSeq(units, 1, k) = units
  <2> HIDE DEF U
  <2> QED  BY SubSeqFull DEF U
<1>6. /\ InputBuffer' = [InputBuffer EXCEPT ![fd] = @ \o c]
      /\ IF p = k THEN lost' = lost
         ELSE lost' = [lost EXCEPT ![fd] = IF @ = 0 THEN units[p + 1].n ELSE @]
  <2>1. CASE k <= room
    <3>1. p = k /\ c = units
      BY <1>3, <1>5, <2>1
    <3>2. InputBuffer' = [InputBuffer EXCEPT ![fd] = @ \o units] /\ lost' = lost
      BY <2>1 DEF AddBuffer
    <3> HIDE DEF p, k, c
    <3> QED  BY <3>1, <3>2
  <2>2. CASE ~(k <= room)
    <3>1. p = room /\ p # k
      BY <1>3, <2>2
    <3>2. /\ InputBuffer' = [InputBuffer EXCEPT ![fd] = @ \o SubSeq(units, 1, room)]
          /\ lost' = [lost EXCEPT ![fd] = IF @ = 0 THEN units[room + 1].n ELSE @]
      BY <2>2 DEF AddBuffer
    <3> HIDE DEF p, k, room
    <3> QED  BY <3>1, <3>2 DEF c
  <2> QED  BY <2>1, <2>2
<1>7. b \o c \in Seq(U) /\ Len(b \o c) = Len(b) + Len(c)
  <2> HIDE DEF b, c, U
  <2> QED  BY <1>1, <1>4, Concat
<1>8. InputBuffer' \in [Fds -> Seq(Items)]
  <2>1. b \o c \in Seq(Items)
    <3> HIDE DEF b, c
    <3> QED  BY <1>7, UnitsAreItems
  <2> HIDE DEF c
  <2> QED  BY <1>6, <2>1 DEF TypeOK
<1>9. ASSUME NEW g \in Fds  PROVE Len(InputBuffer'[g]) < BufferSize /\ lost'[g] \in 0 .. Len(sent[g])
  <2>1. Len(InputBuffer[g]) < BufferSize /\ lost[g] \in 0 .. Len(sent[g])
    BY DEF TypeOK
  <2>2. InputBuffer \in [Fds -> Seq(Items)] /\ lost = [h \in Fds |-> lost[h]]
    BY DEF TypeOK, Shapes
  <2>3. CASE g = fd
    <3>1. Len(InputBuffer'[g]) < BufferSize
      <4>1. InputBuffer'[g] = b \o c
        <5> HIDE DEF c
        <5> QED  BY <1>6, <2>2, <2>3
      <4>2. Len(b) + Len(c) < BufferSize
        <5> HIDE DEF b, c, p, room
        <5> QED  BY <1>1, <1>2, <1>3, <1>4
      <4> QED  BY <1>7, <4>1, <4>2
    <3>2. p # k => units[p + 1].n \in 1 .. Len(sent[fd])
      <4>1. p # k => units[p + 1] \in U
        <5> HIDE DEF p, k, U
        <5> QED  BY <1>1, <1>3 DEF k
      <4> HIDE DEF p, k
      <4> QED  BY <4>1 DEF UnitsOf
    <3>3. \A i \in 1 .. Len(sent[fd]) : i \in 0 .. Len(sent[fd])
      OBVIOUS
    <3> HIDE DEF p, k
    <3>4. lost'[fd] \in 0 .. Len(sent[fd])
      <4>1. CASE p = k
        BY <1>6, <2>1, <2>3, <4>1
      <4>2. CASE p # k
        <5>1. lost'[fd] = IF lost[fd] = 0 THEN units[p + 1].n ELSE lost[fd]
          BY <1>6, <2>2, <4>2
        <5> QED  BY <2>1, <2>3, <3>2, <3>3, <4>2, <5>1
      <4> QED  BY <4>1, <4>2
    <3> QED  BY <2>3, <3>1, <3>4
  <2>4. CASE g # fd
    <3>1. InputBuffer'[g] = InputBuffer[g] /\ lost'[g] = lost[g]
      <4> HIDE DEF p, k, c
      <4> QED  BY <1>6, <2>2, <2>4
    <3> QED  BY <2>1, <3>1
  <2> QED  BY <2>3, <2>4
<1> HIDE DEF p
<1> QED  BY <1>3, <1>4, <1>6, <1>8, <1>9

(* What comes in order stays in order, and up to the first message that is *)
(* lost, now or before, all that is there stays there.                     *)
LEMMA ClientReads ==
  ASSUME Inductive, TypeOK, Shapes, NEW fd \in Fds, half[fd] \in BOOLEAN, ClientStream(fd),
         NEW size \in 0 .. Len(line[fd]), NEW p \in 0 .. size, NEW c \in Seq(UnitsOf(fd)),
         Len(c) = p, \A i \in 1 .. p : c[i] = line[fd][i],
         InputBuffer'[fd] = InputBuffer[fd] \o c,
         line'[fd] = SubSeq(line[fd], size + 1, Len(line[fd])),
         lost'[fd] = IF p < size /\ lost[fd] = 0 THEN line[fd][p + 1].n ELSE lost[fd],
         UNCHANGED <<Format, peer, sent, upTo, half>>
  PROVE  ClientStream(fd)'
<1> DEFINE b == InputBuffer[fd]
           l == line[fd]
           U == UnitsOf(fd)
           t == SubSeq(l, size + 1, Len(l))
           w == b \o l
           v == (b \o c) \o t
           base == 2 * upTo[fd]
           last == LastRank(fd)
           d == size - p
<1>1. b \in Seq(U) /\ l \in Seq(U) /\ c \in Seq(U) /\ Len(b) \in Nat
  BY Elements DEF ClientStream
<1>2. /\ Len(l) \in Nat /\ size \in Nat /\ p \in Nat /\ p <= size /\ size <= Len(l) /\ \A i \in 1 .. Len(l) : l[i] \in U
  <2>1. Len(l) \in Nat /\ \A i \in 1 .. Len(l) : l[i] \in U
    <3> HIDE DEF l, U
    <3> QED  BY <1>1, Elements
  <2> QED  BY <2>1
<1>3. /\ t \in Seq(U) /\ size + Len(t) = Len(l) /\ \A i \in 1 .. Len(t) : t[i] = l[size + i]
  <2> HIDE DEF l, U
  <2>1. size + 1 \in Nat \ {0} /\ size + 1 <= Len(l) + 1
    BY <1>2
  <2>2. /\ t \in Seq(U) /\ Len(t) = Len(l) - (size + 1) + 1
        /\ \A i \in 1 .. Len(l) - (size + 1) + 1 : t[i] = l[i + (size + 1) - 1]
    BY <1>1, <1>2, <2>1, Part
  <2>3. Len(l) - (size + 1) + 1 = Len(l) - size /\ \A i \in Int : i + (size + 1) - 1 = size + i
    BY <1>2
  <2>4. size + (Len(l) - size) = Len(l)
    BY <1>2
  <2> HIDE DEF t
  <2> QED  BY <2>2, <2>3, <2>4
<1>4. /\ w \in Seq(U) /\ v \in Seq(U) /\ Len(v) \in Nat /\ Len(w) \in Nat
      /\ Len(v) + d = Len(w) /\ Len(b \o c) <= Len(v) /\ Len(b \o c) \in Nat
      /\ Len(b \o c) = Len(b) + p
      /\ \A i \in 1 .. Len(v) : v[i] = w[IF i <= Len(b \o c) THEN i ELSE i + d]
  <2> DEFINE x == b \o c
  <2>0. /\ Len(c) <= size /\ size \in Nat /\ d = size - Len(c) /\ Len(c) = p
        /\ \A i \in 1 .. Len(c) : c[i] = l[i]
    BY <1>2
  <2> HIDE DEF b, l, U, t
  <2>1. /\ w \in Seq(U) /\ Len(w) = Len(b) + Len(l) /\ Len(b) \in Nat /\ Len(l) \in Nat
        /\ \A i \in 1 .. Len(b) : w[i] = b[i]
        /\ \A i \in 1 .. Len(l) : w[Len(b) + i] = l[i]
    BY <1>1, Concat
  <2>2. /\ x \in Seq(U) /\ Len(x) = Len(b) + Len(c) /\ Len(c) \in Nat
        /\ \A i \in 1 .. Len(b) : x[i] = b[i]
        /\ \A i \in 1 .. Len(c) : x[Len(b) + i] = c[i]
    <3>1. b \in Seq(U) /\ c \in Seq(U)
      BY <1>1
    <3> HIDE DEF w, v, d
    <3>2. x \in Seq(U) /\ Len(c) \in Nat
      BY <3>1, Concat
    <3>3. Len(x) = Len(b) + Len(c)
      BY <3>1, Concat
    <3>4. \A i \in 1 .. Len(b) : x[i] = b[i]
      BY <3>1, Concat
    <3>5. \A i \in 1 .. Len(c) : x[Len(b) + i] = c[i]
      BY <3>1, Concat
    <3> QED  BY <3>2, <3>3, <3>4, <3>5
  <2>3. /\ v \in Seq(U) /\ Len(v) = Len(x) + Len(t) /\ Len(t) \in Nat
        /\ \A i \in 1 .. Len(x) : v[i] = x[i]
        /\ \A i \in 1 .. Len(t) : v[Len(x) + i] = t[i]
    <3>1. x \in Seq(U) /\ t \in Seq(U)
      BY <1>3, <2>2
    <3>2. v = x \o t
      OBVIOUS
    <3> HIDE DEF x, w, d, v
    <3>3. /\ x \o t \in Seq(U) /\ Len(x \o t) = Len(x) + Len(t) /\ Len(t) \in Nat
          /\ \A i \in 1 .. Len(x) : (x \o t)[i] = x[i]
          /\ \A i \in 1 .. Len(t) : (x \o t)[Len(x) + i] = t[i]
      BY <3>1, Concat
    <3> QED  BY <3>2, <3>3
  <2> DEFINE lb == Len(b)
             lc == Len(c)
             lt == Len(t)
  <2>4. /\ lb \in Nat /\ lc \in Nat /\ lt \in Nat /\ Len(l) \in Nat /\ Len(x) = lb + lc /\ Len(v) = lb + lc + lt
        /\ Len(l) = size + lt /\ Len(w) = lb + size + lt /\ lc <= size /\ d = size - lc
    <3>1. Len(v) = lb + lc + lt
      BY <2>2, <2>3
    <3>2. Len(l) = size + lt /\ Len(w) = lb + (size + lt)
      BY <1>3, <2>1
    <3>3. lb + (size + lt) = lb + size + lt
      BY <2>1, <2>3
    <3> QED  BY <2>0, <2>1, <2>2, <2>3, <3>1, <3>2, <3>3
  <2>5. ASSUME NEW i \in 1 .. Len(v)  PROVE v[i] = w[IF i <= Len(x) THEN i ELSE i + d]
    <3> HIDE DEF w, x, v, d
    <3>1. CASE i \in 1 .. lb
      <4>1. i \in 1 .. Len(x) /\ i <= Len(x)
        <5> HIDE DEF lb, lc
        <5> QED  BY <2>4, <3>1
      <4> QED  BY <2>1, <2>2, <2>3, <3>1, <4>1
    <3>2. ASSUME NEW j \in 1 .. lc, i = lb + j  PROVE v[i] = w[IF i <= Len(x) THEN i ELSE i + d]
      <4>1. i \in 1 .. Len(x) /\ i <= Len(x) /\ j \in 1 .. Len(l)
        <5> HIDE DEF lb, lc, lt
        <5> QED  BY <2>4, <3>2
      <4>2. v[i] = x[i] /\ x[i] = c[j] /\ c[j] = l[j] /\ w[i] = l[j]
        BY <2>0, <2>1, <2>2, <2>3, <3>2, <4>1
      <4> QED  BY <4>1, <4>2
    <3>3. ASSUME NEW j \in 1 .. lt, i = Len(x) + j  PROVE v[i] = w[IF i <= Len(x) THEN i ELSE i + d]
      <4>1. ~(i <= Len(x)) /\ size + j \in 1 .. Len(l) /\ i + d = lb + (size + j)
        <5>1. size \in Nat
          BY <2>0
        <5> HIDE DEF lb, lc, lt
        <5> QED  BY <2>4, <3>3, <5>1
      <4>2. v[i] = t[j] /\ t[j] = l[size + j]
        BY <1>3, <2>3, <3>3
      <4>3. w[lb + (size + j)] = l[size + j]
        BY <2>1, <4>1
      <4> QED  BY <4>1, <4>2, <4>3
    <3>4. \/ i \in 1 .. lb
          \/ i - lb \in 1 .. lc /\ i = lb + (i - lb)
          \/ i - Len(x) \in 1 .. lt /\ i = Len(x) + (i - Len(x))
      <4> HIDE DEF lb, lc, lt
      <4>1. i \in Int /\ 1 <= i /\ i <= lb + lc + lt
        BY <2>4
      <4> QED  BY <2>4, <4>1
    <3>5. CASE i - lb \in 1 .. lc /\ i = lb + (i - lb)
      BY <3>2, <3>5
    <3>6. CASE i - Len(x) \in 1 .. lt /\ i = Len(x) + (i - Len(x))
      BY <3>3, <3>6
    <3> QED  BY <3>1, <3>4, <3>5, <3>6
  <2>6. Len(v) + d = Len(w) /\ Len(x) <= Len(v) /\ Len(x) \in Nat /\ Len(v) \in Nat /\ Len(w) \in Nat
    <3> HIDE DEF lb, lc, lt, w, x, v, d
    <3> QED  BY <2>4
  <2> HIDE DEF w, x, v, d
  <2> QED  BY <2>0, <2>1, <2>2, <2>3, <2>5, <2>6 DEF w, x, v, d
<1>5. /\ Ascend(w, base, last) /\ There(w, base, last, Known(fd)) /\ base <= last
      /\ \A i \in 1 .. Len(l) : lost[fd] <= l[i].n
      /\ InStep(fd, upTo[fd]) => Format[fd] = Mode(fd, upTo[fd])
  BY DEF ClientStream, Way
<1>6. /\ base \in Int /\ last \in Int /\ upTo[fd] \in Int /\ lost[fd] \in Int
      /\ \A u \in U : u.n \in Nat /\ Rank(u) \in {2 * u.n, 2 * u.n - 1} /\ u.n # 0
  <2>1. /\ {upTo[fd], lost[fd]} \subseteq 0 .. Len(sent[fd]) /\ sent[fd] \in Seq(Kinds \cup WebKinds)
    BY DEF TypeOK
  <2>2. last \in Int /\ Len(sent[fd]) \in Nat
        /\ \A u \in U : u.n \in 1 .. Len(sent[fd]) /\ Rank(u) = IF u.end THEN 2 * u.n ELSE 2 * u.n - 1
    BY <2>1, RankFacts
  <2> QED  BY <2>1, <2>2
<1>7. Way(fd)' = v /\ UnitsOf(fd)' = U /\ LastRank(fd)' = last /\ upTo'[fd] = upTo[fd]
  BY DEF Way, UnitsOf, LastRank
<1>8. p < size => p + 1 \in 1 .. Len(l)
  <2> HIDE DEF l
  <2> QED  BY <1>2
<1>9. \A n \in Int : InStep(fd, n)' => InStep(fd, n) /\ (p < size => n < l[p + 1].n)
  <2> SUFFICES ASSUME NEW n \in Int, InStep(fd, n)'
               PROVE  InStep(fd, n) /\ (p < size => n < l[p + 1].n)
    OBVIOUS
  <2>1. (lost'[fd] = 0 \/ n < lost'[fd]) /\ \A i \in 1 .. n : sent[fd][i] \notin Unbalanced
    BY DEF InStep
  <2>2. p < size => l[p + 1].n \in Nat /\ l[p + 1].n # 0 /\ lost[fd] <= l[p + 1].n
    BY <1>2, <1>5, <1>6, <1>8
  <2> HIDE DEF l
  <2>3. /\ lost[fd] = 0 \/ n < lost[fd]
        /\ p < size => n < l[p + 1].n
    BY <1>6, <2>1, <2>2 DEF l
  <2> QED  BY <2>1, <2>3 DEF InStep
<1>10. Known(fd)' \subseteq Known(fd)
  BY <1>9 DEF Known
<1>11. Ascend(v, base, last) /\ There(v, base, last, Known(fd)')
  <2> DEFINE known == Known(fd)'
             q == IF d = 0 THEN Len(v) ELSE Len(b \o c)
  <2>1. There(w, base, last, known)
    BY <1>5, <1>10 DEF There
  <2>2. /\ q \in Nat /\ q <= Len(v) /\ d \in Nat /\ Len(v) + d = Len(w)
        /\ \A i \in 1 .. Len(v) : v[i] = w[IF i <= q THEN i ELSE i + d]
    <3>1. d \in Nat /\ Len(v) + d = Len(w)
      <4> HIDE DEF b, l, t, v, w
      <4> QED  BY <1>2, <1>4
    <3>2. \A i \in 1 .. Len(v) : v[i] = w[IF i <= q THEN i ELSE i + d]
      <4>1. CASE d = 0
        <5>1. \A i \in 1 .. Len(v) : i <= q /\ i + 0 = i
          BY <1>4, <4>1
        <5> HIDE DEF v, w, q
        <5> QED  BY <1>4, <4>1, <5>1
      <4>2. CASE d # 0
        <5>1. q = Len(b \o c)
          BY <4>2
        <5> HIDE DEF v, w, q, b, d
        <5> QED  BY <1>4, <5>1
      <4> QED  BY <4>1, <4>2
    <3>3. q \in Nat /\ q <= Len(v)
      <4>1. Len(v) <= Len(v)
        <5> HIDE DEF v
        <5> QED  BY <1>4
      <4> DEFINE lv == Len(v)
                 lb == Len(b \o c)
      <4>2. lv \in Nat /\ lb \in Nat /\ lb <= lv /\ lv <= lv /\ (q = lv \/ q = lb)
        BY <1>4, <4>1
      <4> HIDE DEF lv, lb, q, v
      <4>3. q \in Nat /\ q <= lv
        BY <4>2
      <4> QED  BY <4>3 DEF lv
    <3> HIDE DEF v, w, q, d
    <3> QED  BY <3>1, <3>2, <3>3
  <2>3. \A r \in known : r \in Int /\ (base < r /\ r <= last => r - base <= q)
    <3> SUFFICES ASSUME NEW r \in known
                 PROVE  r \in Int /\ (base < r /\ r <= last => r - base <= q)
      OBVIOUS
    <3>1. PICK n \in Int : InStep(fd, n)' /\ r \in {2 * n - 1, 2 * n}
      <4>1. PICK n \in 1 .. Len(sent'[fd]) : InStep(fd, n)' /\ r \in {2 * n - 1, 2 * n}
        BY DEF Known
      <4>2. n \in Int
        OBVIOUS
      <4> QED  BY <4>1, <4>2
    <3>2. r \in Int
      BY <3>1
    <3>3. ASSUME base < r, r <= last, ~(r - base <= q)  PROVE FALSE
      <4> DEFINE i == r - base
                 o == Len(b) + p
      <4>1. i \in 1 .. Len(w) /\ Rank(w[i]) = r
        BY <2>1, <3>3 DEF There
      <4>2. q = o /\ p < size /\ o \in Nat
        <5>1. i \in Int /\ Len(v) + d = Len(w) /\ i <= Len(w) /\ ~(i <= q) /\ d \in Nat /\ d = size - p
          <6> HIDE DEF v, w, q, b
          <6> QED  BY <1>4, <2>2, <3>3, <4>1
        <5>2. d # 0
          <6>1. d = 0 => q = Len(v)
            OBVIOUS
          <6> HIDE DEF v, w, q, b, i, d
          <6> SUFFICES ASSUME d = 0  PROVE FALSE
            OBVIOUS
          <6>2. Len(v) = Len(w)
            BY <1>4, <5>1
          <6> QED  BY <5>1, <6>1, <6>2
        <5>3. q = Len(b \o c)
          BY <5>2
        <5> HIDE DEF v, w, q, b, i, d
        <5> QED  BY <1>2, <1>4, <5>1, <5>2, <5>3
      <4>3. o + 1 \in 1 .. Len(w) /\ i \in o + 1 .. Len(w) /\ o + 1 <= i
        <5> HIDE DEF v, w, q, b, o
        <5>1. i \in Int /\ o \in Nat /\ ~(i <= o)
          BY <3>3, <4>1, <4>2
        <5>2. i <= Len(w) /\ Len(w) \in Nat
          BY <1>4, <4>1
        <5> HIDE DEF i
        <5> QED  BY <5>1, <5>2
      <4>4. w[o + 1] = l[p + 1] /\ l[p + 1] \in U
        <5>1. w[Len(b) + (p + 1)] = l[p + 1]
          <6>1. p + 1 \in 1 .. Len(l)
            BY <1>8, <4>2
          <6> HIDE DEF b, l, U
          <6> QED  BY <1>1, <6>1, Concat DEF w
        <5>2. Len(b) + (p + 1) = o + 1
          <6> HIDE DEF b
          <6> QED  BY <1>1, <1>2
        <5> HIDE DEF w, l, o, b
        <5> QED  BY <1>2, <1>8, <4>2, <5>1, <5>2
      <4>5. Rank(l[p + 1]) + (i - (o + 1)) <= r
        <5> HIDE DEF w, l, o, b, i
        <5> QED  BY <1>5, <4>1, <4>3, <4>4 DEF Ascend
      <4>6. n < l[p + 1].n
        BY <1>9, <3>1, <4>2
      <4> DEFINE u == l[p + 1]
                 x == u.n
      <4>7. x \in Nat /\ Rank(u) \in {2 * x, 2 * x - 1}
        BY <1>6, <4>4
      <4>8. i - (o + 1) \in Nat
        <5>1. i \in Int
          <6> HIDE DEF base
          <6> QED  BY <1>6, <3>2
        <5> HIDE DEF w, o, b, i
        <5> QED  BY <4>2, <4>3, <5>1
      <4>9. Rank(u) <= r
        <5> DEFINE e == i - (o + 1)
        <5>1. Rank(u) + e <= r
          BY <4>5
        <5>2. e \in Nat
          BY <4>8
        <5>3. Rank(u) \in Int
          <6> HIDE DEF x, u, i, o
          <6> QED  BY <4>7
        <5> HIDE DEF e, u
        <5> QED  BY <3>2, <5>1, <5>2, <5>3
      <4> HIDE DEF u, i, o, x
      <4>10. n < x
        BY <4>6 DEF u, x
      <4> QED  BY <3>1, <4>7, <4>9, <4>10
    <3> QED  BY <3>2, <3>3
  <2> HIDE DEF known, q, v, w, base, last, d
  <2> QED  BY <1>4, <1>5, <1>6, <2>1, <2>2, <2>3, Thinned DEF known
<1>12. \A i \in 1 .. Len(t) : lost'[fd] <= t[i].n
  <2> SUFFICES ASSUME NEW i \in 1 .. Len(t)  PROVE lost'[fd] <= t[i].n
    OBVIOUS
  <2>1. t[i] = l[size + i] /\ size + i \in 1 .. Len(l)
    <3> HIDE DEF t, l
    <3> QED  BY <1>2, <1>3
  <2>2. lost[fd] <= t[i].n
    BY <1>5, <2>1
  <2>3. CASE p < size /\ lost[fd] = 0
    <3> DEFINE j == size + i
               k == p + 1
    <3>1. k \in 1 .. Len(l) /\ j \in 1 .. Len(l) /\ k <= j
      <4> HIDE DEF l
      <4> QED  BY <1>2, <1>8, <2>1, <2>3
    <3>2. w[Len(b) + k] = l[k] /\ w[Len(b) + j] = l[j]
      <4> HIDE DEF b, l, U, j, k
      <4> QED  BY <1>1, <3>1, Concat DEF w
    <3>3. Len(b) + k \in 1 .. Len(w) /\ Len(b) + j \in Len(b) + k .. Len(w)
      <4>1. Len(w) = Len(b) + Len(l)
        <5> HIDE DEF b, l, U
        <5> QED  BY <1>1, Concat
      <4> HIDE DEF b, l, w, j, k
      <4> QED  BY <1>1, <1>2, <3>1, <4>1
    <3> DEFINE x == Len(b) + k
               y == Len(b) + j
    <3>4. Rank(l[k]) + (y - x) <= Rank(l[j])
      <4>1. \A e \in 1 .. Len(w) : \A g \in e .. Len(w) : Rank(w[e]) + (g - e) <= Rank(w[g])
        BY <1>5 DEF Ascend
      <4>2. x \in 1 .. Len(w) /\ y \in x .. Len(w) /\ w[x] = l[k] /\ w[y] = l[j]
        BY <3>2, <3>3
      <4> HIDE DEF b, l, w, j, k, x, y
      <4>3. Rank(w[x]) + (y - x) <= Rank(w[y])
        BY <4>1, <4>2
      <4> QED  BY <4>2, <4>3
    <3>5. /\ l[k].n \in Nat /\ Rank(l[k]) \in {2 * l[k].n, 2 * l[k].n - 1}
          /\ l[j].n \in Nat /\ Rank(l[j]) \in {2 * l[j].n, 2 * l[j].n - 1}
      <4>1. l[k] \in U /\ l[j] \in U
        BY <1>2, <3>1
      <4> HIDE DEF l, j, k, U
      <4> QED  BY <1>6, <4>1 DEF U
    <3>6. Rank(l[k]) <= Rank(l[j])
      <4> DEFINE e == y - x
      <4>1. e \in Nat
        <5> HIDE DEF b
        <5> QED  BY <1>1, <3>1
      <4>2. Rank(l[k]) + e <= Rank(l[j])
        BY <3>4
      <4>3. Rank(l[k]) \in Int /\ Rank(l[j]) \in Int
        <5> DEFINE m == l[k].n
                   n == l[j].n
        <5>1. m \in Nat /\ n \in Nat /\ Rank(l[k]) \in {2 * m, 2 * m - 1} /\ Rank(l[j]) \in {2 * n, 2 * n - 1}
          BY <3>5
        <5> HIDE DEF m, n, l, j, k
        <5> QED  BY <5>1
      <4> HIDE DEF e, l, j, k
      <4> QED  BY <4>1, <4>2, <4>3
    <3>7. l[k].n <= l[j].n
      <4> DEFINE m == l[k].n
                 n == l[j].n
      <4>1. m \in Nat /\ n \in Nat /\ Rank(l[k]) \in {2 * m, 2 * m - 1} /\ Rank(l[j]) \in {2 * n, 2 * n - 1}
        BY <3>5
      <4> HIDE DEF m, n, l, j, k
      <4>2. m <= n
        BY <3>6, <4>1
      <4> QED  BY <4>2 DEF m, n
    <3> QED  BY <2>1, <2>3, <3>7
  <2> QED  BY <2>2, <2>3
<1>13. InStep(fd, upTo[fd])' => Format'[fd] = Mode(fd, upTo[fd])'
  <2>1. PICK n \in Int : n = upTo[fd]
    BY <1>6
  <2>2. Mode(fd, n)' = Mode(fd, n) /\ (InStep(fd, n)' => InStep(fd, n))
    BY <1>9 DEF Mode
  <2>3. Mode(fd, n)' = Mode(fd, upTo[fd])' /\ InStep(fd, n)' = InStep(fd, upTo[fd])'
    BY <2>1 DEF Mode, InStep
  <2> QED  BY <1>5, <2>1, <2>2, <2>3
<1>14. InputBuffer'[fd] \in Seq(U) /\ line'[fd] = t
  <2> HIDE DEF b, U
  <2> QED  BY <1>1, Concat DEF b
<1> HIDE DEF b, l, U, t, w, v, d, last
<1> QED  BY <1>3, <1>5, <1>7, <1>11, <1>12, <1>13, <1>14 DEF ClientStream

(* The read takes over what is on its way, as far as the ring has room.    *)
LEMMA ReadClientStep ==
  ASSUME Inductive, Streams, Inductive', NEW fd \in Fds, ReadClient(fd)
  PROVE  Streams'
<1> DEFINE b == InputBuffer[fd]
           l == line[fd]
           U == UnitsOf(fd)
           size == Min({Len(l), BufferSize})
           units == SubSeq(l, 1, size)
<1>1. /\ rx = NoCall /\ ClientIF[fd] = "tcp" /\ AddBuffer(fd, units)
      /\ line' = [line EXCEPT ![fd] = SubSeq(@, size + 1, Len(@))] /\ age' = [age EXCEPT ![fd] = 0]
      /\ rx' = [fd |-> fd, cmd |-> << >>, fin |-> TRUE]
      /\ UNCHANGED <<ClientIF, Format, ports, webFd, Sequence, ReceiveLastPacketFin, ReceiveLastOpcode,
                     WebSocketIntialState, jobs, peer, made, sent, eof, half, upTo>>
  BY DEF ReadClient, Ready, Quiet, web
<1>2. TypeOK /\ Shapes /\ Stream(fd) /\ ClientStream(fd) /\ half[fd] \in BOOLEAN
  BY <1>1 DEF Streams, Shapes, Stream
<1>3. b \in Seq(U) /\ l \in Seq(U) /\ Len(l) \in Nat
  BY <1>2, Elements DEF ClientStream
<1>4. size \in 0 .. Len(l)
  <2>1. {Len(l), BufferSize} \in SUBSET Nat /\ {Len(l), BufferSize} # {}
    BY <1>3, ClientsAssumption
  <2>2. size \in {Len(l), BufferSize} /\ \A n \in {Len(l), BufferSize} : size <= n
    <3> HIDE DEF l
    <3> QED  BY <2>1, LowestExists
  <2> HIDE DEF size, l
  <2> QED  BY <2>1, <2>2
<1> HIDE DEF size
<1>5. /\ units \in Seq(U) /\ Len(units) = size /\ \A i \in 1 .. size : units[i] = l[i]
      /\ size \in Nat
  <2>1. \A i \in Int : i + 1 - 1 = i
    OBVIOUS
  <2>2. size \in Nat /\ size <= Len(l) /\ 1 <= size + 1 /\ size - 1 + 1 = size
    <3> HIDE DEF l
    <3> QED  BY <1>3, <1>4
  <2>3. /\ units \in Seq(U) /\ Len(units) = size - 1 + 1
        /\ \A i \in 1 .. size - 1 + 1 : units[i] = l[i + 1 - 1]
    <3> HIDE DEF l, U
    <3> QED  BY <1>3, <2>2, Part
  <2> HIDE DEF units, l, U
  <2> QED  BY <2>1, <2>2, <2>3
<1> HIDE DEF units
<1>6. PICK p \in 0 .. Len(units) :
        /\ SubSeq(units, 1, p) \in Seq(U) /\ Len(SubSeq(units, 1, p)) = p
        /\ \A i \in 1 .. p : SubSeq(units, 1, p)[i] = units[i]
        /\ InputBuffer' = [InputBuffer EXCEPT ![fd] = @ \o SubSeq(units, 1, p)]
        /\ IF p = Len(units) THEN lost' = lost
           ELSE lost' = [lost EXCEPT ![fd] = IF @ = 0 THEN units[p + 1].n ELSE @]
        /\ InputBuffer' \in [Fds -> Seq(Items)]
        /\ \A g \in Fds : Len(InputBuffer'[g]) < BufferSize /\ lost'[g] \in 0 .. Len(sent[g])
  BY <1>1, <1>2, <1>3, <1>5, Added
<1> DEFINE c == SubSeq(units, 1, p)
<1>7. /\ p \in 0 .. size /\ p \in Nat /\ c \in Seq(U) /\ Len(c) = p
      /\ \A i \in 1 .. p : c[i] = l[i]
      /\ p < size => p # Len(units) /\ units[p + 1] = l[p + 1]
      /\ ~(p < size) => p = Len(units)
  <2>1. p \in 0 .. size /\ p \in Nat
    BY <1>5, <1>6
  <2>2. \A i \in 1 .. p : i \in 1 .. size
    BY <1>5, <2>1
  <2>3. p < size => p # size /\ p + 1 \in 1 .. size
    BY <1>5, <2>1
  <2>4. ~(p < size) => p = size
    BY <1>5, <2>1
  <2> HIDE DEF l, U
  <2> QED  BY <1>5, <1>6, <2>1, <2>2, <2>3, <2>4
<1> HIDE DEF c
<1>8. /\ InputBuffer' = [InputBuffer EXCEPT ![fd] = @ \o c]
      /\ lost' = lost \/ lost' = [lost EXCEPT ![fd] = IF @ = 0 THEN units[p + 1].n ELSE @]
  BY <1>6 DEF c
<1>9. /\ InputBuffer'[fd] = b \o c /\ line'[fd] = SubSeq(l, size + 1, Len(l))
      /\ lost'[fd] = IF p < size /\ lost[fd] = 0 THEN l[p + 1].n ELSE lost[fd]
  <2>1. /\ InputBuffer \in [Fds -> Seq(Items)] /\ line = [g \in Fds |-> line[g]]
        /\ lost = [g \in Fds |-> lost[g]]
    BY <1>2 DEF TypeOK, Shapes
  <2>2. InputBuffer'[fd] = b \o c /\ line'[fd] = SubSeq(l, size + 1, Len(l))
    BY <1>1, <1>8, <2>1
  <2>3. lost'[fd] = IF p < size /\ lost[fd] = 0 THEN l[p + 1].n ELSE lost[fd]
    <3> HIDE DEF l
    <3>1. CASE p < size
      <4>1. lost' = [lost EXCEPT ![fd] = IF @ = 0 THEN l[p + 1].n ELSE @]
        BY <1>6, <1>7, <3>1
      <4>2. lost'[fd] = IF lost[fd] = 0 THEN l[p + 1].n ELSE lost[fd]
        BY <2>1, <4>1
      <4> QED  BY <3>1, <4>2
    <3>2. CASE ~(p < size)
      <4>1. lost' = lost
        BY <1>6, <1>7, <3>2
      <4> QED  BY <3>2, <4>1
    <3> QED  BY <3>1, <3>2
  <2> QED  BY <2>2, <2>3
<1>10. ClientStream(fd)'
  <2>1. UNCHANGED <<Format, peer, sent, upTo, half>>
    BY <1>1
  <2> QED  BY <1>2, <1>4, <1>7, <1>9, <2>1, ClientReads
<1>11. Rest'
  <2>1. age' \in [Fds -> 0 .. ConnectionTimeout]
    <3>1. 0 \in 0 .. ConnectionTimeout
      BY ClientsAssumption
    <3> QED  BY <1>1, <1>2, <3>1 DEF TypeOK
  <2>2. rx'.cmd \in Seq(Items) /\ rx'.fin \in BOOLEAN
    BY <1>1, EmptySeq
  <2>3. \A g \in Fds : {upTo'[g], lost'[g]} \subseteq 0 .. Len(sent'[g])
    BY <1>1, <1>2, <1>6 DEF TypeOK
  <2> QED  BY <1>1, <1>2, <1>6, <2>1, <2>2, <2>3 DEF Rest, TypeOK, Items
<1>12. Stream(fd)'
  BY <1>1, <1>2, <1>10 DEF Stream
<1>13. Shapes' /\ CallAgrees' /\ rx'.fd = fd
  <2>1. lost' = [g \in Fds |-> lost'[g]] /\ line' = [g \in Fds |-> line'[g]]
    <3>1. line = [g \in Fds |-> line[g]] /\ lost = [g \in Fds |-> lost[g]]
      BY <1>2 DEF Shapes
    <3>2. lost' = [g \in Fds |-> lost'[g]]
      BY <1>8, <3>1
    <3>3. line' = [g \in Fds |-> line'[g]]
      BY <1>1, <3>1
    <3> QED  BY <3>2, <3>3
  <2> QED  BY <1>1, <1>2, <2>1, FdFacts DEF Shapes, CallAgrees
<1>14. \A g \in Fds \ {fd} : Same(g)
  BY <1>1, <1>2, <1>8 DEF Same, TypeOK, Shapes
<1> QED  BY <1>1, <1>11, <1>12, <1>13, <1>14, FdFacts, RestIsTypesNext, OneStream

(* What is in order behind some units is so behind fewer of them.           *)
LEMMA FewerHeld ==
  ASSUME NEW held, NEW more, NEW l, NEW last, held \subseteq more, InOrder(more, l, last)
  PROVE  InOrder(held, l, last)
BY DEF InOrder, Precede

(* A frame is taken over, or left out because it starts no message.        *)
LEMMA ReadFrameStreams ==
  ASSUME Inductive, Streams, Inductive', NEW fails \in BOOLEAN, ReadFrame(fails)
  PROVE  Streams'
<1> DEFINE f == Head(line[webFd])
<1>1. /\ rx = NoCall /\ webFd # None /\ webFd \in ports /\ line[webFd] # << >>
      /\ line' = [line EXCEPT ![webFd] = Tail(@)]
      /\ Accessed({webFd} \cup Untold)
      /\ Handshake(f.op) \/ Data(f.op, f.units) \/ Echo(f.op) \/ Goodbye(f.op)
      /\ WebSocketIntialState' \in {1, WebSocketIntialState}
      /\ UNCHANGED <<ClientIF, Format, ports, webFd, jobs, peer, made, sent, eof, half, upTo>>
  BY DEF ReadFrame, Ready, Quiet, InitialState
<1>2. TypeOK /\ Shapes
  BY DEF Streams, Shapes
<1>3. webFd \in Fds /\ ClientIF[webFd] = "web"
  BY <1>1, <1>2 DEF Inductive, DescriptorsAgree, TypeOK
<1>4. PICK fd \in Fds : fd = webFd
  BY <1>3
<1> DEFINE b == InputBuffer[fd]
           l == line[fd]
           U == UnitsOf(fd)
           F == FramesOf(fd)
<1>5. Stream(fd) /\ LinkStream(fd) /\ b \in Seq(U) /\ l \in Seq(F) /\ l # << >>
  BY <1>1, <1>3, <1>4 DEF Streams, Stream, LinkStream
<1>6. f \in F /\ Tail(l) \in Seq(F) /\ f.units \in Seq(U) /\ f = Head(l)
  <2>1. f = Head(l)
    BY <1>4
  <2>2. Head(l) \in F /\ Tail(l) \in Seq(F)
    <3> HIDE DEF l, F
    <3> QED  BY <1>5, HeadTailProperties
  <2>3. \A g \in F : g.units \in Seq(U)
    BY DEF FramesOf
  <2> HIDE DEF f, l, F, U
  <2> QED  BY <2>1, <2>2, <2>3
<1> HIDE DEF f
<1>7. \/ InputBuffer' = InputBuffer /\ lost' = lost /\ rx' = rx
      \/ /\ AddBuffer(fd, f.units)
         /\ rx' = [fd |-> fd, cmd |-> << >>, fin |-> rx'.fin] /\ rx'.fin \in BOOLEAN
  <2>1. CASE Data(f.op, f.units)
    <3> DEFINE opcode == IF f.op = "last" THEN ReceiveLastOpcode ELSE 1
               fin == f.op # "first" /\ opcode = 1
    <3>1. fin \in BOOLEAN
      BY <2>1 DEF Data
    <3>2. \/ InputBuffer' = InputBuffer /\ lost' = lost /\ rx' = rx
          \/ /\ AddBuffer(fd, f.units)
             /\ rx' = [fd |-> fd, cmd |-> << >>, fin |-> fin]
      BY <1>4, <2>1 DEF Data
    <3> HIDE DEF fin
    <3>3. CASE rx' = [fd |-> fd, cmd |-> << >>, fin |-> fin]
      <4>1. rx'.fin = fin
        BY <3>3
      <4>2. rx' = [fd |-> fd, cmd |-> << >>, fin |-> rx'.fin] /\ rx'.fin \in BOOLEAN
        BY <3>1, <3>3, <4>1
      <4> QED  BY <3>2, <4>2, Zenon
    <3> QED  BY <3>2, <3>3, Zenon
  <2>2. CASE Handshake(f.op) \/ Echo(f.op) \/ Goodbye(f.op)
    BY <2>2 DEF Handshake, Echo, Goodbye
  <2> QED  BY <1>1, <2>1, <2>2
<1>8. PICK c \in Seq(U) :
        /\ Ranks(c) \subseteq Ranks(f.units)
        /\ InputBuffer' = InputBuffer \/ InputBuffer' = [InputBuffer EXCEPT ![fd] = @ \o c]
        /\ lost' = lost \/ \E n : lost' = [lost EXCEPT ![fd] = n]
        /\ InputBuffer' \in [Fds -> Seq(Items)]
        /\ \A g \in Fds : Len(InputBuffer'[g]) < BufferSize /\ lost'[g] \in 0 .. Len(sent[g])
  <2>1. CASE InputBuffer' = InputBuffer /\ lost' = lost
    <3>1. << >> \in Seq(U) /\ Ranks(<< >>) = {}
      BY EmptySeq, RanksOf
    <3>2. InputBuffer \in [Fds -> Seq(Items)] /\ \A g \in Fds : Len(InputBuffer[g]) < BufferSize /\ lost[g] \in 0 .. Len(sent[g])
      BY <1>2 DEF TypeOK
    <3> HIDE DEF U
    <3> QED  BY <2>1, <3>1, <3>2
  <2>2. CASE AddBuffer(fd, f.units)
    <3>1. ClientIF[fd] # "none"
      BY <1>3, <1>4
    <3>2. PICK p \in 0 .. Len(f.units) :
            /\ SubSeq(f.units, 1, p) \in Seq(U) /\ Len(SubSeq(f.units, 1, p)) = p
            /\ \A i \in 1 .. p : SubSeq(f.units, 1, p)[i] = f.units[i]
            /\ InputBuffer' = [InputBuffer EXCEPT ![fd] = @ \o SubSeq(f.units, 1, p)]
            /\ IF p = Len(f.units) THEN lost' = lost
               ELSE lost' = [lost EXCEPT ![fd] = IF @ = 0 THEN f.units[p + 1].n ELSE @]
            /\ InputBuffer' \in [Fds -> Seq(Items)]
            /\ \A g \in Fds : Len(InputBuffer'[g]) < BufferSize /\ lost'[g] \in 0 .. Len(sent[g])
      BY <1>2, <1>5, <1>6, <2>2, <3>1, Added
    <3> DEFINE us == SubSeq(f.units, 1, p)
    <3>3. Ranks(us) \subseteq Ranks(f.units)
      <4>1. Len(f.units) \in Nat /\ Len(us) = p /\ \A i \in 1 .. p : us[i] = f.units[i]
        <5> HIDE DEF U
        <5> QED  BY <1>6, <3>2, Elements
      <4>2. \A i \in 1 .. p : i \in 1 .. Len(f.units)
        BY <4>1
      <4> HIDE DEF us
      <4> QED  BY <4>1, <4>2 DEF Ranks
    <3>4. lost' = lost \/ \E n : lost' = [lost EXCEPT ![fd] = n]
      <4>1. CASE p = Len(f.units)
        BY <3>2, <4>1
      <4>2. CASE p # Len(f.units)
        <5>1. lost' = [lost EXCEPT ![fd] = IF lost[fd] = 0 THEN f.units[p + 1].n ELSE lost[fd]]
          BY <3>2, <4>2
        <5> QED  BY <5>1
      <4> QED  BY <4>1, <4>2
    <3>5. us \in Seq(U) /\ InputBuffer' = [InputBuffer EXCEPT ![fd] = @ \o us]
      BY <3>2
    <3> HIDE DEF us, U
    <3> QED  BY <3>2, <3>3, <3>4, <3>5
  <2> QED  BY <1>7, <2>1, <2>2
<1>9. /\ ReceiveLastPacketFin' \in BOOLEAN /\ ReceiveLastOpcode' \in {0, 1}
      /\ ReceiveLastPacketFin' \/ ReceiveLastOpcode' = 1
  BY <1>1, <1>2 DEF Handshake, Data, Echo, Goodbye, KeepsOpcode, TypeOK
<1>10. b \o c \in Seq(U) /\ Ranks(b \o c) \subseteq Ranks(b) \cup Ranks(f.units)
  <2> HIDE DEF b, U
  <2> QED  BY <1>5, <1>8, Concat, RanksConcat
<1>11. Rest'
  <2>1. age' \in [Fds -> 0 .. ConnectionTimeout]
    BY <1>1, <1>2, AgeOfAccess
  <2>2. rx'.cmd \in Seq(Items) /\ rx'.fin \in BOOLEAN
    <3>1. rx.cmd \in Seq(Items) /\ rx.fin \in BOOLEAN
      BY <1>2 DEF TypeOK
    <3>2. CASE rx' = rx
      BY <3>1, <3>2
    <3>3. CASE rx' = [fd |-> fd, cmd |-> << >>, fin |-> rx'.fin] /\ rx'.fin \in BOOLEAN
      <4>1. rx'.cmd = << >>
        BY <3>3
      <4> QED  BY <3>3, <4>1, EmptySeq
    <3> QED  BY <1>7, <3>2, <3>3
  <2>3. WebSocketIntialState' \in {0, 1}
    BY <1>1, <1>2 DEF TypeOK
  <2>4. \A g \in Fds : {upTo'[g], lost'[g]} \subseteq 0 .. Len(sent'[g])
    <3>1. sent' = sent /\ upTo' = upTo /\ \A g \in Fds : upTo[g] \in 0 .. Len(sent[g])
      BY <1>1, <1>2 DEF TypeOK
    <3>2. \A g \in Fds : lost'[g] \in 0 .. Len(sent[g])
      BY <1>8
    <3> QED  BY <3>1, <3>2
  <2> QED  BY <1>1, <1>2, <1>8, <1>9, <2>1, <2>2, <2>3, <2>4 DEF Rest, TypeOK, Items
<1>12. /\ line'[fd] = Tail(l) /\ upTo'[fd] = upTo[fd] /\ Format'[fd] = Format[fd] /\ sent'[fd] = sent[fd]
       /\ UnitsOf(fd)' = U /\ FramesOf(fd)' = F /\ LastRank(fd)' = LastRank(fd)
       /\ InputBuffer'[fd] = b \/ InputBuffer'[fd] = b \o c
  BY <1>1, <1>2, <1>4, <1>8 DEF TypeOK, Shapes, UnitsOf, FramesOf, LastRank
<1>13. InOrder(Held(fd) \cup Ranks(f.units), Tail(l), LastRank(fd))
  <2>1. InOrder(Held(fd), l, LastRank(fd))
    BY <1>5 DEF LinkStream
  <2> HIDE DEF l, F
  <2> QED  BY <1>5, <1>6, <2>1, FrameLess
<1>14. /\ Ranks(f.units) \subseteq 2 * upTo[fd] .. LastRank(fd)
       /\ Precede({2 * upTo[fd]}, Ranks(f.units))
  <2>1. 1 \in 1 .. Len(l) /\ f = l[1]
    <3> HIDE DEF l, F
    <3> QED  BY <1>5, <1>6, EmptySeq
  <2>2. Ranks(f.units) \subseteq 1 .. LastRank(fd) /\ Precede(Held(fd), Ranks(f.units))
    BY <1>5, <2>1 DEF LinkStream, InOrder
  <2>3. 2 * upTo[fd] \in Int
    BY <1>2, SMTT(30) DEF TypeOK
  <2> QED  BY <2>2, <2>3 DEF Held, Precede
<1>15. LinkStream(fd)'
  <2>1. CASE InputBuffer'[fd] = b
    <3>1. Held(fd)' = Held(fd)
      BY <1>12, <2>1 DEF Held
    <3>2. InOrder(Held(fd), Tail(l), LastRank(fd))
      <4>1. Held(fd) \subseteq Held(fd) \cup Ranks(f.units)
        OBVIOUS
      <4> HIDE DEF l
      <4> QED  BY <1>13, <4>1, FewerHeld
    <3> HIDE DEF U, F
    <3> QED  BY <1>5, <1>6, <1>12, <2>1, <3>1, <3>2 DEF LinkStream
  <2>2. CASE InputBuffer'[fd] = b \o c
    <3>1. Held(fd)' \subseteq Held(fd) \cup Ranks(f.units)
      BY <1>10, <1>12, <2>2 DEF Held
    <3>2. Held(fd)' \subseteq 2 * upTo[fd] .. LastRank(fd)
      BY <1>5, <1>8, <1>14, <3>1 DEF LinkStream
    <3>3. Precede({2 * upTo[fd]}, Ranks(InputBuffer'[fd]))
      <4>1. Precede({2 * upTo[fd]}, Ranks(b))
        BY <1>5 DEF LinkStream
      <4> HIDE DEF b
      <4> QED  BY <1>8, <1>10, <1>14, <2>2, <4>1 DEF Precede
    <3>4. InOrder(Held(fd)', Tail(l), LastRank(fd))
      <4>1. Held(fd)' \subseteq Held(fd) \cup Ranks(f.units)
        BY <1>8, <3>1
      <4> HIDE DEF l
      <4> QED  BY <1>13, <4>1, FewerHeld
    <3> HIDE DEF U, F, l, b
    <3> QED  BY <1>5, <1>6, <1>10, <1>12, <2>2, <3>2, <3>3, <3>4 DEF LinkStream
  <2> QED  BY <1>12, <2>1, <2>2
<1>16. Stream(fd)'
  BY <1>1, <1>3, <1>4, <1>5, <1>15 DEF Stream
<1>17. CallAgrees' /\ LeftBehind(fd)' /\ (rx'.fd = fd \/ rx'.fd = None)
  <2>1. CASE rx' = rx
    BY <1>1, <1>3, <1>4, <2>1, FdFacts DEF CallAgrees, LeftBehind, NoCall
  <2>2. CASE rx' = [fd |-> fd, cmd |-> << >>, fin |-> rx'.fin]
    <3>1. rx'.fd = fd /\ rx'.cmd = << >> /\ fd # None
      BY <2>2, FdFacts
    <3> QED  BY <1>1, <1>3, <1>4, <2>2, <3>1 DEF CallAgrees, LeftBehind
  <2> QED  BY <1>7, <2>1, <2>2
<1>18. Shapes'
  BY <1>1, <1>2, <1>8 DEF Shapes
<1>19. \A g \in Fds \ {fd} : Same(g)
  <2>1. \A g \in Fds \ {fd} : /\ InputBuffer'[g] = InputBuffer[g] /\ line'[g] = line[g]
                              /\ lost'[g] = lost[g]
    BY <1>1, <1>2, <1>4, <1>8 DEF TypeOK, Shapes
  <2> QED  BY <1>1, <2>1 DEF Same
<1> QED  BY <1>1, <1>11, <1>16, <1>17, <1>18, <1>19, FdFacts, RestIsTypesNext, OneStream

(* The loop over the messages of the input.                                *)
LEMMA WholeEnds ==
  \A s, n, k, c : c = Whole(s, n, k) =>
    /\ Last(c) = Unit(s, n, k, TRUE) /\ Last(c).end = TRUE /\ Last(c).n = n /\ IsWhole(c)
    /\ c = <<Unit(s, n, k, FALSE), Unit(s, n, k, TRUE)>> /\ c # << >>
<1> SUFFICES ASSUME NEW s, NEW n, NEW k, NEW c, c = Whole(s, n, k)
             PROVE  /\ Last(c) = Unit(s, n, k, TRUE) /\ Last(c).end = TRUE /\ Last(c).n = n /\ IsWhole(c)
                    /\ c = <<Unit(s, n, k, FALSE), Unit(s, n, k, TRUE)>> /\ c # << >>
  BY Zenon
<1> DEFINE m == Unit(s, n, k, TRUE)
           u == Unit(s, n, k, FALSE)
<1>1. c = <<u, m>> /\ Last(c) = m /\ c # << >>
  <2>1. c = <<u, m>>
    BY DEF Whole
  <2> HIDE DEF u, m
  <2> QED  BY <2>1 DEF Last
<1>2. m.s = s /\ m.n = n /\ m.kind = k /\ m.end = TRUE
  BY DEF Unit
<1>3. IsWhole(c)
  <2>1. Last(c).s = s /\ Last(c).n = n /\ Last(c).kind = k
    <3> HIDE DEF m
    <3> QED  BY <1>1, <1>2
  <2>2. c = Whole(Last(c).s, Last(c).n, Last(c).kind)
    BY <2>1
  <2> QED  BY <2>2 DEF IsWhole
<1> HIDE DEF m, u
<1> QED  BY <1>1, <1>2, <1>3 DEF m, u

LEMMA WholeNumbers ==
  ASSUME NEW p, NEW n \in Nat, NEW x, NEW c, c = Whole(p, n, x)
  PROVE  \A i \in 1 .. Len(c) : c[i].n <= n
<1> DEFINE u == Unit(p, n, x, FALSE)
           v == Unit(p, n, x, TRUE)
<1>1. c = <<u, v>>
  BY DEF Whole
<1>2. u.n = n /\ v.n = n /\ n <= n
  BY DEF Unit
<1> HIDE DEF u, v
<1>3. \A i \in 1 .. Len(<<u, v>>) : <<u, v>>[i] = u \/ <<u, v>>[i] = v
  OBVIOUS
<1> QED  BY <1>1, <1>2, <1>3

LEMMA SentFacts ==
  ASSUME TypeOK, NEW fd \in Fds
  PROVE  /\ sent[fd] \in Seq(Kinds \cup WebKinds) /\ Len(sent[fd]) \in Nat
         /\ upTo[fd] \in Nat /\ upTo[fd] <= Len(sent[fd]) /\ lost[fd] \in Nat
<1>1. sent[fd] \in Seq(Kinds \cup WebKinds) /\ {upTo[fd], lost[fd]} \subseteq 0 .. Len(sent[fd])
  BY DEF TypeOK
<1>2. Len(sent[fd]) \in Nat
  BY <1>1, LenProperties
<1> QED  BY <1>1, <1>2

(* All that a client's input holds is of messages behind upTo, ...         *)
LEMMA UnitsAhead ==
  ASSUME TypeOK, NEW fd \in Fds, ClientStream(fd), half[fd] \in BOOLEAN
  PROVE  /\ Len(InputBuffer[fd]) \in Nat
         /\ \A i \in 1 .. Len(InputBuffer[fd]) :
              LET u == InputBuffer[fd][i] IN
              /\ u \in UnitsOf(fd) /\ u.n \in Nat /\ upTo[fd] < u.n
              /\ Rank(u) \in 2 * upTo[fd] + i .. LastRank(fd)
              /\ \A j \in i .. Len(InputBuffer[fd]) : u.n <= InputBuffer[fd][j].n
<1> DEFINE b == InputBuffer[fd]
           l == line[fd]
           w == b \o l
           U == UnitsOf(fd)
           up == upTo[fd]
           last == LastRank(fd)
<1>1. b \in Seq(U) /\ l \in Seq(U) /\ Ascend(w, 2 * up, last)
  BY DEF ClientStream, Way
<1>2. /\ Len(b) \in Nat /\ Len(l) \in Nat /\ Len(w) = Len(b) + Len(l)
      /\ \A i \in 1 .. Len(b) : w[i] = b[i] /\ b[i] \in U
  <2> HIDE DEF b, l, U
  <2> QED  BY <1>1, Concat, Elements
<1>3. /\ up \in Nat /\ last \in Int
      /\ \A u \in U : u.n \in Nat /\ Rank(u) \in {2 * u.n, 2 * u.n - 1}
  <2>1. upTo[fd] \in 0 .. Len(sent[fd]) /\ sent[fd] \in Seq(Kinds \cup WebKinds)
    BY DEF TypeOK
  <2>2. last \in Int /\ Len(sent[fd]) \in Nat
        /\ \A u \in U : u.n \in 1 .. Len(sent[fd]) /\ Rank(u) = IF u.end THEN 2 * u.n ELSE 2 * u.n - 1
    BY <2>1, RankFacts
  <2> QED  BY <2>1, <2>2
<1>4. \A i \in 1 .. Len(b) : i \in 1 .. Len(w) /\ \A j \in i .. Len(b) : j \in i .. Len(w) /\ j \in 1 .. Len(b)
  <2> HIDE DEF b, l, w
  <2> QED  BY <1>2
<1>5. ASSUME NEW i \in 1 .. Len(b)
      PROVE  Rank(b[i]) \in 2 * up + i .. last /\ \A j \in i .. Len(b) : Rank(b[i]) + (j - i) <= Rank(b[j])
  BY <1>1, <1>2, <1>4 DEF Ascend
<1> HIDE DEF w, b, l, U, last
<1>6. ASSUME NEW i \in 1 .. Len(b)
      PROVE  /\ b[i] \in U /\ b[i].n \in Nat /\ up < b[i].n
             /\ \A j \in i .. Len(b) : b[i].n <= b[j].n
  <2> DEFINE n == b[i].n
  <2>1. b[i] \in U /\ n \in Nat /\ Rank(b[i]) \in {2 * n, 2 * n - 1} /\ i \in Nat /\ 1 <= i
    BY <1>2, <1>3
  <2>2. up < n
    <3>1. Rank(b[i]) >= 2 * up + i
      BY <1>5
    <3> HIDE DEF n, up
    <3> QED  BY <1>3, <2>1, <3>1
  <2>3. ASSUME NEW j \in i .. Len(b)  PROVE n <= b[j].n
    <3> DEFINE m == b[j].n
    <3>1. m \in Nat /\ Rank(b[j]) \in {2 * m, 2 * m - 1} /\ j \in Int /\ i <= j
      BY <1>2, <1>3, <1>4
    <3>2. Rank(b[i]) + (j - i) <= Rank(b[j])
      BY <1>5
    <3> HIDE DEF n, m
    <3>3. n <= m
      BY <2>1, <3>1, <3>2
    <3> QED  BY <3>3 DEF m
  <2> QED  BY <2>1, <2>2, <2>3
<1> QED  BY <1>2, <1>5, <1>6 DEF b, U, last

(* ... and it begins with the next one, as long as the client is in step.  *)
LEMMA FirstUnit ==
  ASSUME TypeOK, NEW fd \in Fds, ClientStream(fd), half[fd] \in BOOLEAN, InStep(fd, upTo[fd] + 1),
         NEW i \in {1, 2}, i <= Len(InputBuffer[fd])
  PROVE  LET n == upTo[fd] + 1 IN
         n \in 1 .. Len(sent[fd]) /\ InputBuffer[fd][i] = Unit(peer[fd], n, sent[fd][n], i = 2)
<1> DEFINE b == InputBuffer[fd]
           l == line[fd]
           w == b \o l
           U == UnitsOf(fd)
           up == upTo[fd]
           last == LastRank(fd)
           u == b[i]
<1>1. b \in Seq(U) /\ l \in Seq(U) /\ There(w, 2 * up, last, Known(fd))
  BY DEF ClientStream, Way
<1>2. i \in 1 .. Len(b) /\ i \in Int
  <2>1. Len(b) \in Nat
    BY UnitsAhead
  <2> HIDE DEF b
  <2> QED  BY <2>1 DEF b
<1>3. w[i] = u
  <2> HIDE DEF b, l, U
  <2> QED  BY <1>1, <1>2, Concat
<1>4. u \in U /\ Rank(u) \in 2 * up + i .. last /\ up < u.n /\ u.n \in Nat
  BY <1>2, UnitsAhead
<1>5. /\ up \in Nat /\ last \in Int /\ u.n \in 1 .. Len(sent[fd]) /\ u.end \in BOOLEAN /\ Len(sent[fd]) \in Nat
      /\ Rank(u) = IF u.end THEN 2 * u.n ELSE 2 * u.n - 1
  <2>1. upTo[fd] \in 0 .. Len(sent[fd]) /\ sent[fd] \in Seq(Kinds \cup WebKinds)
    BY DEF TypeOK
  <2>2. last \in Int /\ Len(sent[fd]) \in Nat
        /\ \A x \in U : x.n \in 1 .. Len(sent[fd]) /\ x.end \in BOOLEAN /\ Rank(x) = IF x.end THEN 2 * x.n ELSE 2 * x.n - 1
    BY <2>1, RankFacts
  <2> HIDE DEF u, U, last
  <2> QED  BY <1>4, <2>1, <2>2
<1>6. up + 1 \in 1 .. Len(sent[fd])
  <2> DEFINE k == u.n
             len == Len(sent[fd])
  <2>1. k \in 1 .. len /\ up < k /\ up \in Nat /\ len \in Nat
    BY <1>4, <1>5
  <2> HIDE DEF k, len, up
  <2>2. up + 1 \in 1 .. len
    BY <2>1
  <2> QED  BY <2>2 DEF len, up
<1>7. Rank(u) = 2 * up + i
  <2> DEFINE r == 2 * up + i
  <2>1. r \in {2 * (up + 1) - 1, 2 * (up + 1)} /\ 2 * up < r /\ r \in Int /\ r - 2 * up = i
    <3> HIDE DEF up
    <3> QED  BY <1>5
  <2>2. r \in Known(fd)
    <3> HIDE DEF r
    <3> QED  BY <1>6, <2>1 DEF Known
  <2>3. r <= last
    <3> HIDE DEF u, last, up
    <3> QED  BY <1>4, <1>5, <2>1
  <2>4. Rank(w[r - 2 * up]) = r
    <3> HIDE DEF r, w, last
    <3> QED  BY <1>1, <2>1, <2>2, <2>3 DEF There
  <2> HIDE DEF r, w
  <2> QED  BY <1>3, <2>1, <2>4 DEF r
<1>8. u.n = up + 1 /\ u.end = (i = 2)
  <2> DEFINE k == u.n
             e == u.end
             r == Rank(u)
  <2>1. k \in Nat /\ e \in BOOLEAN /\ r = (IF e THEN 2 * k ELSE 2 * k - 1) /\ r = 2 * up + i /\ up \in Nat
    BY <1>4, <1>5, <1>7
  <2> HIDE DEF k, e, r, up
  <2>2. k = up + 1 /\ e = (i = 2)
    <3>1. CASE i = 1
      <4>1. ~e
        BY <2>1, <3>1
      <4>2. 2 * k - 1 = 2 * up + 1
        BY <2>1, <3>1, <4>1
      <4>3. k = up + 1
        BY <2>1, <4>2
      <4> QED  BY <2>1, <3>1, <4>1, <4>3
    <3>2. CASE i = 2
      <4>1. e
        BY <2>1, <3>2
      <4>2. 2 * k = 2 * up + 2
        BY <2>1, <3>2, <4>1
      <4>3. k = up + 1
        BY <2>1, <4>2
      <4> QED  BY <2>1, <3>2, <4>1, <4>3
    <3> QED  BY <3>1, <3>2
  <2> QED  BY <2>2 DEF k, e, up
<1>9. /\ u.s = peer[fd] /\ u.kind = sent[fd][u.n]
      /\ u = [s |-> u.s, n |-> u.n, kind |-> u.kind, end |-> u.end]
  <2> HIDE DEF u
  <2> QED  BY <1>4 DEF UnitsOf
<1> HIDE DEF u
<1>10. u = Unit(peer[fd], up + 1, sent[fd][up + 1], i = 2)
  BY <1>8, <1>9 DEF Unit
<1> QED  BY <1>6, <1>10 DEF u

(* The loop finds that message as soon as it is there, and cuts nothing    *)
(* away before.                                                            *)
LEMMA FirstMessage ==
  ASSUME Inductive, Streams, NEW fd \in Fds, fd = rx.fd, ClientIF[fd] = "tcp", InStep(fd, upTo[fd] + 1)
  PROVE  /\ 1 \notin Ends
         /\ Len(InputBuffer[fd]) >= 2 => 2 \in Ends
         /\ Len(InputBuffer[fd]) <= 1 => Ends = {} /\ ~Excess
<1> DEFINE b == InputBuffer[fd]
           up == upTo[fd]
           n == up + 1
           k == sent[fd][n]
<1>1. TypeOK /\ ClientStream(fd) /\ half[fd] \in BOOLEAN /\ b = Input /\ up \in Nat /\ Len(b) \in Nat
  <2>1. TypeOK /\ Shapes /\ ClientStream(fd)
    BY DEF Streams, Stream
  <2>2. half[fd] \in BOOLEAN
    BY <2>1 DEF Shapes
  <2> QED  BY <2>1, <2>2, SentFacts, UnitsAhead DEF Input
<1>2. /\ 1 <= Len(b) => n \in 1 .. Len(sent[fd]) /\ b[1] = Unit(peer[fd], n, k, FALSE)
      /\ 2 <= Len(b) => b[2] = Unit(peer[fd], n, k, TRUE)
  <2>1. \A i \in {1, 2} : i <= Len(b) => n \in 1 .. Len(sent[fd]) /\ b[i] = Unit(peer[fd], n, k, i = 2)
    BY <1>1, FirstUnit
  <2>2. ~(1 = 2)
    OBVIOUS
  <2> HIDE DEF b, n, k
  <2>3. 1 <= Len(b) => n \in 1 .. Len(sent[fd]) /\ b[1] = Unit(peer[fd], n, k, 1 = 2)
    BY <2>1
  <2>4. 2 <= Len(b) => b[2] = Unit(peer[fd], n, k, 2 = 2)
    BY <2>1
  <2> QED  BY <2>2, <2>3, <2>4 DEF Unit
<1>3. Format[fd] = Mode(fd, up) /\ k \notin Unbalanced
  <2>1. InStep(fd, up)
    BY <1>1, InStepLess
  <2>2. n \in 1 .. up + 1
    BY <1>1
  <2> QED  BY <1>1, <2>1, <2>2 DEF ClientStream, InStep
<1>4. /\ 1 <= Len(b) => b[1].n - 1 = up /\ ~b[1].end /\ b[1].kind \notin Unbalanced
      /\ 2 <= Len(b) => b[2].n - 1 = up /\ b[2].end /\ b[2].kind \notin Unbalanced
  <2>1. n - 1 = up
    BY <1>1
  <2> HIDE DEF b, n, k
  <2> QED  BY <1>2, <1>3, <2>1 DEF Unit
<1>5. 1 <= Len(b) => 1 \in 1 .. Len(b)
  <2> HIDE DEF b
  <2> QED  BY <1>1
<1>6. 2 <= Len(b) => 2 \in 1 .. Len(b) /\ 1 <= Len(b)
  <2> HIDE DEF b
  <2> QED  BY <1>1
<1>7. CASE Format[fd] = "text"
  <2>1. Ends = {i \in 1 .. Len(b) : b[i].end}
    BY <1>1, <1>7 DEF Ends, TextEnds
  <2>2. 1 \notin Ends
    <3>1. 1 \in 1 .. Len(b) => 1 <= Len(b)
      OBVIOUS
    <3> HIDE DEF b
    <3> QED  BY <1>4, <2>1, <3>1
  <2>3. 2 <= Len(b) => 2 \in Ends
    <3> HIDE DEF b
    <3> QED  BY <1>4, <1>6, <2>1
  <2>4. Len(b) <= 1 => Ends = {}
    <3>1. Len(b) <= 1 => 1 .. Len(b) \subseteq {1}
      <4> HIDE DEF b
      <4> QED  BY <1>1
    <3> HIDE DEF b
    <3> QED  BY <2>1, <2>2, <3>1
  <2>5. ~Excess
    BY <1>7 DEF Excess
  <2> QED  BY <1>1, <2>2, <2>3, <2>4, <2>5
<1>8. CASE Format[fd] = "json"
  <2>1. Ends = JsonEnds /\ Len(Input) = Len(b)
    BY <1>1, <1>8 DEF Ends
  <2>2. /\ Opens = {i \in 1 .. Len(b) : Braced(b[i]) /\ ~b[i].end /\ b[i].kind # "stray"}
        /\ Closes = {i \in 1 .. Len(b) : Braced(b[i]) /\ b[i].end /\ b[i].kind # "unclosed"}
    BY <1>1 DEF Opens, Closes
  <2>3. /\ 1 <= Len(b) => Braced(b[1]) /\ b[1].kind # "stray"
        /\ 2 <= Len(b) => Braced(b[2]) /\ b[2].kind # "unclosed"
    <3>1. \A u : u.n - 1 = up => Braced(u)
      BY <1>3, <1>8 DEF Braced
    <3> HIDE DEF b
    <3> QED  BY <1>4, <3>1 DEF Unbalanced
  <2> HIDE DEF b
  <2>4. ASSUME 1 <= Len(b)  PROVE Opens \cap 1 .. 1 = {1} /\ Closes \cap 1 .. 1 = {} /\ Nest(1) = 1
    <3>1. 1 \in Opens /\ 1 \notin Closes /\ 1 .. 1 = {1}
      BY <1>4, <1>5, <2>2, <2>3, <2>4
    <3>2. Opens \cap 1 .. 1 = {1} /\ Closes \cap 1 .. 1 = {}
      BY <3>1
    <3>3. Cardinality(Opens \cap 1 .. 1) = 1 /\ Cardinality(Closes \cap 1 .. 1) = 0
      BY <3>2, FS_EmptySet, FS_Singleton
    <3> QED  BY <3>2, <3>3 DEF Nest
  <2>5. ASSUME 2 <= Len(b)  PROVE Opens \cap 1 .. 2 # {} /\ Nest(2) = 0
    <3>1. 1 \in Opens /\ 1 \notin Closes /\ 2 \in Closes /\ 2 \notin Opens
      BY <1>4, <1>5, <1>6, <2>2, <2>3, <2>5
    <3>2. 1 .. 2 = {1, 2}
      OBVIOUS
    <3>3. Opens \cap 1 .. 2 = {1} /\ Closes \cap 1 .. 2 = {2}
      BY <3>1, <3>2
    <3>4. Cardinality(Opens \cap 1 .. 2) = 1 /\ Cardinality(Closes \cap 1 .. 2) = 1
      BY <3>3, FS_Singleton
    <3> QED  BY <3>3, <3>4 DEF Nest
  <2>6. 1 \notin Ends
    <3>1. 1 \in 1 .. Len(b) => 1 <= Len(b)
      OBVIOUS
    <3> QED  BY <2>1, <2>4, <3>1 DEF JsonEnds
  <2>7. 2 <= Len(b) => 2 \in Ends
    BY <1>6, <2>1, <2>5 DEF JsonEnds
  <2>8. ASSUME Len(b) <= 1  PROVE Ends = {} /\ ~Excess
    <3>1. CASE Len(b) = 1
      <4>1. Ends = {}
        <5>1. Ends \subseteq 1 .. 1 /\ 1 .. 1 = {1}
          BY <2>1, <3>1 DEF JsonEnds
        <5> QED  BY <2>6, <5>1
      <4>2. Nest(Len(Input)) = 1
        BY <2>1, <2>4, <3>1
      <4> QED  BY <4>1, <4>2 DEF Excess
    <3>2. CASE Len(b) = 0
      <4>1. Ends = {}
        <5>1. Ends \subseteq 1 .. 0 /\ 1 .. 0 = {}
          BY <2>1, <3>2 DEF JsonEnds
        <5> QED  BY <5>1
      <4>2. Nest(Len(Input)) = 0
        <5>1. Opens \cap 1 .. 0 = {} /\ Closes \cap 1 .. 0 = {}
          OBVIOUS
        <5>2. Cardinality(Opens \cap 1 .. 0) = 0 /\ Cardinality(Closes \cap 1 .. 0) = 0
          BY <5>1, FS_EmptySet
        <5> QED  BY <2>1, <3>2, <5>2 DEF Nest
      <4> QED  BY <4>1, <4>2 DEF Excess
    <3>3. Len(b) = 1 \/ Len(b) = 0
      <4> DEFINE lb == Len(b)
      <4>1. lb \in Nat
        BY <1>1
      <4>2. lb <= 1
        BY <2>8
      <4> HIDE DEF lb
      <4>3. lb = 1 \/ lb = 0
        BY <4>1, <4>2
      <4> QED  BY <4>3 DEF lb
    <3> QED  BY <3>1, <3>2, <3>3
  <2> QED  BY <1>1, <2>6, <2>7, <2>8 DEF b
<1>9. Format[fd] \in {"text", "json"}
  BY <1>1 DEF TypeOK
<1> QED  BY <1>7, <1>8, <1>9

(* So what is taken off the input of a client in step is this message.     *)
LEMMA TakesNext ==
  ASSUME Inductive, Streams, Take, NEW fd, fd = rx.fd, ClientIF[fd] = "tcp", InStep(fd, upTo[fd] + 1)
  PROVE  LET n == upTo[fd] + 1 IN
         /\ n \in 1 .. Len(sent[fd]) /\ Taken = Whole(peer[fd], n, sent[fd][n])
         /\ Len(InputBuffer[fd]) >= 2
<1>1. fd \in Fds
  BY DEF Take, Inductive, Typed
<1> DEFINE b == InputBuffer[fd]
           U == UnitsOf(fd)
           n == upTo[fd] + 1
           k == sent[fd][n]
<1>2. TypeOK /\ ClientStream(fd) /\ half[fd] \in BOOLEAN /\ b = Input
  <2>1. TypeOK /\ Shapes /\ ClientStream(fd)
    BY <1>1 DEF Streams, Stream
  <2>2. half[fd] \in BOOLEAN
    BY <1>1, <2>1 DEF Shapes
  <2> QED  BY <2>1, <2>2 DEF Input
<1>3. Len(b) \in Nat /\ \A i \in 1 .. Len(b) : b[i] \in U
  BY <1>1, <1>2, UnitsAhead
<1>4. Ends # {} /\ Ends \subseteq 1 .. Len(b) /\ Taken = SubSeq(b, 1, Min(Ends))
  <2>1. ClientIF[rx.fd] # "web"
    OBVIOUS
  <2>2. Ends \subseteq 1 .. Len(b)
    BY <1>2 DEF Ends, TextEnds, JsonEnds
  <2> QED  BY <1>2, <2>1, <2>2 DEF Take, Complete, Taken, Web
<1>5. 1 \notin Ends /\ (Len(b) >= 2 => 2 \in Ends) /\ (Len(b) <= 1 => Ends = {})
  BY <1>1, FirstMessage
<1>6. Len(b) >= 2 /\ 2 \in 1 .. Len(b) /\ 1 \in 1 .. Len(b)
  <2> DEFINE lb == Len(b)
  <2>1. lb \in Nat /\ ~(lb <= 1)
    BY <1>3, <1>4, <1>5
  <2> HIDE DEF lb
  <2>2. lb >= 2 /\ 2 \in 1 .. lb /\ 1 \in 1 .. lb
    BY <2>1
  <2> QED  BY <2>2 DEF lb
<1>7. Min(Ends) = 2
  <2>1. 2 \in Ends /\ Ends \in SUBSET Nat
    BY <1>4, <1>5, <1>6
  <2>2. Min(Ends) \in Ends /\ Min(Ends) <= 2
    BY <1>4, <2>1, LowestExists
  <2>3. Min(Ends) \in 1 .. Len(b) /\ Min(Ends) # 1
    BY <1>4, <1>5, <2>2
  <2> HIDE DEF b
  <2> QED  BY <1>3, <2>2, <2>3
<1>8. Taken = <<b[1], b[2]>>
  <2>1. b \in Seq(U)
    BY <1>2 DEF ClientStream
  <2> HIDE DEF b, U
  <2>2. Taken \in Seq(U) /\ Len(Taken) = 2 /\ \A i \in 1 .. 2 : Taken[i] = b[i]
    <3>1. /\ SubSeq(b, 1, 2) \in Seq(U) /\ Len(SubSeq(b, 1, 2)) = 2 - 1 + 1
          /\ \A i \in 1 .. 2 - 1 + 1 : SubSeq(b, 1, 2)[i] = b[i + 1 - 1]
      <4>1. 2 <= Len(b) /\ 1 <= 2 + 1 /\ 1 \in Nat \ {0} /\ 2 \in Nat
        BY <1>6
      <4> QED  BY <2>1, <4>1, Part
    <3>2. 2 - 1 + 1 = 2 /\ \A i \in 1 .. 2 : i + 1 - 1 = i
      OBVIOUS
    <3> QED  BY <1>4, <1>7, <3>1, <3>2
  <2>3. <<b[1], b[2]>> \in Seq(U) /\ Len(<<b[1], b[2]>>) = 2
    BY <1>3, <1>6
  <2>4. \A i \in 1 .. 2 : Taken[i] = <<b[1], b[2]>>[i]
    BY <2>2
  <2> QED  BY <2>2, <2>3, <2>4, SeqEqual
<1>9. \A i \in {1, 2} : n \in 1 .. Len(sent[fd]) /\ b[i] = Unit(peer[fd], n, k, i = 2)
  <2>1. \A i \in {1, 2} : i <= Len(b)
    <3> HIDE DEF b
    <3> QED  BY <1>3, <1>6
  <2> QED  BY <1>1, <1>2, <2>1, FirstUnit
<1>10. n \in 1 .. Len(sent[fd]) /\ b[1] = Unit(peer[fd], n, k, FALSE) /\ b[2] = Unit(peer[fd], n, k, TRUE)
  <2> HIDE DEF b, n, k
  <2>1. b[1] = Unit(peer[fd], n, k, 1 = 2) /\ b[2] = Unit(peer[fd], n, k, 2 = 2)
    BY <1>9
  <2>2. n \in 1 .. Len(sent[fd])
    BY <1>9
  <2>3. (1 = 2) = FALSE /\ (2 = 2) = TRUE
    OBVIOUS
  <2> QED  BY <2>1, <2>2, <2>3
<1> HIDE DEF b, n, k
<1>11. Taken = Whole(peer[fd], n, k)
  BY <1>8, <1>10 DEF Whole
<1> QED  BY <1>6, <1>10, <1>11 DEF b, n, k

(* What is taken off the input is its first part, of messages behind upTo. *)
LEMMA TakenFacts ==
  ASSUME Inductive, Streams, Take, NEW fd, fd = rx.fd
  PROVE  LET b == InputBuffer[fd]
             m == Last(Taken)
         IN
         /\ fd \in Fds /\ ClientIF[fd] \in {"tcp", "web"}
         /\ Taken \in Seq(UnitsOf(fd)) /\ Taken # << >> /\ Len(Taken) \in 1 .. Len(b)
         /\ \A i \in 1 .. Len(Taken) : Taken[i] = b[i]
         /\ m = b[Len(Taken)] /\ m \in UnitsOf(fd) /\ upTo[fd] < m.n
         /\ ClientIF[fd] = "tcp" => \A i \in 1 .. Len(Taken) : Taken[i].n <= m.n
<1>1. fd \in Fds
  BY DEF Take, Inductive, Typed
<1>2. ClientIF[fd] \in {"tcp", "web"} /\ fd # None
  BY <1>1, FdFacts DEF Inductive, Typed, Called
<1> DEFINE b == InputBuffer[fd]
           U == UnitsOf(fd)
           m == Last(Taken)
<1>3. TypeOK /\ Stream(fd) /\ half[fd] \in BOOLEAN /\ upTo[fd] \in Nat /\ b = Input
  <2>1. TypeOK /\ Shapes /\ Stream(fd)
    BY <1>1 DEF Streams
  <2> QED  BY <1>1, <2>1, SentFacts DEF Shapes, Input
<1>4. b \in Seq(U) /\ Len(b) \in Nat /\ \A i \in 1 .. Len(b) : b[i] \in U
  <2>1. b \in Seq(U)
    BY <1>2, <1>3 DEF Stream, ClientStream, LinkStream
  <2> HIDE DEF b, U
  <2> QED  BY <2>1, Elements
<1>5. PICK k \in 1 .. Len(b) : Taken = SubSeq(b, 1, k) \/ (Taken = b /\ k = Len(b))
  <2>1. CASE ClientIF[fd] = "tcp"
    <3>1. Ends # {} /\ Taken = SubSeq(b, 1, Min(Ends))
      BY <1>3, <2>1 DEF Take, Complete, Taken, Web
    <3>2. Ends \subseteq 1 .. Len(b)
      BY <1>3 DEF Ends, TextEnds, JsonEnds
    <3>3. Min(Ends) \in Ends
      <4>1. Ends \in SUBSET Nat
        BY <3>2
      <4> QED  BY <3>1, <4>1, LowestExists
    <3> QED  BY <3>1, <3>2, <3>3
  <2>2. CASE ClientIF[fd] = "web"
    <3>1. Taken = b /\ b # << >>
      BY <1>3, <2>2 DEF Take, Complete, Taken, Web
    <3>2. Len(b) \in 1 .. Len(b)
      <4> HIDE DEF b, U
      <4> QED  BY <1>4, <3>1, EmptySeq
    <3> QED  BY <3>1, <3>2
  <2> QED  BY <1>2, <2>1, <2>2
<1>6. k \in 1 .. Len(b) /\ Taken \in Seq(U) /\ Len(Taken) = k /\ \A i \in 1 .. k : Taken[i] = b[i]
  <2> HIDE DEF b, U
  <2>1. CASE Taken = SubSeq(b, 1, k)
    <3>1. k \in Nat /\ 1 <= k + 1 /\ k <= Len(b) /\ 1 \in Nat \ {0} /\ k - 1 + 1 = k /\ \A i \in 1 .. k : i + 1 - 1 = i
      BY <1>4
    <3>2. /\ SubSeq(b, 1, k) \in Seq(U) /\ Len(SubSeq(b, 1, k)) = k - 1 + 1
          /\ \A i \in 1 .. k - 1 + 1 : SubSeq(b, 1, k)[i] = b[i + 1 - 1]
      BY <1>4, <3>1, Part
    <3> QED  BY <2>1, <3>1, <3>2
  <2>2. CASE Taken = b /\ k = Len(b)
    BY <1>4, <2>2
  <2> QED  BY <1>5, <2>1, <2>2
<1>7. Taken # << >> /\ k \in 1 .. k
  <2> HIDE DEF b, U
  <2> QED  BY <1>4, <1>6
<1>8. m = b[k] /\ b[k] \in U
  BY <1>4, <1>6, <1>7 DEF Last
<1>9. upTo[fd] < m.n /\ (ClientIF[fd] = "tcp" => \A i \in 1 .. k : b[i].n <= m.n)
  <2>1. CASE ClientIF[fd] = "tcp"
    <3>1. \A i \in 1 .. Len(b) : b[i].n \in Nat /\ upTo[fd] < b[i].n /\ \A j \in i .. Len(b) : b[i].n <= b[j].n
      BY <1>1, <1>3, <2>1, UnitsAhead DEF Stream
    <3>2. \A i \in 1 .. k : i \in 1 .. Len(b) /\ k \in i .. Len(b)
      <4> HIDE DEF b
      <4> QED  BY <1>4, <1>6
    <3> HIDE DEF b, m
    <3> QED  BY <1>6, <1>8, <3>1, <3>2
  <2>2. CASE ClientIF[fd] = "web"
    <3>1. 2 * upTo[fd] < Rank(m)
      <4>1. Rank(b[k]) \in Ranks(b)
        BY <1>6 DEF Ranks
      <4>2. Precede({2 * upTo[fd]}, Ranks(b))
        BY <1>3, <2>2 DEF Stream, LinkStream
      <4> QED  BY <1>8, <4>1, <4>2 DEF Precede
    <3>2. m \in U
      BY <1>8
    <3>3. sent[fd] \in Seq(Kinds \cup WebKinds)
      BY <1>1, <1>3, SentFacts
    <3>4. Rank(m) = (IF m.end THEN 2 * m.n ELSE 2 * m.n - 1) /\ m.n \in 1 .. Len(sent[fd]) /\ Len(sent[fd]) \in Nat
      <4> HIDE DEF m
      <4> QED  BY <1>3, <3>2, <3>3, RankFacts
    <3> DEFINE n == m.n
               r == Rank(m)
               up == upTo[fd]
    <3>5. 2 * up < r /\ r <= 2 * n /\ r \in Int /\ n \in Nat /\ up \in Nat
      <4>1. n \in Nat
        <5> HIDE DEF m
        <5> QED  BY <3>4
      <4>2. r = 2 * n \/ r = 2 * n - 1
        BY <3>4
      <4> HIDE DEF n, r, up
      <4> QED  BY <1>3, <3>1, <4>1, <4>2 DEF r, up
    <3> HIDE DEF n, r, up
    <3>6. up < n
      BY <3>5
    <3> QED  BY <2>2, <3>6 DEF n, up
  <2> QED  BY <1>2, <2>1, <2>2
<1> HIDE DEF m, b, U
<1> QED  BY <1>1, <1>2, <1>6, <1>7, <1>8, <1>9 DEF m, b, U

(* A message that is whole is read as what it is; in step there is nothing *)
(* else, and of the relay server nothing else is read at all.              *)
LEMMA ReadFacts ==
  ASSUME Inductive, Streams, Take, NEW fd, fd = rx.fd
  PROVE  LET n == Last(Taken).n
             k == sent[fd][n]
         IN
         /\ n \in 1 .. Len(sent[fd]) /\ n \in Nat /\ Last(Taken).end \in BOOLEAN /\ k \in Kinds \cup WebKinds
         /\ \A x \in ReadAs(Taken) : x = "garbled" \/ (x \in Kinds \cup WebKinds /\ Last(Taken).end)
         /\ ClientIF[fd] = "tcp" /\ InStep(fd, n) =>
              n = upTo[fd] + 1 /\ Last(Taken).end /\ Taken = Whole(peer[fd], n, k) /\ ReadAs(Taken) = {k}
         /\ ClientIF[fd] = "web" =>
              \A x \in ReadAs(Taken) : x # "garbled" => Taken = Whole(peer[fd], n, k) /\ x = k /\ x \in WebKinds
<1> DEFINE m == Last(Taken)
           n == m.n
           k == sent[fd][n]
           up == upTo[fd]
<1>1. /\ fd \in Fds /\ ClientIF[fd] \in {"tcp", "web"} /\ m \in UnitsOf(fd) /\ up < n
      /\ TypeOK /\ Stream(fd)
  <2>1. fd \in Fds /\ ClientIF[fd] \in {"tcp", "web"} /\ m \in UnitsOf(fd) /\ up < n
    BY TakenFacts
  <2> QED  BY <2>1 DEF Streams
<1>2. /\ n \in 1 .. Len(sent[fd]) /\ m.end \in BOOLEAN /\ m.s = peer[fd] /\ m.kind = k
      /\ k \in Kinds \cup WebKinds
  <2> HIDE DEF m
  <2> QED  BY <1>1 DEF UnitsOf
<1>3. sent[fd] \in Seq(Kinds \cup WebKinds) /\ Len(sent[fd]) \in Nat /\ up \in Nat
  BY <1>1, SentFacts
<1>4. n \in Nat /\ up + 1 <= n
  <2> HIDE DEF n, up
  <2> QED  BY <1>1, <1>2, <1>3
<1>5. IsWhole(Taken) => Taken = Whole(peer[fd], n, k) /\ m.end
  <2>1. IsWhole(Taken) => Taken = Whole(m.s, m.n, m.kind)
    BY DEF IsWhole
  <2>2. Taken = Whole(m.s, m.n, m.kind) => m.end = TRUE
    <3> DEFINE w == Taken
               x == m.s
               y == m.n
               z == m.kind
    <3> HIDE DEF w, x, y, z
    <3>1. w = Whole(x, y, z) => Last(w) = Unit(x, y, z, TRUE)
      BY WholeEnds
    <3>2. Unit(x, y, z, TRUE).end = TRUE
      BY DEF Unit
    <3>3. w = Whole(x, y, z) => Last(w).end = TRUE
      BY <3>1, <3>2
    <3> QED  BY <3>3 DEF w, x, y, z
  <2> HIDE DEF m
  <2> QED  BY <1>2, <2>1, <2>2
<1>6. \A x \in ReadAs(Taken) : x = "garbled" \/ (x \in Kinds \cup WebKinds /\ m.end)
  <2> HIDE DEF m, n, k
  <2> QED  BY <1>2, <1>5 DEF ReadAs, m, n, k
<1>7. ASSUME ClientIF[fd] = "tcp", InStep(fd, n)
      PROVE  n = up + 1 /\ m.end /\ Taken = Whole(peer[fd], n, k) /\ ReadAs(Taken) = {k}
  <2>1. InStep(fd, up + 1)
    <3> HIDE DEF n, up
    <3>1. n \in Int /\ up + 1 \in Int
      BY <1>3, <1>4
    <3> QED  BY <1>1, <1>4, <1>7, <3>1, InStepLess
  <2>2. Taken = Whole(peer[fd], up + 1, sent[fd][up + 1])
    BY <1>7, <2>1, TakesNext
  <2>3. m = Unit(peer[fd], up + 1, sent[fd][up + 1], TRUE) /\ IsWhole(Taken)
    <3> DEFINE w == Taken
               p == peer[fd]
               l == up + 1
               x == sent[fd][up + 1]
    <3>1. w = Whole(p, l, x)
      BY <2>2
    <3> HIDE DEF w, p, l, x
    <3>2. Last(w) = Unit(p, l, x, TRUE) /\ IsWhole(w)
      BY <3>1, WholeEnds
    <3> QED  BY <3>2 DEF w, p, l, x
  <2>4. n = up + 1
    <3> HIDE DEF m, up
    <3> QED  BY <2>3 DEF Unit, n
  <2>5. ReadAs(Taken) = {k}
    <3> HIDE DEF m, n, k
    <3> QED  BY <1>2, <1>7, <2>3 DEF ReadAs, m, n, k
  <2> HIDE DEF m, n, k
  <2> QED  BY <1>5, <2>3, <2>4, <2>5
<1>8. ASSUME ClientIF[fd] = "web", NEW x \in ReadAs(Taken), x # "garbled"
      PROVE  Taken = Whole(peer[fd], n, k) /\ x = k /\ x \in WebKinds
  <2>1. IsWhole(Taken) /\ x = m.kind
    <3> HIDE DEF m
    <3> QED  BY <1>8 DEF ReadAs, Web, m
  <2>2. sent[fd] \in Seq(WebKinds)
    BY <1>1, <1>8 DEF Stream, LinkStream
  <2>3. k \in WebKinds
    <3> HIDE DEF n
    <3> QED  BY <1>2, <2>2, ElementOfSeq
  <2> HIDE DEF m, n, k
  <2> QED  BY <1>2, <1>5, <2>1, <2>3
<1> HIDE DEF m, n, k, up
<1> QED  BY <1>2, <1>4, <1>6, <1>7, <1>8 DEF m, n, k, up

(* The kinds of messages: no kind is called garbled.                       *)
LEMMA KindFacts ==
  /\ "garbled" \notin Kinds \cup WebKinds /\ "garbled" \notin Commands /\ "garbled" \notin Repeaters
  /\ Changes \subseteq Commands /\ Changes \subseteq {"text", "json"}
  /\ \A k \in WebKinds : k \notin Changes /\ (k \in Commands => k = "cmd")
  /\ \A k \in Repeaters \cup {"cmd", "mail", "junk", "garbled"} : k \notin Changes
BY ClientsAssumption DEF Commands, Changes, JsonOnly, Reports, Repeaters, Unbalanced

(* What is left of the input: c is b without its first k elements.         *)
Without(b, k, c) == Len(c) + k = Len(b) /\ \A i \in 1 .. Len(c) : c[i] = b[i + k]

LEMMA Dropped ==
  ASSUME NEW S, NEW b \in Seq(S), NEW c \in Seq(S), NEW l \in Seq(S), NEW k \in Nat, Without(b, k, c)
  PROVE  Len(c \o l) \in Nat /\ Len(b \o l) \in Nat /\ Without(b \o l, k, c \o l)
<1> DEFINE v == c \o l
           w == b \o l
           lb == Len(b)
           lc == Len(c)
           ll == Len(l)
<1>1. lc \in Nat /\ lb \in Nat /\ ll \in Nat /\ lc + k = lb
  BY LenProperties DEF Without
<1>2. Len(v) = lc + ll /\ \A i \in 1 .. lc + ll : v[i] = IF i <= lc THEN c[i] ELSE l[i - lc]
  BY ConcatProperties
<1>3. Len(w) = lb + ll /\ \A i \in 1 .. lb + ll : w[i] = IF i <= lb THEN b[i] ELSE l[i - lb]
  BY ConcatProperties
<1>4. \A i \in 1 .. lc : c[i] = b[i + k]
  BY DEF Without
<1> HIDE DEF v, w, lb, lc, ll
<1>5. lc + ll \in Nat /\ lb + ll \in Nat /\ lc + ll + k = lb + ll
  BY <1>1
<1>6. ASSUME NEW i \in 1 .. lc + ll  PROVE v[i] = w[i + k]
  <2>1. i \in 1 .. lc + ll /\ i + k \in 1 .. lb + ll /\ i \in Int
    BY <1>1
  <2>2. CASE i <= lc
    <3>1. i + k <= lb /\ i \in 1 .. lc
      BY <1>1, <2>1, <2>2
    <3> QED  BY <1>2, <1>3, <1>4, <2>1, <2>2, <3>1
  <2>3. CASE ~(i <= lc)
    <3> DEFINE j == i + k
    <3>1. j \in 1 .. lb + ll /\ ~(j <= lb) /\ j - lb = i - lc
      BY <1>1, <2>1, <2>3
    <3>2. v[i] = l[i - lc]
      BY <1>2, <2>3
    <3> HIDE DEF j
    <3>3. w[j] = l[j - lb]
      BY <1>3, <3>1
    <3>4. v[i] = w[j]
      BY <3>1, <3>2, <3>3
    <3> QED  BY <3>4 DEF j
  <2> QED  BY <2>2, <2>3
<1>7. Len(v) \in Nat /\ Len(w) \in Nat /\ Without(w, k, v)
  BY <1>2, <1>3, <1>5, <1>6 DEF Without
<1> QED  BY <1>7 DEF v, w

LEMMA TakenRest ==
  ASSUME Inductive, Streams, Take, NEW fd, fd = rx.fd
  PROVE  LET b == InputBuffer[fd]
             c == InputBuffer'[fd]
         IN
         /\ c \in Seq(UnitsOf(fd)) /\ Len(c) + Len(Taken) = Len(b)
         /\ \A i \in 1 .. Len(c) : c[i] = b[i + Len(Taken)]
         /\ ClientIF[fd] = "web" => c = << >>
         /\ InputBuffer' \in [Fds -> Seq(Items)]
         /\ \A g \in Fds : Len(InputBuffer'[g]) < BufferSize
         /\ \A g \in Fds \ {fd} : InputBuffer'[g] = InputBuffer[g]
<1> DEFINE b == InputBuffer[fd]
           U == UnitsOf(fd)
           t == Len(Taken)
           c == SubSeq(b, t + 1, Len(b))
<1>1. /\ fd \in Fds /\ ClientIF[fd] \in {"tcp", "web"} /\ t \in 1 .. Len(b)
  BY TakenFacts
<1>2. TypeOK /\ Stream(fd)
  BY <1>1 DEF Streams
<1>3. b \in Seq(U) /\ Len(b) \in Nat
  <2>1. b \in Seq(U)
    BY <1>1, <1>2 DEF Stream, ClientStream, LinkStream
  <2> HIDE DEF b, U
  <2> QED  BY <2>1, LenProperties
<1>4. c \in Seq(U) /\ Len(c) + t = Len(b) /\ Len(c) <= Len(b) /\ \A i \in 1 .. Len(c) : c[i] = b[i + t]
  <2> HIDE DEF b, U, t
  <2>1. t + 1 \in Nat \ {0} /\ t + 1 <= Len(b) + 1 /\ Len(b) <= Len(b)
    BY <1>1, <1>3
  <2>2. /\ c \in Seq(U) /\ Len(c) = Len(b) - (t + 1) + 1
        /\ \A i \in 1 .. Len(b) - (t + 1) + 1 : c[i] = b[i + (t + 1) - 1]
    BY <1>3, <2>1, Part
  <2> DEFINE lb == Len(b)
             lc == Len(c)
  <2>3. lb \in Nat /\ t \in 1 .. lb /\ lc = lb - (t + 1) + 1
        /\ \A i \in 1 .. lb - (t + 1) + 1 : c[i] = b[i + (t + 1) - 1]
    BY <1>1, <1>3, <2>2
  <2> HIDE DEF b, c, lb, lc
  <2>4. lc + t = lb /\ lc <= lb /\ lb - (t + 1) + 1 = lc /\ \A i \in 1 .. lc : i + (t + 1) - 1 = i + t
    BY <2>3
  <2>5. \A i \in 1 .. lc : c[i] = b[i + t]
    BY <2>3, <2>4
  <2> QED  BY <2>2, <2>4, <2>5 DEF lb, lc
<1>5. InputBuffer' = [InputBuffer EXCEPT ![fd] = c]
  BY DEF Take, Remains
<1>6. /\ InputBuffer \in [Fds -> Seq(Items)] /\ BufferSize \in Nat
      /\ \A g \in Fds : Len(InputBuffer[g]) < BufferSize
  BY <1>2, ClientsAssumption DEF TypeOK
<1>7. c \in Seq(Items)
  <2> HIDE DEF c
  <2> QED  BY <1>1, <1>2, <1>4, UnitsAreItems
<1>8. Len(c) < BufferSize
  <2>1. Len(b) < BufferSize
    BY <1>1, <1>6
  <2> DEFINE x == Len(c)
             y == Len(b)
  <2>2. x <= y /\ x + t = y /\ t \in Int /\ y \in Nat /\ y < BufferSize
    BY <1>1, <1>3, <1>4, <2>1
  <2>3. x \in Int
    <3> HIDE DEF c, U
    <3> QED  BY <1>4, LenProperties
  <2> HIDE DEF x, y, t
  <2>4. x < BufferSize
    BY <1>6, <2>2, <2>3
  <2> QED  BY <2>4 DEF x
<1>9. ClientIF[fd] = "web" => c = << >>
  <2>1. ClientIF[fd] = "web" => t = Len(b)
    BY DEF Taken, Web, Input
  <2> HIDE DEF c, b, U, t
  <2>2. ClientIF[fd] = "web" => Len(c) = 0
    <3>1. Len(c) \in Nat
      BY <1>4, LenProperties
    <3> QED  BY <1>1, <1>3, <1>4, <2>1, <3>1
  <2> QED  BY <1>4, <2>2, EmptySeq
<1>10. /\ InputBuffer'[fd] = c /\ \A g \in Fds \ {fd} : InputBuffer'[g] = InputBuffer[g]
       /\ InputBuffer' \in [Fds -> Seq(Items)]
  <2> HIDE DEF c
  <2> QED  BY <1>1, <1>5, <1>6, <1>7
<1>11. \A g \in Fds : Len(InputBuffer'[g]) < BufferSize
  <2> HIDE DEF c
  <2> QED  BY <1>6, <1>8, <1>10
<1> HIDE DEF c, b, U, t
<1> QED  BY <1>4, <1>9, <1>10, <1>11 DEF b, U, t

LEMMA LessHeld ==
  ASSUME NEW held, NEW l, NEW last, InOrder(held, l, last), NEW x \in held, NEW y \in Int, y <= x, x \in Int, last \in Int
  PROVE  InOrder({y}, l, last)
<1> SUFFICES ASSUME NEW i \in 1 .. Len(l)
             PROVE  Precede({y}, Ranks(l[i].units))
  BY DEF InOrder
<1>1. Ranks(l[i].units) \subseteq 1 .. last /\ \A r \in Ranks(l[i].units) : x < r
  BY DEF InOrder, Precede
<1>2. \A r \in 1 .. last : x < r => y < r
  OBVIOUS
<1> QED  BY <1>1, <1>2 DEF Precede

(* As long as a client is in step behind upTo, the next message is served. *)
LEMMA TakesFirst ==
  ASSUME Inductive, Streams, Take, NEW fd, fd = rx.fd, ClientIF[fd] = "tcp",
         NEW x \in Int, upTo[fd] + 1 <= x, InStep(fd, x)
  PROVE  Last(Taken).n = upTo[fd] + 1 /\ Last(Taken).end = TRUE /\ Len(Taken) = 2
<1> DEFINE up == upTo[fd]
           n == up + 1
<1>1. fd \in Fds /\ TypeOK
  BY TakenFacts DEF Streams
<1>2. n \in Int /\ n <= x
  <2>1. up \in Nat
    BY <1>1, SentFacts
  <2>2. n <= x
    OBVIOUS
  <2> HIDE DEF up
  <2> QED  BY <2>1, <2>2
<1>3. InStep(fd, n)
  <2> HIDE DEF n
  <2> QED  BY <1>1, <1>2, InStepLess
<1>4. Taken = Whole(peer[fd], n, sent[fd][n])
  BY <1>3, TakesNext
<1> DEFINE w == Taken
           p == peer[fd]
           k == sent[fd][n]
<1>5. w = Whole(p, n, k)
  BY <1>4
<1> HIDE DEF w, p, k, n
<1>6. Last(w) = Unit(p, n, k, TRUE) /\ w = <<Unit(p, n, k, FALSE), Unit(p, n, k, TRUE)>>
  BY ONLY <1>5, WholeEnds
<1>7. Len(w) = 2
  BY <1>6
<1>8. Last(w).n = n /\ Last(w).end = TRUE
  BY <1>6 DEF Unit
<1> QED  BY <1>7, <1>8 DEF w, n

(* The stream of a client goes on behind what has been taken, ...          *)
LEMMA ClientTaken ==
  ASSUME Inductive, Streams, Take, NEW fd, fd = rx.fd, ClientIF[fd] = "tcp", NEW up,
         up = IF Last(Taken).end THEN Last(Taken).n ELSE Last(Taken).n - 1
  PROVE  LET v == InputBuffer'[fd] \o line[fd] IN
         /\ up \in 0 .. Len(sent[fd]) /\ up \in Nat /\ upTo[fd] <= up
         /\ 2 * up <= LastRank(fd) /\ Ascend(v, 2 * up, LastRank(fd))
         /\ There(v, 2 * up, LastRank(fd), Known(fd))
<1> DEFINE b == InputBuffer[fd]
           c == InputBuffer'[fd]
           l == line[fd]
           w == b \o l
           v == c \o l
           U == UnitsOf(fd)
           m == Last(Taken)
           t == Len(Taken)
           old == upTo[fd]
           last == LastRank(fd)
<1>1. fd \in Fds /\ t \in 1 .. Len(b) /\ m = b[t] /\ m \in U /\ old < m.n
  BY TakenFacts
<1>2. TypeOK /\ ClientStream(fd) /\ half[fd] \in BOOLEAN
  BY <1>1 DEF Streams, Stream, Shapes
<1>3. /\ sent[fd] \in Seq(Kinds \cup WebKinds) /\ old \in Nat /\ last \in Int /\ Len(sent[fd]) \in Nat
      /\ m.n \in 1 .. Len(sent[fd]) /\ m.end \in BOOLEAN /\ Rank(m) = IF m.end THEN 2 * m.n ELSE 2 * m.n - 1
  <2>1. sent[fd] \in Seq(Kinds \cup WebKinds) /\ old \in Nat
    BY <1>1, <1>2, SentFacts
  <2> HIDE DEF m
  <2> QED  BY <1>1, <1>2, <2>1, RankFacts
<1>4. Rank(m) <= last
  BY <1>1, <1>2, UnitsAhead
<1>5. /\ b \in Seq(U) /\ l \in Seq(U) /\ Ascend(w, 2 * old, last) /\ There(w, 2 * old, last, Known(fd))
  BY <1>2 DEF ClientStream, Way
<1>6. c \in Seq(U) /\ Len(c) + t = Len(b) /\ \A i \in 1 .. Len(c) : c[i] = b[i + t]
  BY TakenRest
<1>7. t \in Nat \ {0} /\ Len(b) \in Nat
  <2>1. Len(b) \in Nat
    <3> HIDE DEF b, U
    <3> QED  BY <1>5, LenProperties
  <2> HIDE DEF b, t
  <2> QED  BY <1>1, <2>1
<1>8. /\ Len(v) \in Nat /\ Len(w) \in Nat /\ Len(v) + t = Len(w)
      /\ \A i \in 1 .. Len(v) : v[i] = w[i + t]
  <2> HIDE DEF b, c, l, U, t
  <2>1. b \in Seq(U) /\ c \in Seq(U) /\ l \in Seq(U) /\ t \in Nat
    BY <1>5, <1>6, <1>7
  <2>2. Without(b, t, c)
    BY <1>6 DEF Without
  <2>3. Len(v) \in Nat /\ Len(w) \in Nat /\ Without(w, t, v)
    BY <2>1, <2>2, Dropped
  <2> QED  BY <2>3 DEF Without
<1>9. w[t] = m
  <2> HIDE DEF b, l, U, t, m
  <2> QED  BY <1>1, <1>5, Concat
<1>10. up \in Nat /\ up <= Len(sent[fd]) /\ old <= up /\ 2 * up <= Rank(m)
  <2> DEFINE n == m.n
             e == m.end
             r == Rank(m)
             len == Len(sent[fd])
  <2>1. /\ n \in 1 .. len /\ e \in BOOLEAN /\ len \in Nat /\ old \in Nat /\ old < n
        /\ r = IF e THEN 2 * n ELSE 2 * n - 1
    BY <1>1, <1>3
  <2>2. up = IF e THEN n ELSE n - 1
    OBVIOUS
  <2> HIDE DEF n, e, r, len, old
  <2>3. up \in Nat /\ up <= len /\ old <= up /\ 2 * up <= r
    BY <2>1, <2>2
  <2> QED  BY <2>3 DEF len, r
<1>11. up \in 0 .. Len(sent[fd]) /\ 2 * up \in Int /\ 2 * old \in Int /\ 2 * up <= last /\ 2 * old <= 2 * up
  <2> DEFINE r == Rank(m)
             len == Len(sent[fd])
  <2>1. r \in Int
    <3> HIDE DEF m
    <3> QED  BY <1>3
  <2>2. up \in Nat /\ up <= len /\ old <= up /\ 2 * up <= r /\ r <= last /\ last \in Int /\ len \in Nat /\ old \in Nat
    BY <1>3, <1>4, <1>10
  <2> HIDE DEF r, len, old, last
  <2>3. up \in 0 .. len /\ 2 * up \in Int /\ 2 * old \in Int /\ 2 * up <= last /\ 2 * old <= 2 * up
    BY <2>1, <2>2
  <2> QED  BY <2>3 DEF len
<1> DEFINE base == 2 * old
           next == 2 * up
<1>12. Ascend(v, next, last)
  <2>1. next <= Rank(w[t])
    BY <1>9, <1>10
  <2>2. base \in Int /\ next \in Int
    BY <1>11
  <2> HIDE DEF v, w, m, t, last, base, next
  <2> QED  BY <1>3, <1>5, <1>7, <1>8, <2>1, <2>2, Cut DEF base
<1>13. There(v, next, last, Known(fd))
  <2> SUFFICES ASSUME NEW r \in Known(fd), next < r, r <= last
               PROVE  r - next \in 1 .. Len(v) /\ Rank(v[r - next]) = r
    BY DEF There
  <2>1. PICK n \in 1 .. Len(sent[fd]) : InStep(fd, n) /\ r \in {2 * n - 1, 2 * n}
    BY DEF Known
  <2>2. n \in Int /\ up + 1 <= n /\ old + 1 <= n /\ r \in Int
    <3> DEFINE len == Len(sent[fd])
    <3>1. n \in 1 .. len /\ len \in Nat /\ up \in Nat /\ old \in Nat /\ old <= up /\ 2 * up < r
      BY <1>3, <1>10
    <3> HIDE DEF len, old
    <3> QED  BY <2>1, <3>1
  <2>3. m.n = old + 1 /\ m.end = TRUE /\ t = 2
    BY <2>1, <2>2, TakesFirst
  <2>4. next = base + 2
    <3>1. up = old + 1
      BY <2>3
    <3> HIDE DEF old
    <3> QED  BY <1>3, <3>1
  <2>5. base < r
    <3> HIDE DEF base, next
    <3>1. base \in Int
      BY <1>11 DEF base
    <3> QED  BY <2>2, <2>4, <3>1
  <2>6. r - base \in 1 .. Len(w) /\ Rank(w[r - base]) = r
    <3> HIDE DEF w, last, old
    <3> QED  BY <1>5, <2>5 DEF There
  <2> DEFINE i == r - next
             lv == Len(v)
             lw == Len(w)
  <2>7. i \in 1 .. lv /\ i + t = r - base
    <3>1. lv \in Nat /\ lw \in Nat /\ lv + t = lw
      BY <1>8
    <3>2. r - base \in 1 .. lw /\ base \in Int
      BY <1>11, <2>6
    <3> HIDE DEF v, w, lv, lw, t, base, next
    <3> QED  BY <2>2, <2>3, <2>4, <3>1, <3>2
  <2>8. v[i] = w[i + t]
    BY <1>8, <2>7
  <2> HIDE DEF v, w, t, base, next
  <2> QED  BY <2>6, <2>7, <2>8
<1> HIDE DEF v, last, old
<1> QED  BY <1>10, <1>11, <1>12, <1>13 DEF v, last, old, next

(* ... as does that of the relay server, and the format is the one that    *)
(* the messages up to there ask for.                                       *)
LEMMA FormatTaken ==
  ASSUME Inductive, Streams, Take, NEW fd, fd = rx.fd, ClientIF[fd] = "tcp", NEW format, NEW up \in Nat,
         up = IF Last(Taken).end THEN Last(Taken).n ELSE Last(Taken).n - 1,
         upTo[fd] <= up, InStep(fd, up),
         InStep(fd, Last(Taken).n) =>
           format = IF sent[fd][Last(Taken).n] \in Changes THEN sent[fd][Last(Taken).n] ELSE Format[fd],
         ~Last(Taken).end => format = Format[fd]
  PROVE  format = Mode(fd, up)
<1> DEFINE m == Last(Taken)
           n == m.n
           old == upTo[fd]
<1>1. fd \in Fds /\ TypeOK /\ ClientStream(fd) /\ old \in Nat /\ n \in Nat /\ m.end \in BOOLEAN
  <2>1. fd \in Fds /\ TypeOK /\ ClientStream(fd)
    BY TakenFacts DEF Streams, Stream
  <2> QED  BY <2>1, SentFacts, ReadFacts
<1>2. Format[fd] = Mode(fd, old)
  <2>1. InStep(fd, old)
    BY <1>1, InStepLess
  <2> QED  BY <1>1, <2>1 DEF ClientStream
<1>3. CASE m.end
  <2>1. up = n /\ n = old + 1
    <3>1. up = n
      BY <1>3
    <3>2. InStep(fd, n)
      BY <3>1
    <3> QED  BY <3>1, <3>2, ReadFacts
  <2>2. format = IF sent[fd][old + 1] \in Changes THEN sent[fd][old + 1] ELSE Format[fd]
    BY <2>1
  <2>3. /\ sent[fd][old + 1] \in Changes => Mode(fd, old + 1) = sent[fd][old + 1]
        /\ sent[fd][old + 1] \notin Changes => Mode(fd, old + 1) = Mode(fd, old)
    BY <1>1, ModeNext
  <2> HIDE DEF n, old
  <2> QED  BY <1>2, <2>1, <2>2, <2>3
<1>4. CASE ~m.end
  <2>1. format = Format[fd]
    BY <1>4
  <2>2. ASSUME old + 1 <= up  PROVE FALSE
    <3>1. up \in Int
      OBVIOUS
    <3>2. m.end = TRUE
      BY <2>2, <3>1, TakesFirst
    <3> QED  BY <1>4, <3>2
  <2>3. up = old
    <3>1. old <= up
      OBVIOUS
    <3> HIDE DEF old
    <3> QED  BY <1>1, <2>2, <3>1
  <2> QED  BY <1>2, <2>1, <2>3
<1> QED  BY <1>1, <1>3, <1>4

LEMMA LinkTaken ==
  ASSUME Inductive, Streams, Take, NEW fd, fd = rx.fd, ClientIF[fd] = "web", NEW up,
         up = IF Last(Taken).end THEN Last(Taken).n ELSE Last(Taken).n - 1
  PROVE  /\ up \in 0 .. Len(sent[fd]) /\ {2 * up} \subseteq 2 * up .. LastRank(fd)
         /\ InOrder({2 * up}, line[fd], LastRank(fd))
<1> DEFINE b == InputBuffer[fd]
           U == UnitsOf(fd)
           m == Last(Taken)
           last == LastRank(fd)
<1>1. /\ fd \in Fds /\ TypeOK /\ LinkStream(fd) /\ half[fd] \in BOOLEAN /\ m \in U
      /\ m = b[Len(Taken)] /\ Len(Taken) \in 1 .. Len(b)
  <2>1. fd \in Fds /\ TypeOK /\ LinkStream(fd) /\ half[fd] \in BOOLEAN
    BY TakenFacts DEF Streams, Stream, Shapes
  <2> QED  BY <2>1, TakenFacts
<1>2. Rank(m) \in Held(fd)
  BY <1>1 DEF Held, Ranks
<1>3. /\ last \in Int /\ Len(sent[fd]) \in Nat
      /\ m.n \in 1 .. Len(sent[fd]) /\ m.end \in BOOLEAN /\ Rank(m) = IF m.end THEN 2 * m.n ELSE 2 * m.n - 1
  <2>1. sent[fd] \in Seq(Kinds \cup WebKinds)
    BY <1>1, SentFacts
  <2> HIDE DEF m
  <2> QED  BY <1>1, <2>1, RankFacts
<1>4. Rank(m) <= last /\ InOrder(Held(fd), line[fd], last) /\ upTo[fd] \in Nat
  <2>1. Held(fd) \subseteq 2 * upTo[fd] .. last /\ InOrder(Held(fd), line[fd], last)
    BY <1>1 DEF LinkStream
  <2>2. upTo[fd] \in Nat
    BY <1>1, SentFacts
  <2> HIDE DEF m, last
  <2> QED  BY <1>2, <1>3, <2>1, <2>2
<1>5. up \in 0 .. Len(sent[fd]) /\ 2 * up <= Rank(m) /\ 2 * up \in Int /\ Rank(m) \in Int /\ 2 * up <= last
  <2> DEFINE n == m.n
             e == m.end
             r == Rank(m)
             len == Len(sent[fd])
  <2>1. n \in 1 .. len /\ e \in BOOLEAN /\ len \in Nat /\ r = (IF e THEN 2 * n ELSE 2 * n - 1) /\ r <= last /\ last \in Int
    BY <1>3, <1>4
  <2>2. up = IF e THEN n ELSE n - 1
    OBVIOUS
  <2> HIDE DEF n, e, r, len, last
  <2>3. up \in 0 .. len /\ 2 * up <= r /\ 2 * up \in Int /\ r \in Int /\ 2 * up <= last
    BY <2>1, <2>2
  <2> QED  BY <2>3 DEF r, len
<1>6. InOrder({2 * up}, line[fd], last)
  <2> DEFINE x == Rank(m)
             y == 2 * up
             h == Held(fd)
  <2>1. InOrder(h, line[fd], last) /\ x \in h /\ y \in Int /\ y <= x /\ x \in Int /\ last \in Int
    BY <1>2, <1>3, <1>4, <1>5
  <2> HIDE DEF x, y, h, last
  <2>2. InOrder({y}, line[fd], last)
    BY <2>1, LessHeld
  <2> QED  BY <2>2 DEF y
<1>7. {2 * up} \subseteq 2 * up .. last
  <2> HIDE DEF last
  <2> QED  BY <1>3, <1>5
<1> QED  BY <1>5, <1>6, <1>7

LEMMA StreamGoesOn ==
  ASSUME Inductive, Streams, Take, Served, UNCHANGED <<ClientIF, peer, sent, line, eof, half, lost>>,
         NEW fd, fd = rx.fd, ClientIF[fd] = "web" => Format'[fd] = "json",
         ClientIF[fd] = "tcp" /\ InStep(fd, Last(Taken).n) =>
           Format'[fd] = IF sent[fd][Last(Taken).n] \in Changes THEN sent[fd][Last(Taken).n] ELSE Format[fd],
         ClientIF[fd] = "tcp" /\ ~Last(Taken).end => Format'[fd] = Format[fd]
  PROVE  /\ Stream(fd)' /\ upTo'[fd] = IF Last(Taken).end THEN Last(Taken).n ELSE Last(Taken).n - 1
         /\ \A g \in Fds : {upTo'[g], lost'[g]} \subseteq 0 .. Len(sent'[g])
         /\ \A g \in Fds \ {fd} : upTo'[g] = upTo[g]
<1> DEFINE c == InputBuffer'[fd]
           U == UnitsOf(fd)
           m == Last(Taken)
           up == IF m.end THEN m.n ELSE m.n - 1
           last == LastRank(fd)
<1>1. fd \in Fds /\ ClientIF[fd] \in {"tcp", "web"}
  BY TakenFacts
<1>2. TypeOK /\ Shapes /\ Stream(fd)
  BY <1>1 DEF Streams, Shapes
<1>3. upTo'[fd] = up /\ \A g \in Fds \ {fd} : upTo'[g] = upTo[g]
  <2>1. upTo' = [upTo EXCEPT ![fd] = up] /\ upTo = [g \in Fds |-> upTo[g]]
    BY <1>2 DEF Served, Shapes
  <2> HIDE DEF up
  <2> QED  BY <1>1, <2>1
<1>4. c \in Seq(U) /\ (ClientIF[fd] = "web" => c = << >>)
  BY TakenRest
<1>5. UnitsOf(fd)' = U /\ LastRank(fd)' = last /\ FramesOf(fd)' = FramesOf(fd) /\ Known(fd)' = Known(fd)
  BY DEF UnitsOf, LastRank, FramesOf, Known, InStep
<1>6. up \in 0 .. Len(sent[fd])
  <2> HIDE DEF m
  <2> QED  BY <1>1, ClientTaken, LinkTaken DEF m
<1>7. \A g \in Fds : {upTo'[g], lost'[g]} \subseteq 0 .. Len(sent'[g])
  <2>1. \A g \in Fds : {upTo[g], lost[g]} \subseteq 0 .. Len(sent[g])
    BY <1>2 DEF TypeOK
  <2>2. \A g \in Fds : upTo'[g] = upTo[g] \/ (g = fd /\ upTo'[g] \in 0 .. Len(sent[g]))
    <3> HIDE DEF up
    <3> QED  BY <1>3, <1>6
  <2> QED  BY <2>1, <2>2
<1>8. ASSUME ClientIF[fd] = "web"  PROVE LinkStream(fd)'
  <2>1. {2 * up} \subseteq 2 * up .. last /\ InOrder({2 * up}, line[fd], last)
    <3> HIDE DEF m
    <3> QED  BY <1>8, LinkTaken DEF m
  <2>2. Held(fd)' = {2 * up} /\ Ranks(c) = {}
    <3> HIDE DEF c, up
    <3> QED  BY <1>3, <1>4, <1>8, RanksOf DEF Held, c
  <2>3. LinkStream(fd) /\ line'[fd] = line[fd] /\ sent'[fd] = sent[fd] /\ Format'[fd] = "json"
    BY <1>2, <1>8 DEF Stream
  <2> HIDE DEF c, U, up, last
  <2> QED  BY <1>3, <1>4, <1>5, <2>1, <2>2, <2>3 DEF LinkStream, Precede, c, U
<1>9. ASSUME ClientIF[fd] = "tcp"  PROVE ClientStream(fd)'
  <2>1. ClientStream(fd) /\ line'[fd] = line[fd] /\ lost'[fd] = lost[fd]
    BY <1>2, <1>9 DEF Stream
  <2>2. /\ up \in Nat /\ upTo[fd] <= up /\ 2 * up <= last /\ Ascend(c \o line[fd], 2 * up, last)
        /\ There(c \o line[fd], 2 * up, last, Known(fd))
    <3> HIDE DEF m
    <3> QED  BY <1>9, ClientTaken DEF m
  <2>3. InStep(fd, up) => Format'[fd] = Mode(fd, up)
    <3> HIDE DEF m
    <3> QED  BY <1>9, <2>2, FormatTaken DEF m
  <2>4. InStep(fd, upTo[fd])' => Format'[fd] = Mode(fd, upTo[fd])'
    <3>1. PICK v \in Nat : v = up
      BY <2>2
    <3>2. Mode(fd, v)' = Mode(fd, v) /\ InStep(fd, v)' = InStep(fd, v)
      BY DEF Mode, InStep
    <3>3. v = upTo'[fd]
      BY <1>3, <3>1
    <3>4. Mode(fd, v)' = Mode(fd, upTo[fd])' /\ InStep(fd, v)' = InStep(fd, upTo[fd])'
      BY <3>3 DEF Mode, InStep
    <3> HIDE DEF up
    <3> QED  BY <2>3, <3>1, <3>2, <3>4
  <2>5. Way(fd)' = c \o line[fd]
    BY <2>1 DEF Way
  <2> HIDE DEF c, U, up, last
  <2> QED  BY <1>3, <1>4, <1>5, <2>1, <2>2, <2>4, <2>5 DEF ClientStream, c, U
<1>10. Stream(fd)'
  <2>1. half[fd] => sent[fd] # << >>
    BY <1>2 DEF Stream
  <2> QED  BY <1>1, <1>8, <1>9, <2>1 DEF Stream
<1> QED  BY <1>3, <1>7, <1>10

(* So a step of the loop that has taken a message keeps the invariant.     *)
LEMMA TakenStreams ==
  ASSUME Inductive, Streams, Inductive', Take, Served, NEW fd, fd = rx.fd,
         UNCHANGED <<ClientIF, peer, sent, line, eof, half, lost>>,
         UNCHANGED <<ReceiveLastPacketFin, ReceiveLastOpcode, WebSocketIntialState, made>>,
         ClientIF[fd] = "web" => Format'[fd] = "json",
         ClientIF[fd] = "tcp" /\ InStep(fd, Last(Taken).n) =>
           Format'[fd] = IF sent[fd][Last(Taken).n] \in Changes THEN sent[fd][Last(Taken).n] ELSE Format[fd],
         ClientIF[fd] = "tcp" /\ ~Last(Taken).end => Format'[fd] = Format[fd],
         Format' \in [Fds -> {"text", "json"}], \A g \in Fds \ {fd} : Format'[g] = Format[g],
         age' \in [Fds -> 0 .. ConnectionTimeout],
         jobs' \subseteq [fd : Fds, s : 1 .. made, n : Nat, by : Nat],
         rx'.cmd \in Seq(Items), rx'.fin \in BOOLEAN,
         fd = rx'.fd \/ LeftBehind(fd)', CallAgrees'
  PROVE  Streams'
<1>1. fd \in Fds /\ TypeOK /\ Shapes
  BY TakenFacts DEF Streams, Shapes
<1>2. /\ Stream(fd)' /\ \A g \in Fds : {upTo'[g], lost'[g]} \subseteq 0 .. Len(sent'[g])
      /\ \A g \in Fds \ {fd} : upTo'[g] = upTo[g]
  BY StreamGoesOn
<1>3. /\ InputBuffer' \in [Fds -> Seq(Items)] /\ \A g \in Fds : Len(InputBuffer'[g]) < BufferSize
      /\ \A g \in Fds \ {fd} : InputBuffer'[g] = InputBuffer[g]
  BY TakenRest
<1>4. Rest'
  BY <1>1, <1>2, <1>3 DEF Rest, TypeOK, Items
<1>5. Shapes'
  BY <1>1 DEF Shapes, Served
<1>6. \A g \in Fds \ {fd} : Same(g)
  BY <1>2, <1>3 DEF Same
<1> QED  BY <1>1, <1>2, <1>4, <1>5, <1>6, RestIsTypesNext, OneStream

(* What a command that runs may change has its type after it.              *)
LEMMA RunsTypes ==
  ASSUME Inductive, Streams, Take, NEW cmd, NEW k, Runs(cmd, k), Last(cmd).n \in Nat, NEW fd, fd = rx.fd
  PROVE  /\ age' \in [Fds -> 0 .. ConnectionTimeout]
         /\ jobs' \subseteq [fd : Fds, s : 1 .. made, n : Nat, by : Nat]
         /\ Format' \in [Fds -> {"text", "json"}] /\ \A g \in Fds \ {fd} : Format'[g] = Format[g]
         /\ Format'[fd] = IF k \in Changes THEN k ELSE Format[fd]
<1>1. fd \in Fds /\ ClientIF[fd] # "none" /\ TypeOK /\ Last(Taken).n \in Nat
  <2>1. fd \in Fds /\ ClientIF[fd] \in {"tcp", "web"} /\ TypeOK /\ Last(Taken).n \in Nat
    BY TakenFacts, ReadFacts DEF Streams
  <2> QED  BY <2>1
<1>2. peer[fd] \in 1 .. made
  BY <1>1 DEF Inductive, Typed, DescriptorsAgree
<1>3. age' \in [Fds -> 0 .. ConnectionTimeout]
  BY <1>1, AgeOfAccess DEF Runs
<1>4. jobs' \subseteq [fd : Fds, s : 1 .. made, n : Nat, by : Nat]
  <2>1. jobs \subseteq [fd : Fds, s : 1 .. made, n : Nat, by : Nat]
    BY <1>1 DEF TypeOK
  <2>2. [fd |-> fd, s |-> peer[fd], n |-> Last(cmd).n, by |-> Last(Taken).n]
          \in [fd : Fds, s : 1 .. made, n : Nat, by : Nat]
    BY <1>1, <1>2
  <2> QED  BY <2>1, <2>2 DEF Runs
<1>5. Format' = IF k \in Changes THEN [Format EXCEPT ![fd] = k] ELSE Format
  BY DEF Runs
<1>6. Format \in [Fds -> {"text", "json"}] /\ (k \in Changes => k \in {"text", "json"})
  BY <1>1 DEF TypeOK, Changes
<1> HIDE DEF Changes
<1> QED  BY <1>1, <1>3, <1>4, <1>5, <1>6

(* A command that runs for the first time.                                 *)
LEMMA CommandRead ==
  ASSUME Inductive, Streams, Take, NEW fd, fd = rx.fd, NEW k \in ReadAs(Taken), Format[fd] = "text" \/ k \in Commands
  PROVE  /\ Last(Taken).end
         /\ ClientIF[fd] = "web" => Format[fd] = "json" /\ k \notin Changes
         /\ ClientIF[fd] = "web" \/ InStep(fd, Last(Taken).n) =>
              Taken = Whole(peer[fd], Last(Taken).n, sent[fd][Last(Taken).n]) /\ k = sent[fd][Last(Taken).n]
<1>1. ClientIF[fd] \in {"tcp", "web"} /\ fd \in Fds /\ TypeOK /\ Stream(fd)
  BY TakenFacts DEF Streams
<1>2. ClientIF[fd] = "web" => Format[fd] = "json" /\ k \in WebKinds /\ k # "garbled"
  <2>1. ClientIF[fd] = "web" => Format[fd] = "json"
    BY <1>1 DEF Stream, LinkStream
  <2>2. ClientIF[fd] = "web" => k # "garbled"
    BY <2>1, KindFacts
  <2> QED  BY <2>1, <2>2, ReadFacts
<1>3. Last(Taken).end
  <2>1. CASE k # "garbled"
    BY <2>1, ReadFacts
  <2>2. CASE k = "garbled"
    <3>1. ClientIF[fd] = "tcp" /\ Format[fd] = "text"
      BY <1>1, <1>2, <2>2, KindFacts
    <3>2. Taken = SubSeq(Input, 1, Min(TextEnds)) /\ TextEnds # {}
      BY <3>1 DEF Taken, Web, Take, Complete, Ends
    <3> DEFINE b == InputBuffer[fd]
               e == Min(TextEnds)
    <3>3. b = Input /\ TextEnds = {i \in 1 .. Len(b) : b[i].end} /\ Len(b) \in Nat /\ b \in Seq(UnitsOf(fd))
      <4>1. b \in Seq(UnitsOf(fd))
        BY <1>1, <3>1 DEF Stream, ClientStream
      <4> HIDE DEF b
      <4>2. Len(b) \in Nat
        BY <4>1, LenProperties
      <4> QED  BY <4>1, <4>2 DEF TextEnds, Input, b
    <3>4. e \in TextEnds
      <4>1. TextEnds \in SUBSET Nat
        <5> HIDE DEF b
        <5> QED  BY <3>3
      <4> QED  BY <3>2, <4>1, LowestExists
    <3>5. Len(Taken) = e
      <4> HIDE DEF b, e
      <4>1. e \in 1 .. Len(b) /\ Taken = SubSeq(b, 1, e) /\ 1 \in Nat \ {0} /\ e \in Nat /\ 1 <= e + 1 /\ e <= Len(b) /\ e - 1 + 1 = e
        BY <3>2, <3>3, <3>4 DEF e
      <4>2. Len(SubSeq(b, 1, e)) = e - 1 + 1
        BY <3>3, <4>1, Part
      <4> QED  BY <4>1, <4>2
    <3>6. Last(Taken) = b[e]
      BY <3>5, TakenFacts
    <3> HIDE DEF b, e
    <3> QED  BY <3>3, <3>4, <3>6
  <2> QED  BY <2>1, <2>2
<1>4. ClientIF[fd] = "web" \/ InStep(fd, Last(Taken).n) =>
        Taken = Whole(peer[fd], Last(Taken).n, sent[fd][Last(Taken).n]) /\ k = sent[fd][Last(Taken).n]
  <2>1. CASE ClientIF[fd] = "web"
    BY <1>2, <2>1, ReadFacts
  <2>2. CASE ClientIF[fd] = "tcp"
    BY <2>2, ReadFacts
  <2> QED  BY <1>1, <2>1, <2>2
<1> QED  BY <1>2, <1>3, <1>4, KindFacts

LEMMA TakeCommandStreams == ASSUME Inductive, Streams, Inductive', TakeCommand  PROVE Streams'
<1>1. PICK fd \in Fds : fd = rx.fd
  BY DEF TakeCommand, Take, Inductive, Typed
<1> DEFINE m == Last(Taken)
           n == m.n
<1>2. /\ Take /\ Served /\ rx' = [rx EXCEPT !.cmd = Taken]
      /\ UNCHANGED <<ClientIF, peer, sent, line, eof, half, lost>>
      /\ UNCHANGED <<ReceiveLastPacketFin, ReceiveLastOpcode, WebSocketIntialState, made>>
  BY DEF TakeCommand, Continue, web, net
<1>3. PICK k \in ReadAs(Taken) : (Format[fd] = "text" \/ k \in Commands) /\ Runs(Taken, k)
  BY <1>1 DEF TakeCommand
<1>4. /\ ClientIF[fd] \in {"tcp", "web"} /\ Taken \in Seq(UnitsOf(fd)) /\ Taken # << >> /\ n \in Nat /\ 1 <= n
      /\ ClientIF[fd] = "tcp" => \A i \in 1 .. Len(Taken) : Taken[i].n <= n
  <2>1. n \in 1 .. Len(sent[fd]) /\ n \in Nat
    BY <1>1, <1>2, ReadFacts
  <2>2. 1 <= n
    <3> HIDE DEF n
    <3> QED  BY <2>1
  <2> QED  BY <1>1, <1>2, <2>1, <2>2, TakenFacts
<1>5. /\ m.end
      /\ ClientIF[fd] = "web" => Format[fd] = "json" /\ k \notin Changes
      /\ ClientIF[fd] = "web" \/ InStep(fd, n) => Taken = Whole(peer[fd], n, sent[fd][n]) /\ k = sent[fd][n]
  BY <1>1, <1>2, <1>3, CommandRead
<1>6. /\ age' \in [Fds -> 0 .. ConnectionTimeout]
      /\ jobs' \subseteq [fd : Fds, s : 1 .. made, n : Nat, by : Nat]
      /\ Format' \in [Fds -> {"text", "json"}] /\ \A g \in Fds \ {fd} : Format'[g] = Format[g]
      /\ Format'[fd] = IF k \in Changes THEN k ELSE Format[fd]
  BY <1>1, <1>2, <1>3, <1>4, RunsTypes
<1>7. /\ ClientIF[fd] = "web" => Format'[fd] = "json"
      /\ ClientIF[fd] = "tcp" /\ InStep(fd, n) =>
           Format'[fd] = IF sent[fd][n] \in Changes THEN sent[fd][n] ELSE Format[fd]
      /\ ClientIF[fd] = "tcp" /\ ~m.end => Format'[fd] = Format[fd]
  <2> HIDE DEF m, n
  <2> QED  BY <1>5, <1>6
<1>8. upTo'[fd] = n
  <2>1. upTo'[fd] = IF m.end THEN n ELSE n - 1
    BY <1>1, <1>2, <1>7, StreamGoesOn
  <2> QED  BY <1>5, <2>1
<1>9. ClientIF[fd] = "web" => InputBuffer'[fd] = << >>
  BY <1>1, <1>2, TakenRest
<1>10. rx'.cmd = Taken /\ rx'.fd = fd /\ rx'.fin \in BOOLEAN /\ Taken \in Seq(Items)
  <2>1. TypeOK
    BY DEF Streams
  <2>2. rx'.cmd = Taken /\ rx'.fd = fd /\ rx'.fin = rx.fin /\ rx.fin \in BOOLEAN
    BY <1>1, <1>2, <2>1 DEF TypeOK
  <2>3. ClientIF[fd] # "none"
    BY <1>4
  <2> QED  BY <1>4, <2>1, <2>2, <2>3, UnitsAreItems
<1>11. ClientIF[fd] = "web" => \A i \in 1 .. Len(Taken) : Taken[i].n <= n
  BY <1>4, <1>5, WholeNumbers
<1>12. PICK c, l : c = Taken /\ l = n
  OBVIOUS
<1>13. /\ c \in Seq(UnitsOf(fd)) /\ c # << >> /\ Last(c).n = l /\ l \in 1 .. upTo'[fd]
       /\ \A i \in 1 .. Len(c) : c[i].n <= l
       /\ ClientIF[fd] = "web" \/ InStep(fd, l) => c = Whole(peer[fd], l, sent[fd][l]) /\ k = sent[fd][l]
  <2>1. l \in 1 .. upTo'[fd]
    <3> HIDE DEF n
    <3> QED  BY <1>4, <1>8, <1>12
  <2> QED  BY <1>4, <1>5, <1>11, <1>12, <2>1
<1>14. Ran(fd, c)'
  <2>1. UnitsOf(fd)' = UnitsOf(fd)
    BY <1>2 DEF UnitsOf
  <2>2. l \in Int /\ (InStep(fd, l)' = InStep(fd, l))
    <3>1. l \in Nat
      <4> HIDE DEF n
      <4> QED  BY <1>4, <1>12
    <3> QED  BY <1>2, <3>1 DEF InStep
  <2>3. k = sent[fd][l] /\ sent[fd][l] \in Changes => Format'[fd] = sent[fd][l]
    BY <1>6
  <2>4. InStep(fd, Last(c).n)' = InStep(fd, l)'
    BY <1>13 DEF InStep
  <2> HIDE DEF m, n
  <2> QED  BY <1>2, <1>13, <2>1, <2>2, <2>3, <2>4 DEF Ran
<1>15. CallAgrees'
  <2>1. rx'.fd = fd /\ rx'.cmd = c /\ fd # None
    BY <1>10, <1>12, FdFacts
  <2>2. ClientIF'[fd] = "web" => InputBuffer'[fd] = << >>
    BY <1>2, <1>9
  <2>3. Ran(rx.fd, rx.cmd)'
    BY <1>14, <2>1 DEF Ran, InStep, UnitsOf
  <2> QED  BY <2>1, <2>2, <2>3 DEF CallAgrees
<1> HIDE DEF m, n
<1> QED  BY <1>1, <1>2, <1>6, <1>7, <1>10, <1>15, TakenStreams DEF m, n

(* A report of rain runs the command before it once more, in the format    *)
(* that this command left behind.                                          *)
LEMMA RunsAgain ==
  ASSUME Inductive, Streams, Take, NEW fd, fd = rx.fd, rx.cmd # << >>, NEW k \in ReadAs(rx.cmd)
  PROVE  /\ Ran(fd, rx.cmd) /\ Last(rx.cmd).n \in Nat /\ Last(rx.cmd).n < Last(Taken).n
         /\ ClientIF[fd] = "web" => k \notin Changes
         /\ InStep(fd, Last(Taken).n) => InStep(fd, Last(rx.cmd).n)
         /\ ClientIF[fd] = "web" \/ InStep(fd, Last(rx.cmd).n) =>
              /\ rx.cmd = Whole(peer[fd], Last(rx.cmd).n, sent[fd][Last(rx.cmd).n])
              /\ k = sent[fd][Last(rx.cmd).n] /\ (k \in Changes => Format[fd] = k)
<1> DEFINE c == rx.cmd
           m == Last(c)
           l == m.n
           n == Last(Taken).n
<1>1. fd \in Fds /\ ClientIF[fd] \in {"tcp", "web"} /\ upTo[fd] < n /\ TypeOK /\ CallAgrees /\ Stream(fd)
  BY TakenFacts DEF Streams
<1>2. upTo[fd] \in Nat /\ n \in Nat /\ upTo[fd] <= Len(sent[fd]) /\ Len(sent[fd]) \in Nat
  BY <1>1, SentFacts, ReadFacts
<1>3. Ran(fd, c)
  BY <1>1, FdFacts DEF CallAgrees
<1>4. l \in 1 .. upTo[fd] /\ l \in Nat /\ l < n /\ l \in 1 .. Len(sent[fd])
  <2>1. l \in 1 .. upTo[fd]
    BY <1>3 DEF Ran
  <2> HIDE DEF l, n
  <2> QED  BY <1>1, <1>2, <2>1
<1>5. InStep(fd, n) => InStep(fd, l)
  <2>1. l \in Int /\ n \in Int /\ l <= n
    <3> HIDE DEF l, n
    <3> QED  BY <1>2, <1>4
  <2> HIDE DEF l, n
  <2> QED  BY <1>1, <2>1, InStepLess
<1>6. ASSUME ClientIF[fd] = "web" \/ InStep(fd, l)
      PROVE  /\ c = Whole(peer[fd], l, sent[fd][l]) /\ k = sent[fd][l]
             /\ sent[fd][l] \in Changes => Format[fd] = sent[fd][l]
  <2>2. c = Whole(peer[fd], l, sent[fd][l]) /\ (sent[fd][l] \in Changes => Format[fd] = sent[fd][l])
    BY <1>3, <1>6 DEF Ran
  <2> DEFINE p == peer[fd]
             x == sent[fd][l]
  <2>3. c = Whole(p, l, x)
    BY <2>2
  <2>4. IsWhole(c) /\ Last(c) = Unit(p, l, x, TRUE)
    <3> HIDE DEF c, p, l, x
    <3>1. PICK cc : cc = c
      OBVIOUS
    <3>2. cc = Whole(p, l, x)
      BY <2>3, <3>1
    <3>3. IsWhole(cc) /\ Last(cc) = Unit(p, l, x, TRUE)
      BY <3>2, WholeEnds
    <3> QED  BY <3>1, <3>3
  <2>5. m.kind = x
    <3> HIDE DEF p, l, x
    <3>1. Unit(p, l, x, TRUE).kind = x
      BY DEF Unit
    <3> QED  BY <2>4, <3>1 DEF m
  <2>6. k = m.kind
    <3>1. Web \/ InStep(rx.fd, l)
      BY <1>6 DEF Web
    <3>2. ReadAs(c) = {m.kind}
      BY <2>4, <3>1 DEF ReadAs
    <3> QED  BY <3>2
  <2> QED  BY <2>2, <2>5, <2>6
<1>7. ASSUME ClientIF[fd] = "web"  PROVE k \notin Changes
  <2>1. sent[fd] \in Seq(WebKinds)
    BY <1>1, <1>7 DEF Stream, LinkStream
  <2>2. sent[fd][l] \in WebKinds
    <3> HIDE DEF l
    <3> QED  BY <1>4, <2>1, ElementOfSeq
  <2> QED  BY <1>6, <1>7, <2>2, KindFacts
<1> HIDE DEF l, n
<1> QED  BY <1>3, <1>4, <1>5, <1>6, <1>7 DEF l, n

LEMMA TakeRepeaterStreams == ASSUME Inductive, Streams, Inductive', TakeRepeater  PROVE Streams'
<1>1. PICK fd \in Fds : fd = rx.fd
  BY DEF TakeRepeater, Take, Inductive, Typed
<1> DEFINE m == Last(Taken)
           n == m.n
<1>2. /\ Take /\ Served /\ rx' = rx
      /\ UNCHANGED <<ClientIF, peer, sent, line, eof, half, lost>>
      /\ UNCHANGED <<ReceiveLastPacketFin, ReceiveLastOpcode, WebSocketIntialState, made>>
      /\ Format[fd] = "json"
  BY <1>1 DEF TakeRepeater, web, net
<1>3. PICK r \in ReadAs(Taken) : r \in Repeaters
  BY DEF TakeRepeater
<1>4. TypeOK /\ CallAgrees /\ upTo[fd] \in Nat /\ ClientIF[fd] \in {"tcp", "web"} /\ upTo[fd] < n /\ n \in Nat
  <2>1. TypeOK /\ CallAgrees /\ ClientIF[fd] \in {"tcp", "web"} /\ upTo[fd] < n /\ n \in Nat
    BY <1>1, <1>2, TakenFacts, ReadFacts DEF Streams
  <2> QED  BY <1>1, <2>1, SentFacts
<1>5. /\ m.end
      /\ ClientIF[fd] = "tcp" /\ InStep(fd, n) => sent[fd][n] \notin Changes
  <2>1. r # "garbled" /\ r \notin Changes
    BY <1>3, KindFacts
  <2>2. m.end
    BY <1>1, <1>2, <1>3, <2>1, ReadFacts
  <2>3. ClientIF[fd] = "tcp" /\ InStep(fd, n) => r = sent[fd][n]
    BY <1>1, <1>2, <1>3, ReadFacts
  <2> QED  BY <2>1, <2>2, <2>3
<1>6. /\ age' \in [Fds -> 0 .. ConnectionTimeout]
      /\ jobs' \subseteq [fd : Fds, s : 1 .. made, n : Nat, by : Nat]
      /\ Format' \in [Fds -> {"text", "json"}] /\ \A g \in Fds \ {fd} : Format'[g] = Format[g]
      /\ ClientIF[fd] = "web" \/ InStep(fd, n) => Format'[fd] = Format[fd]
      /\ rx.cmd # << >> /\ (ClientIF[fd] = "web" \/ InStep(fd, Last(rx.cmd).n)) =>
           (sent[fd][Last(rx.cmd).n] \in Changes => Format'[fd] = sent[fd][Last(rx.cmd).n])
  <2>1. CASE rx.cmd = << >>
    <3>1. UNCHANGED <<jobs, Format, age>>
      BY <2>1 DEF TakeRepeater
    <3> QED  BY <1>4, <2>1, <3>1 DEF TypeOK
  <2>2. CASE rx.cmd # << >>
    <3>1. PICK k \in ReadAs(rx.cmd) : Runs(rx.cmd, k)
      BY <2>2 DEF TakeRepeater
    <3>2. /\ Last(rx.cmd).n \in Nat
          /\ ClientIF[fd] = "web" => k \notin Changes
          /\ InStep(fd, n) => InStep(fd, Last(rx.cmd).n)
          /\ ClientIF[fd] = "web" \/ InStep(fd, Last(rx.cmd).n) =>
               k = sent[fd][Last(rx.cmd).n] /\ (k \in Changes => Format[fd] = k)
      BY <1>1, <1>2, <2>2, RunsAgain
    <3>3. /\ age' \in [Fds -> 0 .. ConnectionTimeout]
          /\ jobs' \subseteq [fd : Fds, s : 1 .. made, n : Nat, by : Nat]
          /\ Format' \in [Fds -> {"text", "json"}] /\ \A g \in Fds \ {fd} : Format'[g] = Format[g]
          /\ Format'[fd] = IF k \in Changes THEN k ELSE Format[fd]
      BY <1>1, <1>2, <3>1, <3>2, RunsTypes
    <3>4. ClientIF[fd] = "web" \/ InStep(fd, Last(rx.cmd).n) =>
            Format'[fd] = Format[fd] /\ (k \in Changes => Format'[fd] = k) /\ k = sent[fd][Last(rx.cmd).n]
      BY <3>2, <3>3
    <3> DEFINE l == Last(rx.cmd).n
    <3>5. (ClientIF[fd] = "web" \/ InStep(fd, n) => Format'[fd] = Format[fd])
      BY <3>2, <3>4
    <3>6. ClientIF[fd] = "web" \/ InStep(fd, l) => (sent[fd][l] \in Changes => Format'[fd] = sent[fd][l])
      BY <3>4
    <3> HIDE DEF n
    <3> QED  BY <3>3, <3>5, <3>6
  <2> QED  BY <2>1, <2>2
<1>7. /\ ClientIF[fd] = "web" => Format'[fd] = "json"
      /\ ClientIF[fd] = "tcp" /\ InStep(fd, n) =>
           Format'[fd] = IF sent[fd][n] \in Changes THEN sent[fd][n] ELSE Format[fd]
      /\ ClientIF[fd] = "tcp" /\ ~m.end => Format'[fd] = Format[fd]
  <2> HIDE DEF m, n
  <2> QED  BY <1>2, <1>5, <1>6
<1>8. upTo'[fd] = n
  <2>1. upTo'[fd] = IF m.end THEN n ELSE n - 1
    BY <1>1, <1>2, <1>7, StreamGoesOn
  <2> QED  BY <1>5, <2>1
<1>9. ClientIF[fd] = "web" => InputBuffer'[fd] = << >>
  BY <1>1, <1>2, TakenRest
<1>10. rx.cmd # << >> => Ran(fd, rx.cmd)
  BY <1>1, <1>4, FdFacts DEF CallAgrees
<1>11. rx.cmd # << >> => Ran(fd, rx.cmd)'
  <2> SUFFICES ASSUME rx.cmd # << >>  PROVE Ran(fd, rx.cmd)'
    OBVIOUS
  <2> DEFINE c == rx.cmd
             l == Last(c).n
  <2>1. /\ c \in Seq(UnitsOf(fd)) /\ c # << >> /\ l \in 1 .. upTo[fd]
        /\ \A i \in 1 .. Len(c) : c[i].n <= l
        /\ ClientIF[fd] = "web" \/ InStep(fd, l) =>
             c = Whole(peer[fd], l, sent[fd][l]) /\ (sent[fd][l] \in Changes => Format[fd] = sent[fd][l])
    BY <1>10 DEF Ran
  <2>2. UnitsOf(fd)' = UnitsOf(fd) /\ c' = c
    BY <1>2 DEF UnitsOf
  <2>3. PICK v \in Int : v = l
    <3> HIDE DEF l
    <3> QED  BY <2>1
  <2>4. InStep(fd, v)' = InStep(fd, v) /\ InStep(fd, v)' = InStep(fd, l)'
    <3>1. l' = v
      BY <2>2, <2>3
    <3> QED  BY <1>2, <3>1 DEF InStep
  <2>5. l \in 1 .. upTo'[fd]
    <3> HIDE DEF l, n
    <3> QED  BY <1>4, <1>8, <2>1
  <2>6. ClientIF[fd] = "web" \/ InStep(fd, v) => (sent[fd][l] \in Changes => Format'[fd] = sent[fd][l])
    <3>1. c # << >>
      OBVIOUS
    <3> QED  BY <1>6, <2>3, <3>1
  <2> QED  BY <1>2, <2>1, <2>2, <2>3, <2>4, <2>5, <2>6 DEF Ran
<1>12. CallAgrees'
  BY <1>1, <1>2, <1>9, <1>11, FdFacts DEF CallAgrees
<1>13. rx'.cmd \in Seq(Items) /\ rx'.fin \in BOOLEAN /\ rx'.fd = fd
  BY <1>1, <1>2, <1>4 DEF TypeOK
<1> HIDE DEF m, n
<1> QED  BY <1>1, <1>2, <1>6, <1>7, <1>12, <1>13, TakenStreams DEF m, n

LEMMA TakeMailStreams == ASSUME Inductive, Streams, Inductive', TakeMail  PROVE Streams'
<1>1. PICK fd \in Fds : fd = rx.fd
  BY DEF TakeMail, Take, Inductive, Typed
<1>2. /\ Take /\ Served /\ rx' = [rx EXCEPT !.cmd = << >>] /\ Accessed(Sent(Notified))
      /\ UNCHANGED <<ClientIF, peer, sent, line, eof, half, lost, Format, jobs>>
      /\ UNCHANGED <<ReceiveLastPacketFin, ReceiveLastOpcode, WebSocketIntialState, made>>
      /\ Format[fd] = "json" /\ "mail" \in ReadAs(Taken)
  BY <1>1 DEF TakeMail, Continue, web, net
<1>3. TypeOK /\ age' \in [Fds -> 0 .. ConnectionTimeout]
  BY <1>2, AgeOfAccess DEF Streams
<1>4. ClientIF[fd] = "tcp" /\ InStep(fd, Last(Taken).n) => sent[fd][Last(Taken).n] \notin Changes
  <2>1. ClientIF[fd] = "tcp" /\ InStep(fd, Last(Taken).n) => sent[fd][Last(Taken).n] = "mail"
    BY <1>1, <1>2, ReadFacts
  <2> QED  BY <2>1, KindFacts
<1>5. /\ jobs' \subseteq [fd : Fds, s : 1 .. made, n : Nat, by : Nat]
      /\ Format' \in [Fds -> {"text", "json"}] /\ \A g \in Fds : Format'[g] = Format[g]
  BY <1>2, <1>3 DEF TypeOK
<1>6. ClientIF[fd] = "web" => InputBuffer'[fd] = << >>
  BY <1>1, <1>2, TakenRest
<1>7. rx'.cmd = << >> /\ rx'.fin \in BOOLEAN /\ rx'.fd = fd
  BY <1>1, <1>2, <1>3 DEF TypeOK
<1>8. rx'.cmd \in Seq(Items)
  BY <1>7, EmptySeq
<1>9. CallAgrees'
  BY <1>2, <1>6, <1>7, FdFacts DEF CallAgrees
<1> QED  BY <1>1, <1>2, <1>3, <1>4, <1>5, <1>7, <1>8, <1>9, TakenStreams

UnitsOrdered ==
  \A fd \in Fds : TypeOK /\ ClientStream(fd) /\ half[fd] \in BOOLEAN =>
    \A i \in 1 .. Len(InputBuffer[fd]) : InputBuffer[fd][i].n \in Nat /\ upTo[fd] < InputBuffer[fd][i].n

LEMMA UnitsAheadNow == UnitsOrdered
BY UnitsAhead DEF UnitsOrdered

LEMMA UnitsAheadNext == UnitsOrdered'
BY UnitsAheadNow, PTL

(* Text that does not parse leaves the rest of the input behind.           *)
LEMMA TakeJunkStreams == ASSUME Inductive, Streams, Inductive', TakeJunk  PROVE Streams'
<1>1. PICK fd \in Fds : fd = rx.fd
  BY DEF TakeJunk, Take, Inductive, Typed
<1> DEFINE m == Last(Taken)
           n == m.n
           up == IF m.end THEN n ELSE n - 1
<1>2. /\ Take /\ Served /\ rx' = NoCall
      /\ UNCHANGED <<ClientIF, peer, sent, line, eof, half, lost, Format, jobs, age>>
      /\ UNCHANGED <<ReceiveLastPacketFin, ReceiveLastOpcode, WebSocketIntialState, made>>
      /\ Format[fd] = "json" /\ ReadAs(Taken) \cap {"junk", "garbled"} # {}
  BY <1>1 DEF TakeJunk, web, net
<1>3. TypeOK /\ half[fd] \in BOOLEAN
  BY DEF Streams, Shapes
<1>4. ClientIF[fd] = "tcp" /\ InStep(fd, n) => sent[fd][n] = "junk" /\ sent[fd][n] \notin Changes
  <2>1. sent[fd][n] \in Kinds \cup WebKinds /\ (ClientIF[fd] = "tcp" /\ InStep(fd, n) => ReadAs(Taken) = {sent[fd][n]})
    BY <1>1, <1>2, ReadFacts
  <2> QED  BY <1>2, <2>1, KindFacts
<1>5. /\ jobs' \subseteq [fd : Fds, s : 1 .. made, n : Nat, by : Nat] /\ age' \in [Fds -> 0 .. ConnectionTimeout]
      /\ Format' \in [Fds -> {"text", "json"}] /\ \A g \in Fds : Format'[g] = Format[g]
  BY <1>2, <1>3 DEF TypeOK
<1>6. ClientIF[fd] = "web" => Format'[fd] = "json"
  BY <1>2
<1>7. rx'.cmd = << >> /\ rx'.fin \in BOOLEAN /\ rx'.fd = None /\ CallAgrees'
  BY <1>2, FdFacts DEF NoCall, CallAgrees
<1>8. rx'.cmd \in Seq(Items)
  BY <1>7, EmptySeq
<1>9. Stream(fd)' /\ upTo'[fd] = up
  <2>1. ClientIF[fd] = "tcp" /\ InStep(fd, n) =>
          Format'[fd] = IF sent[fd][n] \in Changes THEN sent[fd][n] ELSE Format[fd]
    BY <1>4, <1>5
  <2>2. Format'[fd] = Format[fd]
    BY <1>5
  <2> QED  BY <1>1, <1>2, <1>6, <2>1, <2>2, StreamGoesOn
<1>10. LeftBehind(fd)'
  <2> SUFFICES ASSUME ClientIF[fd] = "tcp" PROVE LeftBehind(fd)'
    BY <1>2 DEF LeftBehind
  <2>1. TypeOK' /\ ClientStream(fd)' /\ half'[fd] \in BOOLEAN
    <3>1. TypeOK'
      <4>1. \A g \in Fds : {upTo'[g], lost'[g]} \subseteq 0 .. Len(sent'[g])
        <5>1. ClientIF[fd] = "tcp" /\ InStep(fd, n) =>
                Format'[fd] = IF sent[fd][n] \in Changes THEN sent[fd][n] ELSE Format[fd]
          BY <1>4, <1>5
        <5> QED  BY <1>1, <1>2, <1>5, <1>6, <5>1, StreamGoesOn
      <4>2. InputBuffer' \in [Fds -> Seq(Items)] /\ \A g \in Fds : Len(InputBuffer'[g]) < BufferSize
        BY <1>1, <1>2, TakenRest
      <4>3. Rest'
        BY <1>2, <1>3, <1>5, <1>7, <1>8, <4>1, <4>2 DEF Rest, TypeOK, Items
      <4> QED  BY <4>3, RestIsTypesNext
    <3> QED  BY <1>2, <1>3, <1>9, <3>1 DEF Stream
  <2>2. \A i \in 1 .. Len(InputBuffer'[fd]) : InputBuffer'[fd][i].n \in Nat /\ up < InputBuffer'[fd][i].n
    BY <1>1, <1>9, <2>1, UnitsAheadNext DEF UnitsOrdered
  <2>3. ASSUME NEW x \in Nat, up < x, InStep(fd, x)  PROVE up # 0 /\ sent[fd][up] = "junk"
    <3>1. upTo[fd] < n /\ upTo[fd] \in Nat /\ n \in Nat /\ m.end \in BOOLEAN
      BY <1>1, <1>2, <1>3, TakenFacts, SentFacts, ReadFacts
    <3>2. upTo[fd] + 1 <= x /\ x \in Int
      <4> HIDE DEF m, n
      <4> QED  BY <2>3, <3>1
    <3>3. m.end = TRUE /\ n = upTo[fd] + 1
      BY <1>1, <1>2, <2>3, <3>2, TakesFirst
    <3>4. up = n /\ n # 0
      <4>1. up = n
        BY <3>3
      <4>2. n # 0
        <5> HIDE DEF n
        <5> QED  BY <3>1, <3>3
      <4> QED  BY <4>1, <4>2
    <3>5. InStep(fd, n)
      <4>1. n \in Int /\ n <= x
        <5> HIDE DEF n
        <5> QED  BY <3>1, <3>2, <3>3
      <4> HIDE DEF n
      <4> QED  BY <1>3, <2>3, <3>2, <4>1, InStepLess
    <3> QED  BY <1>4, <3>4, <3>5
  <2>4. ASSUME NEW i \in 1 .. Len(InputBuffer'[fd])
        PROVE  InStep(fd, InputBuffer[fd][i].n)' => up # 0 /\ sent[fd][up] = "junk"
    <3> DEFINE x == InputBuffer'[fd][i].n
    <3>1. x \in Nat /\ up < x
      BY <2>2
    <3>2. InStep(fd, x) => up # 0 /\ sent[fd][up] = "junk"
      <4> HIDE DEF x, up
      <4> QED  BY <2>3, <3>1
    <3>3. InStep(fd, InputBuffer[fd][i].n)' = InStep(fd, x)
      BY <1>2 DEF InStep
    <3> QED  BY <3>2, <3>3
  <2> HIDE DEF up
  <2> QED  BY <1>2, <1>9, <2>4 DEF LeftBehind
<1> HIDE DEF up
<1> QED  BY <1>1, <1>2, <1>4, <1>5, <1>6, <1>7, <1>8, <1>10, TakenStreams

(* The read ends.  Of what a client in step has said there is no message   *)
(* left then, and what is thrown away is not in step.                      *)
LEMMA NothingNext ==
  ASSUME Inductive, Streams, Return, NEW fd \in Fds, fd = rx.fd, ClientIF[fd] = "tcp", InStep(fd, upTo[fd] + 1)
  PROVE  ~Excess /\ \A i \in 1 .. Len(InputBuffer[fd]) : ~InputBuffer[fd][i].end
<1> DEFINE b == InputBuffer[fd]
           lb == Len(b)
<1>1. Ends = {}
  BY DEF Return, Complete, Web
<1>2. TypeOK /\ ClientStream(fd) /\ half[fd] \in BOOLEAN
  BY DEF Streams, Stream, Shapes
<1>3. lb \in Nat
  BY <1>2, UnitsAhead
<1>4. (lb >= 2 => 2 \in Ends) /\ (lb <= 1 => ~Excess)
  BY FirstMessage
<1>5. lb <= 1
  <2> HIDE DEF lb
  <2> QED  BY <1>1, <1>3, <1>4
<1>6. ASSUME NEW i \in 1 .. lb  PROVE ~b[i].end
  <2>1. i = 1 /\ i \in {1, 2} /\ i <= lb
    <3> HIDE DEF lb
    <3> QED  BY <1>3, <1>5
  <2>2. b[i] = Unit(peer[fd], upTo[fd] + 1, sent[fd][upTo[fd] + 1], i = 2)
    BY <1>2, <2>1, FirstUnit
  <2> DEFINE p == peer[fd]
             n == upTo[fd] + 1
             k == sent[fd][n]
             e == i = 2
  <2>3. b[i] = Unit(p, n, k, e) /\ e = FALSE
    BY <2>1, <2>2
  <2> HIDE DEF p, n, k, e, b
  <2> QED  BY <2>3 DEF Unit
<1> QED  BY <1>4, <1>5, <1>6

LEMMA ThrownAway ==
  ASSUME Inductive, Streams, NEW fd \in Fds, ClientIF[fd] = "tcp", ~InStep(fd, upTo[fd] + 1)
  PROVE  /\ Ascend(line[fd], 2 * upTo[fd], LastRank(fd))
         /\ There(line[fd], 2 * upTo[fd], LastRank(fd), Known(fd))
<1> DEFINE b == InputBuffer[fd]
           l == line[fd]
           w == b \o l
           U == UnitsOf(fd)
           old == upTo[fd]
           base == 2 * old
           last == LastRank(fd)
           k == Len(b)
<1>1. TypeOK /\ ClientStream(fd) /\ half[fd] \in BOOLEAN
  BY DEF Streams, Stream, Shapes
<1>2. b \in Seq(U) /\ l \in Seq(U) /\ Ascend(w, base, last)
  BY <1>1 DEF ClientStream, Way
<1>3. sent[fd] \in Seq(Kinds \cup WebKinds) /\ old \in Nat /\ base \in Int
  <2>1. sent[fd] \in Seq(Kinds \cup WebKinds) /\ old \in Nat
    BY <1>1, SentFacts
  <2> HIDE DEF old
  <2> QED  BY <2>1
<1>4. last \in Int
  BY <1>1, <1>3, RankFacts
<1>5. /\ Len(w) \in Nat /\ Len(l) \in Nat /\ k \in Nat /\ Len(l) + k = Len(w)
      /\ \A i \in 1 .. Len(l) : l[i] = w[i + k]
  <2> HIDE DEF b, l, U
  <2>1. Len(b) \in Nat /\ Len(l) \in Nat /\ Len(w) = Len(b) + Len(l)
    BY <1>2, Concat
  <2>2. \A i \in 1 .. Len(l) : w[Len(b) + i] = l[i]
    BY <1>2, Concat
  <2> DEFINE x == Len(l)
             y == Len(w)
  <2>3. x \in Nat /\ k \in Nat /\ y = k + x
    BY <2>1
  <2> HIDE DEF x, y, k
  <2>4. y \in Nat /\ x + k = y /\ \A i \in 1 .. x : i + k = k + i
    BY <2>3
  <2> QED  BY <2>2, <2>3, <2>4 DEF x, y, k
<1>6. Ascend(l, base, last)
  <2>1. CASE k = 0
    <3>1. l = w
      <4> HIDE DEF b, l, U
      <4> QED  BY <1>2, <2>1, EmptySeq, ConcatEmptySeq
    <3> QED  BY <1>2, <3>1
  <2>2. CASE k # 0
    <3> DEFINE lw == Len(w)
               lv == Len(l)
    <3>1. k \in Nat \ {0} /\ k \in 1 .. lw /\ lw \in Nat /\ lv \in Nat
      <4>1. lw \in Nat /\ lv \in Nat /\ k \in Nat /\ lv + k = lw
        BY <1>5
      <4> HIDE DEF lw, lv, k
      <4> QED  BY <2>2, <4>1
    <3>2. base <= Rank(w[k])
      <4>1. Rank(w[k]) \in base + k .. last
        <5> HIDE DEF w, k, base, last
        <5> QED  BY <1>2, <3>1 DEF Ascend
      <4> HIDE DEF w, k, base, last
      <4> QED  BY <1>3, <1>4, <3>1, <4>1
    <3> HIDE DEF l, w, k, base, last
    <3> QED  BY <1>2, <1>3, <1>4, <1>5, <3>1, <3>2, Cut
  <2> QED  BY <2>1, <2>2
<1>7. There(l, base, last, Known(fd))
  <2> SUFFICES ASSUME NEW r \in Known(fd), base < r  PROVE FALSE
    BY DEF There
  <2>1. PICK n \in 1 .. Len(sent[fd]) : InStep(fd, n) /\ r \in {2 * n - 1, 2 * n}
    BY DEF Known
  <2>2. n \in Int /\ old + 1 \in Int /\ old + 1 <= n
    <3>1. n \in Int
      BY <1>3, RankFacts, LenProperties
    <3> HIDE DEF old
    <3> QED  BY <1>3, <2>1, <3>1 DEF base
  <2> HIDE DEF old
  <2> QED  BY <1>1, <2>1, <2>2, InStepLess DEF old
<1> QED  BY <1>6, <1>7

LEMMA ReturnStreams == ASSUME Inductive, Streams, Inductive', Return  PROVE Streams'
<1>1. PICK fd \in Fds : fd = rx.fd
  BY DEF Return, Inductive, Typed
<1>2. /\ ~Complete /\ rx' = NoCall
      /\ UNCHANGED <<ClientIF, Format, age, ReceiveLastPacketFin, ReceiveLastOpcode,
                     WebSocketIntialState, jobs, peer, made, sent, line, eof, half, upTo, lost>>
      /\ IF Excess THEN InputBuffer' = [InputBuffer EXCEPT ![fd] = << >>] ELSE UNCHANGED InputBuffer
  BY <1>1 DEF Return, CleanInput, web, net, past
<1>3. TypeOK /\ Shapes /\ Stream(fd) /\ half[fd] \in BOOLEAN /\ upTo[fd] \in Nat
  <2>1. TypeOK /\ Shapes /\ Stream(fd)
    BY DEF Streams, Shapes
  <2> QED  BY <2>1, SentFacts DEF Shapes
<1>4. rx'.cmd = << >> /\ rx'.fin \in BOOLEAN /\ CallAgrees' /\ Shapes'
  BY <1>2, <1>3, FdFacts DEF NoCall, CallAgrees, Shapes
<1>5. /\ InputBuffer' \in [Fds -> Seq(Items)] /\ \A g \in Fds : Len(InputBuffer'[g]) < BufferSize
      /\ \A g \in Fds \ {fd} : InputBuffer'[g] = InputBuffer[g]
      /\ InputBuffer'[fd] = IF Excess THEN << >> ELSE InputBuffer[fd]
  <2>1. InputBuffer \in [Fds -> Seq(Items)] /\ \A g \in Fds : Len(InputBuffer[g]) < BufferSize
    BY <1>3 DEF TypeOK
  <2>2. << >> \in Seq(Items) /\ Len(<< >>) = 0
    BY EmptySeq
  <2>3. 0 < BufferSize
    BY ClientsAssumption
  <2> QED  BY <1>2, <2>1, <2>2, <2>3
<1>6. Rest'
  <2>1. rx'.cmd \in Seq(Items')
    BY <1>4, EmptySeq
  <2>2. /\ Format' \in [Fds -> {"text", "json"}] /\ age' \in [Fds -> 0 .. ConnectionTimeout]
        /\ \A g \in Fds : {upTo'[g], lost'[g]} \subseteq 0 .. Len(sent'[g])
    BY <1>2, <1>3 DEF TypeOK
  <2> QED  BY <1>2, <1>3, <1>4, <1>5, <2>1, <2>2 DEF Rest, TypeOK, Items
<1>7. \A g \in Fds \ {fd} : Same(g)
  BY <1>2, <1>5 DEF Same
<1>8. CASE ~Excess
  <2>1. Same(fd)
    BY <1>2, <1>8 DEF Same
  <2>2. Stream(fd)'
    BY <1>3, <2>1, SameStream
  <2>3. LeftBehind(fd)
    <3> SUFFICES ASSUME ClientIF[fd] = "tcp", NEW i \in 1 .. Len(InputBuffer[fd]), InputBuffer[fd][i].end
                 PROVE  Format[fd] = "json" /\ ~InStep(fd, InputBuffer[fd][i].n)
      BY DEF LeftBehind
    <3>1. Ends = {}
      BY <1>1, <1>2 DEF Complete, Web
    <3>2. Format[fd] = "json"
      <4>1. Format[fd] # "text"
        BY <1>1, <3>1 DEF Ends, TextEnds, Input
      <4> QED  BY <1>3, <4>1 DEF TypeOK
    <3>3. ASSUME InStep(fd, InputBuffer[fd][i].n)  PROVE FALSE
      <4> DEFINE n == InputBuffer[fd][i].n
                 old == upTo[fd]
      <4>1. n \in Nat /\ old < n
        BY <1>3, UnitsAhead DEF Stream
      <4>2. old + 1 \in Int /\ n \in Int /\ old + 1 <= n
        <5> HIDE DEF n, old
        <5> QED  BY <1>3, <4>1 DEF old
      <4>3. InStep(fd, old + 1)
        <5> HIDE DEF n, old
        <5> QED  BY <1>3, <3>3, <4>2, InStepLess DEF n
      <4> QED  BY <1>1, <4>3, NothingNext
    <3> QED  BY <3>2, <3>3
  <2>4. LeftBehind(fd)'
    BY <1>3, <2>1, <2>3, SameStream
  <2> QED  BY <1>1, <1>4, <1>6, <1>7, <2>2, <2>4, RestIsTypesNext, OneStream
<1>9. CASE Excess
  <2>1. ClientIF[fd] = "tcp" /\ InputBuffer'[fd] = << >>
    <3>1. ClientIF[fd] \in {"tcp", "web"}
      BY <1>1, FdFacts DEF Inductive, Typed, Called, Return
    <3> QED  BY <1>1, <1>5, <1>9, <3>1 DEF Excess, Web
  <2>2. ~InStep(fd, upTo[fd] + 1)
    BY <1>1, <1>9, <2>1, NothingNext
  <2>3. /\ Ascend(line[fd], 2 * upTo[fd], LastRank(fd))
        /\ There(line[fd], 2 * upTo[fd], LastRank(fd), Known(fd))
    BY <2>1, <2>2, ThrownAway
  <2>4. ClientStream(fd) /\ line[fd] \in Seq(UnitsOf(fd))
    BY <1>3, <2>1 DEF Stream, ClientStream
  <2>5. Way(fd)' = line[fd]
    <3>1. << >> \o line[fd] = line[fd]
      BY <2>4, ConcatEmptySeq
    <3> QED  BY <1>2, <2>1, <3>1 DEF Way
  <2>6. UnitsOf(fd)' = UnitsOf(fd) /\ LastRank(fd)' = LastRank(fd) /\ Known(fd)' = Known(fd)
    BY <1>2 DEF UnitsOf, LastRank, Known, InStep
  <2>7. InStep(fd, upTo[fd])' => Format'[fd] = Mode(fd, upTo[fd])'
    <3>1. PICK v \in Int : v = upTo[fd] /\ v = upTo'[fd]
      BY <1>2, <1>3
    <3>2. Mode(fd, v)' = Mode(fd, v) /\ InStep(fd, v)' = InStep(fd, v)
      BY <1>2 DEF Mode, InStep
    <3>3. Mode(fd, v)' = Mode(fd, upTo[fd])' /\ InStep(fd, v)' = InStep(fd, upTo[fd])'
      BY <3>1 DEF Mode, InStep
    <3>4. InStep(fd, v) => Format[fd] = Mode(fd, v)
      BY <2>4, <3>1 DEF ClientStream
    <3> QED  BY <1>2, <3>2, <3>3, <3>4
  <2>8. ClientStream(fd)'
    <3>1. << >> \in Seq(UnitsOf(fd))
      BY EmptySeq
    <3> QED  BY <1>2, <2>1, <2>3, <2>4, <2>5, <2>6, <2>7, <3>1 DEF ClientStream
  <2>9. Stream(fd)' /\ LeftBehind(fd)'
    <3>1. half[fd] => sent[fd] # << >>
      BY <1>3 DEF Stream
    <3> QED  BY <1>2, <2>1, <2>8, <3>1 DEF Stream, LeftBehind
  <2> QED  BY <1>1, <1>4, <1>6, <1>7, <2>9, RestIsTypesNext, OneStream
<1> QED  BY <1>8, <1>9

(* The peer of a closed descriptor takes its stream with it.               *)
LEMMA GoneIsNothing ==
  ASSUME Streams, NEW fds \in SUBSET Fds, NEW new, PeersGo(fds, new),
         NEW fd \in Fds, fd \in fds \/ ClientIF[fd] = "none"
  PROVE  Nothing(fd)' /\ half'[fd] = FALSE
<1>1. /\ sent'[fd] = IF fd \in fds THEN << >> ELSE sent[fd]
      /\ line'[fd] = IF fd \in fds THEN << >> ELSE line[fd]
      /\ eof'[fd] = (fd \notin fds /\ eof[fd]) /\ half'[fd] = (fd \notin fds /\ half[fd])
      /\ upTo'[fd] = IF fd \in fds THEN 0 ELSE upTo[fd]
      /\ lost'[fd] = IF fd \in fds THEN 0 ELSE lost[fd]
  BY DEF PeersGo
<1>2. CASE fd \in fds
  BY <1>1, <1>2 DEF Nothing
<1>3. CASE fd \notin fds
  <2>1. Nothing(fd) /\ half[fd] \in BOOLEAN
    BY <1>3 DEF Streams, Stream, Shapes
  <2> QED  BY <1>1, <1>3, <2>1 DEF Nothing
<1> QED  BY <1>2, <1>3

(* What stays as it is when the peers of other descriptors go.             *)
LEMMA PeersGoTypes ==
  ASSUME Streams, NEW fds \in SUBSET Fds, NEW new, PeersGo(fds, new)
  PROVE  /\ Shapes' /\ sent' \in [Fds -> Seq(Kinds \cup WebKinds)]
         /\ \A fd \in Fds : {upTo'[fd], lost'[fd]} \subseteq 0 .. Len(sent'[fd])
         /\ \A fd \in Fds \ fds : /\ line'[fd] = line[fd] /\ sent'[fd] = sent[fd]
                                  /\ upTo'[fd] = upTo[fd] /\ lost'[fd] = lost[fd]
                                  /\ eof'[fd] = eof[fd] /\ half'[fd] = half[fd]
                                  /\ fd # new => peer'[fd] = peer[fd]
<1>1. TypeOK /\ Shapes
  BY DEF Streams, Shapes
<1>2. /\ sent' = [fd \in Fds |-> IF fd \in fds THEN << >> ELSE sent[fd]]
      /\ line' = [fd \in Fds |-> IF fd \in fds THEN << >> ELSE line[fd]]
      /\ eof'  = [fd \in Fds |-> fd \notin fds /\ eof[fd]]
      /\ half' = [fd \in Fds |-> fd \notin fds /\ half[fd]]
      /\ upTo' = [fd \in Fds |-> IF fd \in fds THEN 0 ELSE upTo[fd]]
      /\ lost' = [fd \in Fds |-> IF fd \in fds THEN 0 ELSE lost[fd]]
      /\ peer' = [fd \in Fds |-> IF fd = new THEN made + 1 ELSE IF fd \in fds THEN 0 ELSE peer[fd]]
  BY DEF PeersGo
<1>3. sent' \in [Fds -> Seq(Kinds \cup WebKinds)]
  BY <1>1, <1>2, EmptySeq DEF TypeOK
<1>4. \A fd \in Fds : {upTo'[fd], lost'[fd]} \subseteq 0 .. Len(sent'[fd])
  <2>1. \A fd \in Fds : {upTo[fd], lost[fd]} \subseteq 0 .. Len(sent[fd])
    BY <1>1 DEF TypeOK
  <2>2. Len(<< >>) = 0 /\ 0 \in 0 .. 0
    OBVIOUS
  <2> QED  BY <1>2, <2>1, <2>2
<1>5. \A fd \in Fds : eof[fd] \in BOOLEAN /\ half[fd] \in BOOLEAN
  BY <1>1 DEF Shapes
<1>6. Shapes'
  BY <1>2 DEF Shapes
<1>7. ASSUME NEW fd \in Fds \ fds
      PROVE  /\ line'[fd] = line[fd] /\ sent'[fd] = sent[fd]
             /\ upTo'[fd] = upTo[fd] /\ lost'[fd] = lost[fd]
             /\ eof'[fd] = eof[fd] /\ half'[fd] = half[fd]
             /\ fd # new => peer'[fd] = peer[fd]
  <2>1. eof'[fd] = eof[fd] /\ half'[fd] = half[fd]
    BY <1>2, <1>5
  <2> QED  BY <1>2, <2>1
<1> QED  BY <1>3, <1>4, <1>6, <1>7

LEMMA QuitStreams == ASSUME Inductive, Streams, Inductive', TakeQuit  PROVE Streams'
<1>1. PICK fd \in Fds : fd = rx.fd
  BY DEF TakeQuit, Take, Inductive, Typed
<1>2. /\ Take /\ rx' = NoCall /\ Accessed({rx.fd} \cup Sent(Hearers(rx.fd)))
      /\ ClientIF' = [ClientIF EXCEPT ![fd] = "none"] /\ PeersGo({fd}, None)
      /\ ReceiveLastPacketFin' \in {TRUE, ReceiveLastPacketFin}
      /\ UNCHANGED <<Format, ReceiveLastOpcode, WebSocketIntialState, jobs>>
  BY <1>1 DEF TakeQuit, Disconnect, Close
<1>3. TypeOK /\ {fd} \in SUBSET Fds /\ made' = made
  BY <1>2 DEF Streams, PeersGo
<1>4. /\ Shapes' /\ sent' \in [Fds -> Seq(Kinds \cup WebKinds)]
      /\ \A g \in Fds : {upTo'[g], lost'[g]} \subseteq 0 .. Len(sent'[g])
      /\ \A g \in Fds \ {fd} : /\ line'[g] = line[g] /\ sent'[g] = sent[g] /\ upTo'[g] = upTo[g] /\ lost'[g] = lost[g]
                               /\ eof'[g] = eof[g] /\ half'[g] = half[g] /\ peer'[g] = peer[g]
  <2> DEFINE fds == {fd}
             new == None
  <2>1. PeersGo(fds, new) /\ fds \in SUBSET Fds /\ \A g \in Fds : g # new
    BY <1>2, <1>3, FdFacts
  <2> HIDE DEF fds, new
  <2>2. /\ Shapes' /\ sent' \in [Fds -> Seq(Kinds \cup WebKinds)]
        /\ \A g \in Fds : {upTo'[g], lost'[g]} \subseteq 0 .. Len(sent'[g])
        /\ \A g \in Fds \ fds : /\ line'[g] = line[g] /\ sent'[g] = sent[g] /\ upTo'[g] = upTo[g] /\ lost'[g] = lost[g]
                                /\ eof'[g] = eof[g] /\ half'[g] = half[g]
                                /\ g # new => peer'[g] = peer[g]
    BY <2>1, PeersGoTypes
  <2> QED  BY <2>1, <2>2 DEF fds
<1>5. /\ InputBuffer' \in [Fds -> Seq(Items)] /\ \A g \in Fds : Len(InputBuffer'[g]) < BufferSize
      /\ \A g \in Fds \ {fd} : InputBuffer'[g] = InputBuffer[g]
  BY <1>1, <1>2, TakenRest
<1>6. rx'.cmd = << >> /\ rx'.fin \in BOOLEAN /\ rx'.fd = None /\ CallAgrees'
  BY <1>2, FdFacts DEF NoCall, CallAgrees
<1>7. Rest'
  <2>1. rx'.cmd \in Seq(Items')
    BY <1>6, EmptySeq
  <2>2. age' \in [Fds -> 0 .. ConnectionTimeout]
    BY <1>2, <1>3, AgeOfAccess
  <2> QED  BY <1>2, <1>3, <1>4, <1>5, <1>6, <2>1, <2>2 DEF Rest, TypeOK, Items
<1>8. Stream(fd)' /\ LeftBehind(fd)'
  <2>1. Nothing(fd)' /\ half'[fd] = FALSE
    BY <1>2, <1>3, GoneIsNothing
  <2>2. ClientIF'[fd] = "none"
    BY <1>2, <1>3 DEF TypeOK
  <2> QED  BY <2>1, <2>2 DEF Stream, LeftBehind
<1>9. \A g \in Fds \ {fd} : Same(g)
  BY <1>2, <1>3, <1>4, <1>5 DEF Same, TypeOK
<1> QED  BY <1>1, <1>4, <1>6, <1>7, <1>8, <1>9, RestIsTypesNext, OneStream

LEMMA NobodyStreams ==
  ASSUME Inductive, Streams, Inductive', NEW j \in jobs, AnswerNobody(j)
  PROVE  Streams'
<1>1. /\ NewDaemon /\ PeersGo(Fds, None) /\ Fds \in SUBSET Fds
  BY DEF AnswerNobody
<1>2. /\ ClientIF' = [fd \in Fds |-> "none"] /\ Format' = [fd \in Fds |-> "text"]
      /\ InputBuffer' = [fd \in Fds |-> << >>] /\ age' = [fd \in Fds |-> 0]
      /\ ReceiveLastPacketFin' = TRUE /\ ReceiveLastOpcode' = 0 /\ WebSocketIntialState' = 0
      /\ rx' = NoCall /\ jobs' = {}
  BY <1>1 DEF NewDaemon
<1>3. /\ Shapes' /\ sent' \in [Fds -> Seq(Kinds \cup WebKinds)]
      /\ \A g \in Fds : {upTo'[g], lost'[g]} \subseteq 0 .. Len(sent'[g])
  BY <1>1, PeersGoTypes
<1>4. rx'.cmd = << >> /\ rx'.fin \in BOOLEAN /\ rx'.fd = None /\ CallAgrees'
  BY <1>2, FdFacts DEF NoCall, CallAgrees
<1>5. Rest'
  <2>1. rx'.cmd \in Seq(Items') /\ InputBuffer' \in [Fds -> Seq(Items')]
    BY <1>2, <1>4, EmptySeq
  <2>2. age' \in [Fds -> 0 .. ConnectionTimeout]
    BY <1>2, ClientsAssumption
  <2>3. \A fd \in Fds : Len(InputBuffer'[fd]) < BufferSize
    <3>1. Len(<< >>) = 0 /\ 0 < BufferSize
      BY ClientsAssumption
    <3> QED  BY <1>2, <3>1
  <2> QED  BY <1>2, <1>3, <1>4, <2>1, <2>2, <2>3 DEF Rest
<1>6. ASSUME NEW fd \in Fds  PROVE Stream(fd)' /\ LeftBehind(fd)'
  <2>1. Nothing(fd)' /\ half'[fd] = FALSE
    BY <1>1, GoneIsNothing
  <2> QED  BY <1>2, <2>1 DEF Stream, LeftBehind
<1> QED  BY <1>3, <1>4, <1>5, <1>6, RestIsTypesNext DEF Streams, Shapes

(* The silent clients are dropped, and a new link starts with nothing.     *)
LEMMA TimeoutStreams ==
  ASSUME Inductive, Streams, Inductive', NEW pingFails \in BOOLEAN, NEW outcome \in Outcomes,
         ClientTimeoutCheck(pingFails, outcome)
  PROVE  Streams'
<1> DEFINE gone  == {fd \in Fds : Old(fd)}
           free  == Free \cup gone
           new   == Connect(free, outcome)
           up    == outcome = "up"
           link  == IF up THEN new ELSE None
<1>1. /\ ClientIF' = [fd \in Fds |-> IF up /\ fd = new THEN "web"
                                     ELSE IF fd \in gone THEN "none" ELSE ClientIF[fd]]
      /\ Format' = IF up THEN [Format EXCEPT ![new] = "json"] ELSE Format
      /\ InputBuffer' = IF up THEN [InputBuffer EXCEPT ![new] = << >>] ELSE InputBuffer
      /\ PeersGo(gone, link)
      /\ outcome # "fail" => free # {}
      /\ rx = NoCall /\ rx' = NoCall /\ UNCHANGED <<jobs, ReceiveLastOpcode>>
      /\ WebSocketIntialState' \in {0, WebSocketIntialState}
      /\ ReceiveLastPacketFin' = ((webFd = None \/ webFd \in gone) \/ ReceiveLastPacketFin)
  BY DEF ClientTimeoutCheck, Quiet, WebSocketConnect
<1>2. /\ \A fd \in Fds : age'[fd] \in {0, age[fd]}
      /\ age' = [fd \in Fds |-> age'[fd]]
  BY DEF ClientTimeoutCheck
<1>3. gone \in SUBSET Fds /\ free \in SUBSET Fds
  BY DEF Free
<1>4. \A fd \in free : fd \in Fds /\ (fd \in gone \/ ClientIF[fd] = "none")
  BY DEF Free
<1>5. up => new \in free
  BY <1>1, <1>3, SocketIsFree DEF Connect
<1>6. TypeOK /\ Shapes
  BY DEF Streams, Shapes
<1> HIDE DEF gone, free, new, up
<1>7. /\ Shapes' /\ sent' \in [Fds -> Seq(Kinds \cup WebKinds)]
      /\ \A g \in Fds : {upTo'[g], lost'[g]} \subseteq 0 .. Len(sent'[g])
      /\ \A fd \in Fds \ gone : /\ line'[fd] = line[fd] /\ sent'[fd] = sent[fd]
                                /\ upTo'[fd] = upTo[fd] /\ lost'[fd] = lost[fd]
                                /\ eof'[fd] = eof[fd] /\ half'[fd] = half[fd]
                                /\ fd # link => peer'[fd] = peer[fd]
  BY <1>1, <1>3, PeersGoTypes
<1>8. made \in Nat /\ made' \in Nat /\ made <= made'
  <2>1. made' \in {made, made + 1} /\ made \in Nat
    BY <1>1 DEF PeersGo, Inductive, Typed
  <2> QED  BY <2>1
<1>9. rx'.cmd = << >> /\ rx'.fin \in BOOLEAN /\ rx'.fd = None /\ CallAgrees'
  BY <1>1, FdFacts DEF NoCall, CallAgrees
<1>10. Rest'
  <2>1. \A seq \in Seq(Items) : seq \in Seq(Items')
    BY <1>8, ItemsGrow
  <2>2. InputBuffer' \in [Fds -> Seq(Items')]
    BY <1>1, <1>6, <2>1, EmptySeq DEF TypeOK
  <2>3. rx'.cmd \in Seq(Items')
    BY <1>9, EmptySeq
  <2>4. jobs' \subseteq [fd : Fds, s : 1 .. made', n : Nat, by : Nat]
    <3>1. jobs \subseteq [fd : Fds, s : 1 .. made, n : Nat, by : Nat] /\ 1 .. made \subseteq 1 .. made'
      BY <1>6, <1>8 DEF TypeOK
    <3> QED  BY <1>1, <3>1
  <2>5. age' \in [Fds -> 0 .. ConnectionTimeout]
    <3>1. age \in [Fds -> 0 .. ConnectionTimeout] /\ 0 \in 0 .. ConnectionTimeout
      BY <1>6, ClientsAssumption DEF TypeOK
    <3>2. \A fd \in Fds : age'[fd] \in 0 .. ConnectionTimeout
      BY <1>2, <3>1
    <3> QED  BY <1>2, <3>2
  <2>6. Format' \in [Fds -> {"text", "json"}]
    BY <1>1, <1>6 DEF TypeOK
  <2>7. ReceiveLastPacketFin' \in BOOLEAN /\ (ReceiveLastPacketFin' \/ ReceiveLastOpcode' = 1)
    BY <1>1, <1>6 DEF TypeOK
  <2>8. WebSocketIntialState' \in {0, 1} /\ ReceiveLastOpcode' \in {0, 1}
    BY <1>1, <1>6 DEF TypeOK
  <2>9. \A fd \in Fds : Len(InputBuffer'[fd]) < BufferSize
    <3>1. InputBuffer \in [Fds -> Seq(Items)] /\ \A fd \in Fds : Len(InputBuffer[fd]) < BufferSize
      BY <1>6 DEF TypeOK
    <3>2. Len(<< >>) = 0 /\ 0 < BufferSize
      BY ClientsAssumption
    <3> QED  BY <1>1, <3>1, <3>2
  <2> QED  BY <1>7, <1>9, <2>9, <2>2, <2>3, <2>4, <2>5, <2>6, <2>7, <2>8 DEF Rest
<1>11. ASSUME NEW fd \in Fds  PROVE Stream(fd)' /\ LeftBehind(fd)'
  <2>1. CASE up /\ fd = new
    <3>1. Nothing(fd)' /\ half'[fd] = FALSE
      BY <1>1, <1>3, <1>4, <1>5, <2>1, GoneIsNothing
    <3>2. ClientIF'[fd] = "web" /\ InputBuffer'[fd] = << >> /\ Format'[fd] = "json"
      BY <1>1, <1>6, <2>1 DEF TypeOK
    <3>3. LinkStream(fd)'
      BY <3>1, <3>2, NothingNewNext DEF StartsEmpty
    <3> QED  BY <3>1, <3>2, <3>3 DEF Stream, LeftBehind
  <2>2. CASE ~(up /\ fd = new) /\ fd \in gone
    <3>1. Nothing(fd)' /\ half'[fd] = FALSE
      BY <1>1, <1>3, <2>2, GoneIsNothing
    <3>2. ClientIF'[fd] = "none"
      BY <1>1, <2>2
    <3> QED  BY <3>1, <3>2 DEF Stream, LeftBehind
  <2>3. CASE ~(up /\ fd = new) /\ fd \notin gone
    <3>1. fd # link
      BY <2>3, FdFacts
    <3>2. Same(fd)
      BY <1>1, <1>6, <1>7, <2>3, <3>1 DEF Same, TypeOK
    <3>3. Stream(fd) /\ LeftBehind(fd)
      BY <1>1, FdFacts DEF Streams
    <3> QED  BY <1>6, <3>2, <3>3, SameStream DEF LeftBehind, Same
  <2> QED  BY <2>1, <2>2, <2>3
<1> QED  BY <1>7, <1>9, <1>10, <1>11, RestIsTypesNext DEF Streams, Shapes

(* Results.                                                                *)
LEMMA StreamsStart == Init => Streams
<1> SUFFICES ASSUME Init  PROVE Streams
  OBVIOUS
<1>1. \A S : << >> \in Seq(S)
  BY EmptySeq
<1>2. TypeOK
  <2>1. age \in [Fds -> 0 .. ConnectionTimeout]
    BY ClientsAssumption DEF Init
  <2>2. rx \in [fd : Fds \cup {None}, cmd : Seq(Items), fin : BOOLEAN]
    BY <1>1 DEF Init, NoCall
  <2>3. \A fd \in Fds : Len(InputBuffer[fd]) < BufferSize /\ {upTo[fd], lost[fd]} \subseteq 0 .. Len(sent[fd])
    BY ClientsAssumption DEF Init
  <2>4. peer \in [Fds -> 0 .. made]
    BY DEF Init
  <2> QED  BY <1>1, <2>1, <2>2, <2>3, <2>4 DEF Init, TypeOK
<1>3. \A fd \in Fds : Stream(fd) /\ LeftBehind(fd)
  BY DEF Init, Stream, Nothing, LeftBehind
<1>4. CallAgrees
  BY FdFacts DEF Init, CallAgrees
<1>5. Shapes
  BY DEF Init, Shapes
<1> QED  BY <1>2, <1>3, <1>4, <1>5 DEF Streams

LEMMA StreamsStay == ASSUME Streams, UNCHANGED vars  PROVE Streams'
<1>1. UNCHANGED <<ClientIF, Format, InputBuffer, ports, age, webFd, Sequence, ReceiveLastPacketFin,
                  ReceiveLastOpcode, WebSocketIntialState, rx, jobs, peer, made, sent, line, eof, half, upTo, lost>>
  BY DEF vars, daemon, table, web, net, past
<1>2. TypeOK /\ Shapes /\ CallAgrees
  BY DEF Streams, Shapes
<1>3. TypeOK' /\ Shapes'
  BY <1>1, <1>2 DEF TypeOK, Items, Shapes
<1>4. CallAgrees'
  BY <1>1, <1>2 DEF CallAgrees, Ran, UnitsOf, InStep
<1>5. ASSUME NEW fd \in Fds  PROVE Stream(fd)' /\ (fd = rx'.fd \/ LeftBehind(fd)')
  <2>1. Same(fd) /\ Stream(fd) /\ (fd = rx.fd \/ LeftBehind(fd))
    BY <1>1 DEF Same, Streams
  <2> QED  BY <1>1, <1>2, <2>1, SameStream DEF LeftBehind
<1> QED  BY <1>3, <1>4, <1>5 DEF Streams, Shapes

LEMMA StreamsStep == ASSUME Inductive, Streams, Inductive', [Next]_vars  PROVE Streams'
<1>1. CASE Quiet /\ Talk
  BY <1>1, ClientTalkStep, LinkTalkStep, LeaveStep DEF Talk
<1>2. CASE Read
  BY <1>2, ReadClientStep, ReadFrameStreams, EndStep DEF Read
<1>3. CASE CommandIFReceive
  BY <1>3, TakeCommandStreams, QuitStreams, TakeRepeaterStreams, TakeMailStreams, TakeJunkStreams, ReturnStreams
     DEF CommandIFReceive
<1>4. CASE Answers
  BY <1>4, AnswerStreams, NobodyStreams DEF Answers
<1>5. CASE TimeoutCheck
  BY <1>5, TimeoutStreams DEF TimeoutCheck
<1> QED  BY <1>1, <1>2, <1>3, <1>4, <1>5, AcceptStreams, TickStep, StreamsStay DEF Next

(* What a client says, what is on its way, what the daemon holds of it and *)
(* how far it has been served fit together in every reachable state.       *)
THEOREM StreamInvariant == Spec => [](Inductive /\ Streams)
<1>1. Init => Streams
  BY StreamsStart
<1>2. Inductive /\ Inductive' /\ Streams /\ [Next]_vars => Streams'
  BY StreamsStep
<1> QED  BY <1>1, <1>2, TableInvariant, PTL DEF Spec

(* The types of the variables of Clients.                                  *)
THEOREM ClientTypes == Spec => []TypeOK
<1>1. Streams => TypeOK
  BY DEF Streams
<1> QED  BY <1>1, StreamInvariant, PTL

(* CommandIFReceive serves all messages that are there.  What it leaves is  *)
(* JSON behind JSON that does not parse, which is the last it served, or   *)
(* of a client whose connection is out of step.                            *)
THEOREM NoMessageLeft == Spec => []NothingLeft
<1>1. Streams => NothingLeft
  BY FdFacts DEF Streams, NothingLeft, Quiet, LeftBehind
<1> QED  BY <1>1, StreamInvariant, PTL

Own == ran' # NoRun =>
         LET m == Last(ran'.cmd)
             fd == rx.fd
         IN /\ \A i \in 1 .. Len(ran'.cmd) : ran'.cmd[i].s = ran'.s /\ ran'.cmd[i].n <= m.n
            /\ upTo[fd] < ran'.by /\ m.n <= ran'.by
            /\ ClientIF[fd] = "web" \/ InStep(fd, ran'.by) =>
                 /\ ran'.cmd = Whole(ran'.s, m.n, sent[fd][m.n])
                 /\ m.n = ran'.by \/ sent[fd][ran'.by] \in Repeaters
                 /\ ClientIF[fd] = "tcp" => ran'.format = Mode(fd, ran'.by - 1)

(* A message in step is read in the format the messages before it ask for. *)
LEMMA ReadInFormat ==
  ASSUME Inductive, Streams, Take, NEW fd, fd = rx.fd, ClientIF[fd] = "tcp", InStep(fd, Last(Taken).n)
  PROVE  Format[fd] = Mode(fd, Last(Taken).n - 1)
<1> DEFINE n == Last(Taken).n
           old == upTo[fd]
<1>1. n = old + 1 /\ n \in Nat
  BY ReadFacts
<1>2. TypeOK /\ fd \in Fds /\ ClientStream(fd)
  BY TakenFacts DEF Streams, Stream
<1>3. old \in Nat
  BY <1>2, SentFacts DEF Streams
<1>4. n - 1 = old /\ old \in Int /\ n \in Int /\ old <= n
  <2> HIDE DEF n, old
  <2> QED  BY <1>1, <1>3
<1>5. InStep(fd, old)
  <2>1. InStep(fd, n)
    OBVIOUS
  <2> HIDE DEF n, old
  <2> QED  BY <1>2, <1>4, <2>1, InStepLess
<1>6. Format[fd] = Mode(fd, old)
  BY <1>2, <1>5 DEF ClientStream
<1> HIDE DEF n, old
<1> QED  BY <1>4, <1>6 DEF n

LEMMA OwnFirst == ASSUME Inductive, Streams, TakeCommand  PROVE Own
<1>1. PICK fd \in Fds : fd = rx.fd
  BY DEF TakeCommand, Take, Inductive, Typed
<1> DEFINE n == Last(Taken).n
<1>2. Take
  BY DEF TakeCommand
<1>3. PICK k \in ReadAs(Taken) : (Format[fd] = "text" \/ k \in Commands) /\ Runs(Taken, k)
  BY <1>1 DEF TakeCommand
<1>4. ran' = [s |-> peer[fd], cmd |-> Taken, by |-> n, format |-> Format[fd]]
  BY <1>1, <1>3 DEF Runs
<1>5. ran'.s = peer[fd] /\ ran'.cmd = Taken /\ ran'.by = n /\ ran'.format = Format[fd]
  BY <1>4
<1>6. /\ ClientIF[fd] \in {"tcp", "web"} /\ upTo[fd] < n /\ n \in Nat
      /\ \A i \in 1 .. Len(Taken) : Taken[i].s = peer[fd]
      /\ ClientIF[fd] = "tcp" => \A i \in 1 .. Len(Taken) : Taken[i].n <= n
  <2>1. ClientIF[fd] \in {"tcp", "web"} /\ upTo[fd] < n /\ Taken \in Seq(UnitsOf(fd)) /\ n \in Nat
    BY <1>1, <1>2, TakenFacts, ReadFacts
  <2>2. \A i \in 1 .. Len(Taken) : Taken[i].s = peer[fd]
    <3> DEFINE c == Taken
               U == UnitsOf(fd)
    <3>1. \A i \in 1 .. Len(c) : c[i] \in U
      <4>1. c \in Seq(U)
        BY <2>1
      <4> HIDE DEF c, U
      <4> QED  BY <4>1, Elements
    <3>2. \A u \in U : u.s = peer[fd]
      BY DEF UnitsOf
    <3> HIDE DEF U
    <3> QED  BY <3>1, <3>2
  <2>3. ClientIF[fd] = "tcp" => \A i \in 1 .. Len(Taken) : Taken[i].n <= n
    BY <1>1, <1>2, TakenFacts
  <2> QED  BY <2>1, <2>2, <2>3
<1>7. ClientIF[fd] = "web" \/ InStep(fd, n) => Taken = Whole(peer[fd], n, sent[fd][n])
  BY <1>1, <1>2, <1>3, CommandRead
<1>8. ClientIF[fd] = "web" => \A i \in 1 .. Len(Taken) : Taken[i].n <= n
  BY <1>6, <1>7, WholeNumbers
<1>9. ClientIF[fd] = "tcp" /\ InStep(fd, n) => Format[fd] = Mode(fd, n - 1)
  BY <1>1, <1>2, ReadInFormat
<1>10. n <= n
  <2> HIDE DEF n
  <2> QED  BY <1>6
<1>11. Last(ran'.cmd).n = n
  BY <1>5
<1> HIDE DEF n
<1> QED  BY <1>1, <1>5, <1>6, <1>7, <1>8, <1>9, <1>10, <1>11 DEF Own

LEMMA OwnAgain == ASSUME Inductive, Streams, TakeRepeater, ran' # NoRun  PROVE Own
<1>1. PICK fd \in Fds : fd = rx.fd
  BY DEF TakeRepeater, Take, Inductive, Typed
<1> DEFINE n == Last(Taken).n
           l == Last(rx.cmd).n
<1>2. Take /\ rx.cmd # << >> /\ ReadAs(Taken) \cap Repeaters # {}
  BY DEF TakeRepeater, RunsNothing
<1>3. PICK k \in ReadAs(rx.cmd) : Runs(rx.cmd, k)
  BY <1>2 DEF TakeRepeater
<1>4. ran' = [s |-> peer[fd], cmd |-> rx.cmd, by |-> n, format |-> Format[fd]]
  BY <1>1, <1>3 DEF Runs
<1>5. ran'.s = peer[fd] /\ ran'.cmd = rx.cmd /\ ran'.by = n /\ ran'.format = Format[fd]
  BY <1>4
<1>6. ClientIF[fd] \in {"tcp", "web"} /\ upTo[fd] < n /\ n \in Nat
  BY <1>1, <1>2, TakenFacts, ReadFacts
<1>7. /\ Ran(fd, rx.cmd) /\ l \in Nat /\ l < n
      /\ InStep(fd, n) => InStep(fd, l)
      /\ ClientIF[fd] = "web" \/ InStep(fd, l) => rx.cmd = Whole(peer[fd], l, sent[fd][l])
  BY <1>1, <1>2, <1>3, RunsAgain
<1>8. \A i \in 1 .. Len(rx.cmd) : rx.cmd[i].s = peer[fd] /\ rx.cmd[i].n <= l
  <2>1. rx.cmd \in Seq(UnitsOf(fd)) /\ \A i \in 1 .. Len(rx.cmd) : rx.cmd[i].n <= l
    BY <1>7 DEF Ran
  <2>2. \A i \in 1 .. Len(rx.cmd) : rx.cmd[i] \in UnitsOf(fd)
    BY <2>1, Elements
  <2>3. \A u \in UnitsOf(fd) : u.s = peer[fd]
    BY DEF UnitsOf
  <2> QED  BY <2>1, <2>2, <2>3
<1>9. ClientIF[fd] = "tcp" /\ InStep(fd, n) => Format[fd] = Mode(fd, n - 1)
  BY <1>1, <1>2, ReadInFormat
<1>10. ClientIF[fd] = "web" \/ InStep(fd, n) => sent[fd][n] \in Repeaters
  <2>1. PICK x \in ReadAs(Taken) : x \in Repeaters /\ x # "garbled"
    BY <1>2, KindFacts
  <2>2. /\ ClientIF[fd] = "web" => x = sent[fd][n]
        /\ ClientIF[fd] = "tcp" /\ InStep(fd, n) => ReadAs(Taken) = {sent[fd][n]}
    BY <1>1, <1>2, <2>1, ReadFacts
  <2> HIDE DEF n
  <2> QED  BY <1>6, <2>1, <2>2
<1>11. l <= n
  <2> HIDE DEF n, l
  <2> QED  BY <1>6, <1>7
<1>12. Last(ran'.cmd).n = l
  BY <1>5
<1> HIDE DEF n, l
<1> QED  BY <1>1, <1>5, <1>6, <1>7, <1>8, <1>9, <1>10, <1>11, <1>12 DEF Own

(* A command that runs is put together from what its client sent and was   *)
(* not served yet; while the connection is in step it is one whole message *)
(* in the format it was written in and runs once, but for a report of rain *)
(* or JSON of an unknown type behind it.                                   *)
THEOREM CommandsAreOwn == Spec => OwnCommands
<1>1. Inductive /\ Streams /\ [Next]_vars => [Own]_vars
  <2> SUFFICES ASSUME Inductive, Streams, Next, ran' # NoRun  PROVE Own
    BY DEF Own, vars
  <2>1. TakeCommand \/ TakeRepeater
    BY DEF Next, Talk, Say, SayRest, Leave, Shake, Push, PushLast, Control, AcceptCommandIF, Read, ReadClient,
           ReadFrame, ReadEnd, CommandIFReceive, TakeQuit, TakeMail, TakeJunk, Return, Answers, Answer,
           AnswerNobody, TimeoutCheck, ClientTimeoutCheck, Tick, Silent, RunsNothing
  <2> QED  BY <2>1, OwnFirst, OwnAgain
<1> QED  BY <1>1, StreamInvariant, PTL DEF Spec, OwnCommands, Own
=============================================================================

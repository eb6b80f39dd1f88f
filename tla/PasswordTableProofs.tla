------------------------- MODULE PasswordTableProofs -------------------------
(***************************************************************************)
(* Proofs about PasswordTable.  What a handler leaves of a list is a       *)
(* remnant of it: only expired entries are gone.  A remnant honours every  *)
(* promise the list honours, so that sweeps which end early and writes     *)
(* that fail need no case of their own.                                    *)
(***************************************************************************)
EXTENDS PasswordTable, TLAPS

(* No customer whose name is stored in full has two entries for a gate.    *)
Unique(t) == \A p, q \in t : p.gate = q.gate /\ p.customer = q.customer
                              /\ p.customer \notin LongNames => p = q
List(t) == /\ t \subseteq Entry
           /\ \A p \in t : p.code.start < p.code.end
           /\ Unique(t)
Remnant(s, t) == s \subseteq t /\ \A p \in t : p \in s \/ p.code.end <= now
Outcomes == [list: SUBSET Entry, file: SUBSET Entry, dirty: {0, 1},
             ok: BOOLEAN, told: BOOLEAN]
Wanted == [k \in Pairs |-> {wanted[k]}]
Kept   == ~ShortWrites /\ ~InPlaceRestart

Rest ==
  /\ now \in 0 .. MaxTime /\ DirtyFlag \in {0, 1}
  /\ link \in {"down", "new", "up"}
  /\ missed \in BOOLEAN /\ sent \subseteq Gates \X Customers \X Code
  /\ wanted \in [Pairs -> Code \cup {None}]
  /\ owed \in [Pairs -> SUBSET (Code \cup {None})]
  /\ requests \in 0 .. MaxRequests /\ restarts \in 0 .. MaxRestarts

Inv ==
  /\ Rest
  /\ List(table) /\ List(file) /\ List(origin)
  /\ Honours(table, Wanted)
  /\ Kept => Honours(table, owed) /\ Honours(file, owed)
  /\ SentIsTable

-----------------------------------------------------------------------------
(* Lists                                                                   *)

LEMMA ListPart == ASSUME NEW t, NEW s \in SUBSET t, List(t)  PROVE List(s)
BY DEF List, Unique

(* A walk removes nothing but what it is to remove.                        *)
LEMMA WalkPart == ASSUME NEW t, NEW S
                  PROVE  Walk(t, S) \subseteq t /\ \A p \in t : p \in Walk(t, S) \/ p \in S
BY DEF Walk

LEMMA SweptRemnant == ASSUME NEW t  PROVE Remnant(Swept(t), t)
BY WalkPart DEF Swept, Expired, Remnant

LEMMA RemnantTwice == ASSUME NEW r, NEW s, NEW t, Remnant(r, s), Remnant(s, t)
                      PROVE  Remnant(r, t)
BY DEF Remnant

LEMMA RemnantSelf == ASSUME NEW t  PROVE Remnant(t, t)
BY DEF Remnant

LEMMA RemnantHonours ==
  ASSUME NEW s, NEW t, Remnant(s, t), NEW promise, Honours(t, promise)
  PROVE  Honours(s, promise)
<1> SUFFICES ASSUME NEW k \in Short
             PROVE  /\ \A p \in Of(s, k) : p.code \in promise[k]
                    /\ Of(s, k) = {} =>
                         None \in promise[k] \/ \E code \in promise[k] : code.end <= now
  BY DEF Honours
<1>1. \A p \in Of(t, k) : p.code \in promise[k]
  BY DEF Honours
<1>2. Of(s, k) \subseteq Of(t, k) /\ \A p \in Of(t, k) : p \in Of(s, k) \/ p.code.end <= now
  BY DEF Remnant, Of
<1>3. CASE Of(t, k) = {}
  BY <1>2, <1>3 DEF Honours
<1>4. CASE Of(t, k) # {}
  BY <1>1, <1>2, <1>4
<1> QED  BY <1>3, <1>4

(* A weaker promise is honoured too.                                       *)
LEMMA WeakerHonours ==
  ASSUME NEW t, NEW promise, NEW weaker, Honours(t, promise),
         \A k \in Short : promise[k] \subseteq weaker[k]
  PROVE  Honours(t, weaker)
BY DEF Honours

(* What a started daemon holds is what it takes as wanted.                 *)
LEMMA HeldHonours ==
  ASSUME NEW t, List(t)
  PROVE  /\ Held(t) \in [Pairs -> Code \cup {None}]
         /\ Honours(t, [k \in Pairs |-> {Held(t)[k]}])
<1>1. ASSUME NEW k \in Pairs  PROVE Held(t)[k] \in Code \cup {None}
  <2>1. Held(t)[k] = IF \E p \in t : <<p.gate, p.customer>> = k
                     THEN (CHOOSE p \in t : <<p.gate, p.customer>> = k).code ELSE None
    BY DEF Held
  <2> QED  BY <2>1 DEF List, Entry
<1>2. ASSUME NEW k \in Short
      PROVE  /\ \A p \in Of(t, k) : p.code = Held(t)[k]
             /\ Of(t, k) = {} => Held(t)[k] = None
  <2>1. k \in Pairs /\ k[2] \notin LongNames
    BY DEF Short
  <2>2. Held(t)[k] = IF \E p \in t : <<p.gate, p.customer>> = k
                     THEN (CHOOSE p \in t : <<p.gate, p.customer>> = k).code ELSE None
    BY <2>1 DEF Held
  <2>3. \A p, q \in Of(t, k) : p = q
    BY <2>1 DEF Of, List, Unique
  <2> QED  BY <2>2, <2>3 DEF Of
<1>3. Short \subseteq Pairs
  BY DEF Short
<1> QED  BY <1>1, <1>2, <1>3 DEF Honours, Held

-----------------------------------------------------------------------------
(* Outcomes                                                                *)

LEMMA OutcomeFields ==
  ASSUME NEW t \in SUBSET Entry, NEW f \in SUBSET Entry, NEW ok \in BOOLEAN, NEW told \in BOOLEAN
  PROVE  /\ Outcome(t, f, 1, ok, told) \in Outcomes
         /\ Outcome(t, f, 1, ok, told).list = t
         /\ Outcome(t, f, 1, ok, told).file = f
         /\ Outcome(t, f, 1, ok, told).dirty = 1
         /\ Outcome(t, f, 1, ok, told).ok = ok
         /\ Outcome(t, f, 1, ok, told).told = told
BY DEF Outcome, Outcomes

(* A write takes place or leaves the old file; a short one may leave a     *)
(* part of the list.                                                       *)
LEMMA WriteOutcome ==
  ASSUME NEW o \in Outcomes, NEW t \in SUBSET Entry, NEW r \in Write(o, t)
  PROVE  /\ r \in Outcomes /\ r.list = t /\ r.dirty = 1 /\ r.told = o.told
         /\ r.file = t \/ r.file = o.file \/ (ShortWrites /\ r.file \subseteq t)
         /\ ~ShortWrites /\ r.ok => r.file = t
<1>0. o.file \subseteq Entry /\ o.told \in BOOLEAN
  BY DEF Outcomes
<1>1. ASSUME NEW f \in SUBSET Entry, NEW ok \in BOOLEAN, r = Outcome(t, f, 1, ok, o.told)
      PROVE  /\ r \in Outcomes /\ r.list = t /\ r.dirty = 1 /\ r.told = o.told
             /\ r.file = f /\ r.ok = ok
  BY <1>0, <1>1, OutcomeFields
<1>2. CASE r = Outcome(t, t, 1, TRUE, o.told)
  BY <1>1, <1>2
<1>3. CASE r = Outcome(t, o.file, 1, FALSE, o.told)
  <2>1. /\ r \in Outcomes /\ r.list = t /\ r.dirty = 1 /\ r.told = o.told
        /\ r.file = o.file /\ r.ok = FALSE
    BY <1>0, <1>1, <1>3
  <2> QED  BY <2>1
<1>4. CASE ShortWrites /\ \E f \in Prefixes(t) : r = Outcome(t, f, 1, TRUE, o.told)
  <2>1. PICK f \in Prefixes(t) : r = Outcome(t, f, 1, TRUE, o.told)
    BY <1>4
  <2>2. f \subseteq t /\ f \subseteq Entry
    BY <2>1 DEF Prefixes
  <2>3. /\ r \in Outcomes /\ r.list = t /\ r.dirty = 1 /\ r.told = o.told
        /\ r.file = f
    BY <1>1, <2>1, <2>2
  <2> QED  BY <1>4, <2>2, <2>3
<1> QED  BY <1>2, <1>3, <1>4 DEF Write

LEMMA FileOutcome ==
  ASSUME NEW o \in Outcomes, NEW changed \in BOOLEAN, NEW r \in UpdatePasswordFile(o, changed)
  PROVE  /\ r \in Outcomes /\ r.list = Swept(o.list) /\ r.told = o.told
         /\ r.file = r.list \/ r.file = o.file \/ (ShortWrites /\ r.file \subseteq r.list)
         /\ ~ShortWrites /\ r.ok /\ changed => r.file = r.list
         /\ r.dirty = 0 => r.list = o.list /\ o.dirty = 0
         /\ changed => r.dirty = 1
<1>1. CASE changed \/ Swept(o.list) # o.list
  <2>1. r \in Write(o, Swept(o.list))
    BY <1>1 DEF UpdatePasswordFile
  <2>2. Swept(o.list) \in SUBSET Entry
    BY SweptRemnant DEF Remnant, Outcomes
  <2> QED  BY <2>1, <2>2, WriteOutcome
<1>2. CASE ~(changed \/ Swept(o.list) # o.list)
  <2>1. r = [o EXCEPT !.ok = TRUE]
    BY <1>2 DEF UpdatePasswordFile
  <2> QED  BY <1>2, <2>1 DEF Outcomes
<1> QED  BY <1>1, <1>2

(* What PasswordCheck makes of a table: the list is a remnant of what it   *)
(* was, the file a remnant of that list or as it was, and the flag is down *)
(* only if the list was sent or nothing happened.                          *)
LEMMA CheckOutcome ==
  ASSUME NEW o \in Outcomes, NEW force \in BOOLEAN, NEW r \in PasswordCheck(o, force)
  PROVE  /\ r \in Outcomes /\ Remnant(r.list, o.list)
         /\ \/ r.file = o.file \/ Remnant(r.file, o.list)
            \/ ShortWrites /\ r.file \subseteq o.list
         /\ r.dirty = 0 => \/ r.told
                           \/ r.list = o.list /\ o.dirty = 0
         /\ force => r.told
<1>1. PICK u \in UpdatePasswordFile(o, FALSE) :
        r \in IF u.dirty = 1 \/ force
              THEN {[q EXCEPT !.dirty = 0, !.told = TRUE] : q \in UpdatePasswordFile(u, FALSE)}
              ELSE {u}
  BY DEF PasswordCheck
<1>2. /\ u \in Outcomes /\ u.list = Swept(o.list) /\ u.told = o.told
      /\ u.file = u.list \/ u.file = o.file \/ (ShortWrites /\ u.file \subseteq u.list)
      /\ u.dirty = 0 => u.list = o.list /\ o.dirty = 0
  BY FileOutcome
<1>3. Remnant(u.list, o.list)
  BY <1>2, SweptRemnant
<1>4. CASE u.dirty = 1 \/ force
  <2>1. PICK q \in UpdatePasswordFile(u, FALSE) : r = [q EXCEPT !.dirty = 0, !.told = TRUE]
    BY <1>1, <1>4
  <2>2. /\ q \in Outcomes /\ q.list = Swept(u.list)
        /\ q.file = q.list \/ q.file = u.file \/ (ShortWrites /\ q.file \subseteq q.list)
    BY <1>2, FileOutcome
  <2>3. /\ r \in Outcomes /\ r.list = q.list /\ r.file = q.file /\ r.told
    BY <2>1, <2>2 DEF Outcomes
  <2>4. Remnant(q.list, u.list)
    BY <2>2, SweptRemnant
  <2>5. Remnant(q.list, o.list)
    BY <1>3, <2>4, RemnantTwice
  <2>6. q.list \subseteq o.list /\ u.list \subseteq o.list
    BY <1>3, <2>5 DEF Remnant
  <2> QED  BY <1>2, <1>3, <2>2, <2>3, <2>5, <2>6
<1>5. CASE ~(u.dirty = 1 \/ force)
  <2>1. r = u /\ u.dirty = 0
    BY <1>1, <1>2, <1>5 DEF Outcomes
  <2>2. u.list \subseteq o.list
    BY <1>3 DEF Remnant
  <2> QED  BY <1>2, <1>3, <1>5, <2>1, <2>2
<1> QED  BY <1>4, <1>5
-----------------------------------------------------------------------------
(* Steps                                                                   *)

(* While time stands still a new list honours what it honours at once.     *)
LEMMA Carry ==
  ASSUME now' = now
  PROVE  /\ Honours(table', Wanted') => Honours(table, Wanted)'
         /\ Honours(table', owed') => Honours(table, owed)'
         /\ Honours(file', owed') => Honours(file, owed)'
BY DEF Honours, Of, Wanted

(* A handler that changes no promise: the list becomes a remnant, the file *)
(* one or nothing.                                                         *)
LEMMA QuietStep ==
  ASSUME Inv, now' = now, wanted' = wanted, owed' = owed, origin' = origin,
         Rest', SentIsTable', Remnant(table', table),
         file' = file \/ Remnant(file', table) \/ (ShortWrites /\ file' \subseteq table)
  PROVE  Inv'
<1>1. List(table') /\ List(file') /\ List(origin')
  BY ListPart DEF Inv, Remnant
<1>2. Honours(table', Wanted')
  <2>1. Honours(table', Wanted)
    BY RemnantHonours DEF Inv
  <2>2. Wanted' = Wanted
    BY DEF Wanted
  <2> QED  BY <2>1, <2>2
<1>3. ASSUME Kept  PROVE Honours(table', owed') /\ Honours(file', owed')
  BY <1>3, RemnantHonours DEF Inv, Kept
<1>4. Kept' = Kept
  BY DEF Kept
<1> QED  BY <1>1, <1>2, <1>3, <1>4, Carry DEF Inv

LEMMA PresentFacts ==
  ASSUME Inv
  PROVE  /\ Present \in Outcomes /\ Present.list = table /\ Present.file = file
         /\ Present.dirty = DirtyFlag /\ Present.told = FALSE
BY DEF Inv, Rest, List, Present, Outcome, Outcomes

(* What is sent is the list.                                               *)
LEMMA TellFacts ==
  ASSUME Rest, NEW o \in Outcomes, NEW c \in BOOLEAN, Tell(o, c)
  PROVE  /\ missed' \in BOOLEAN /\ sent' \subseteq Gates \X Customers \X Code
         /\ o.told /\ c /\ ~missed' => sent' = Contents(o.list)
         /\ ~o.told => UNCHANGED <<sent, missed>>
<1>1. Contents(o.list) \subseteq Gates \X Customers \X Code
  BY DEF Outcomes, Contents, Entry
<1>2. sent' \in {sent, Contents(o.list)}
  BY DEF Tell
<1>3. missed' \in BOOLEAN
  <2>1. missed' = missed \/ missed' = TRUE \/ missed' = FALSE
    BY DEF Tell
  <2> QED  BY <2>1 DEF Rest
<1>4. o.told /\ c /\ ~missed' => sent' = Contents(o.list)
  BY DEF Tell
<1>5. ~o.told => UNCHANGED <<sent, missed>>
  BY DEF Tell
<1>6. sent' \subseteq Gates \X Customers \X Code
  BY <1>1, <1>2 DEF Rest
<1> QED  BY <1>3, <1>4, <1>5, <1>6

LEMMA KeypadStep == ASSUME Inv, Keypad  PROVE Inv'
<1>0. UNCHANGED <<now, origin, link, sent, missed, wanted, owed, requests, restarts>>
  BY DEF Keypad
<1>1. PICK o \in UpdatePasswordFile(Present, FALSE) : Adopt(o)
  BY DEF Keypad
<1>2. /\ o \in Outcomes /\ o.list = Swept(table)
      /\ o.file = o.list \/ o.file = file \/ (ShortWrites /\ o.file \subseteq o.list)
      /\ o.dirty = 0 => o.list = table /\ DirtyFlag = 0
  BY PresentFacts, FileOutcome
<1>3. table' = o.list /\ file' = o.file /\ DirtyFlag' = o.dirty
  BY <1>1 DEF Adopt
<1>4. Remnant(table', table)
  BY <1>2, <1>3, SweptRemnant
<1>5. file' = file \/ Remnant(file', table) \/ (ShortWrites /\ file' \subseteq table)
  BY <1>2, <1>3, <1>4 DEF Remnant
<1>6. Rest'
  BY <1>0, <1>2, <1>3 DEF Inv, Rest, Outcomes
<1>7. SentIsTable'
  BY <1>0, <1>2, <1>3 DEF Inv, SentIsTable
<1> QED  BY <1>0, <1>4, <1>5, <1>6, <1>7, QuietStep

(* PasswordCheck of the table as it is.                                    *)
LEMMA CheckStep ==
  ASSUME Inv, NEW force \in BOOLEAN, NEW c \in BOOLEAN,
         NEW o \in PasswordCheck(Present, force), Adopt(o), Tell(o, c),
         UNCHANGED <<now, origin, wanted, owed, requests, restarts>>,
         link' \in {"down", "new", "up"}, link' = "up" => c,
         link' = "up" => link = "up" \/ force
  PROVE  Inv'
<1>1. /\ o \in Outcomes /\ Remnant(o.list, table)
      /\ o.file = file \/ Remnant(o.file, table) \/ (ShortWrites /\ o.file \subseteq table)
      /\ o.dirty = 0 => o.told \/ (o.list = table /\ DirtyFlag = 0)
      /\ force => o.told
  BY PresentFacts, CheckOutcome
<1>2. table' = o.list /\ file' = o.file /\ DirtyFlag' = o.dirty
  BY DEF Adopt
<1>3. /\ missed' \in BOOLEAN /\ sent' \subseteq Gates \X Customers \X Code
      /\ o.told /\ c /\ ~missed' => sent' = Contents(o.list)
      /\ ~o.told => UNCHANGED <<sent, missed>>
  BY <1>1, TellFacts DEF Inv
<1>4. Rest'
  BY <1>1, <1>2, <1>3 DEF Inv, Rest, Outcomes
<1>5. SentIsTable'
  BY <1>1, <1>2, <1>3 DEF Inv, SentIsTable
<1> QED  BY <1>1, <1>2, <1>4, <1>5, QuietStep

(* A list in which somebody's password was renewed or revoked.             *)
Asked(t, k, code) ==
  /\ List(t)
  /\ \A j \in Short \ {k} : Of(t, j) = Of(table, j)
  /\ k \in Short => /\ \A p \in Of(t, k) : p.code = code
                    /\ Of(t, k) = {} => code = None

LEMMA AskedHonours ==
  ASSUME NEW t, NEW k, NEW code, Asked(t, k, code), NEW promise, Honours(table, promise),
         NEW other, \A j \in Short \ {k} : promise[j] \subseteq other[j], code \in other[k]
  PROVE  Honours(t, other)
<1> SUFFICES ASSUME NEW j \in Short
             PROVE  /\ \A p \in Of(t, j) : p.code \in other[j]
                    /\ Of(t, j) = {} =>
                         None \in other[j] \/ \E x \in other[j] : x.end <= now
  BY DEF Honours
<1>1. CASE j = k
  BY <1>1 DEF Asked
<1>2. CASE j # k
  <2>1. Of(t, j) = Of(table, j) /\ promise[j] \subseteq other[j]
    BY <1>2 DEF Asked
  <2>2. /\ \A p \in Of(table, j) : p.code \in promise[j]
        /\ Of(table, j) = {} => None \in promise[j] \/ \E x \in promise[j] : x.end <= now
    BY DEF Honours
  <2> QED  BY <2>1, <2>2
<1> QED  BY <1>1, <1>2

LEMMA RequestStep ==
  ASSUME Inv, NEW k \in Pairs, NEW t, NEW code \in Code \cup {None}, Asked(t, k, code),
         Request(k, t, code)
  PROVE  Inv'
<1> DEFINE p0 == [Present EXCEPT !.list = t]
<1>0. /\ requests < MaxRequests /\ requests' = requests + 1
      /\ wanted' = [wanted EXCEPT ![k] = code]
      /\ UNCHANGED <<now, origin, link, restarts>>
  BY DEF Request
<1>1. PICK u \in UpdatePasswordFile(p0, TRUE) :
        /\ owed' = [owed EXCEPT ![k] = IF u.ok THEN {code} ELSE @ \cup {code}]
        /\ \E o \in IF u.ok THEN PasswordCheck(u, FALSE) ELSE {u} :
             Adopt(o) /\ Tell(o, link = "up")
  BY DEF Request
<1>2. PICK o \in IF u.ok THEN PasswordCheck(u, FALSE) ELSE {u} :
        Adopt(o) /\ Tell(o, link = "up")
  BY <1>1
<1>3. List(t)
  BY DEF Asked
<1>4. /\ p0 \in Outcomes /\ p0.list = t /\ p0.file = file
      /\ p0.dirty = DirtyFlag /\ p0.told = FALSE
  BY <1>3, PresentFacts DEF List, Outcomes
<1> HIDE DEF p0
<1>5. /\ u \in Outcomes /\ u.list = Swept(t)
      /\ u.file = u.list \/ u.file = file \/ (ShortWrites /\ u.file \subseteq u.list)
      /\ ~ShortWrites /\ u.ok => u.file = u.list
      /\ u.dirty = 1
  BY <1>4, FileOutcome
<1>6. Remnant(u.list, t)
  BY <1>5, SweptRemnant
<1>7. /\ o \in Outcomes /\ Remnant(o.list, t)
      /\ o.file = u.file \/ Remnant(o.file, t) \/ (ShortWrites /\ o.file \subseteq t)
      /\ ~u.ok => o.file = u.file
      /\ o.dirty = 0 => o.told
  <2>1. CASE u.ok
    <3>1. /\ o \in Outcomes /\ Remnant(o.list, u.list)
          /\ o.file = u.file \/ Remnant(o.file, u.list) \/ (ShortWrites /\ o.file \subseteq u.list)
          /\ o.dirty = 0 => o.told \/ (o.list = u.list /\ u.dirty = 0)
      BY <1>2, <1>5, <2>1, CheckOutcome
    <3>2. Remnant(o.list, t) /\ (Remnant(o.file, u.list) => Remnant(o.file, t))
      BY <1>6, <3>1, RemnantTwice
    <3>3. u.list \subseteq t
      BY <1>6 DEF Remnant
    <3> QED  BY <1>5, <2>1, <3>1, <3>2, <3>3
  <2>2. CASE ~u.ok
    <3>1. o = u
      BY <1>2, <2>2
    <3> QED  BY <1>5, <1>6, <3>1
  <2> QED  BY <2>1, <2>2
<1>8. table' = o.list /\ file' = o.file /\ DirtyFlag' = o.dirty
  BY <1>2 DEF Adopt
<1>9. /\ missed' \in BOOLEAN /\ sent' \subseteq Gates \X Customers \X Code
      /\ o.told /\ link = "up" /\ ~missed' => sent' = Contents(o.list)
      /\ ~o.told => UNCHANGED <<sent, missed>>
  BY <1>2, <1>7, TellFacts DEF Inv
<1>10. Rest'
  <2>1. wanted' \in [Pairs -> Code \cup {None}]
    BY <1>0 DEF Inv, Rest
  <2>2. owed' \in [Pairs -> SUBSET (Code \cup {None})]
    BY <1>1 DEF Inv, Rest
  <2>3. requests' \in 0 .. MaxRequests
    BY <1>0, PasswordAssumption DEF Inv, Rest
  <2>4. DirtyFlag' \in {0, 1}
    BY <1>7, <1>8 DEF Outcomes
  <2> QED  BY <1>0, <1>9, <2>1, <2>2, <2>3, <2>4 DEF Inv, Rest
<1>11. SentIsTable'
  BY <1>0, <1>7, <1>8, <1>9 DEF SentIsTable
<1>12. List(table') /\ List(file') /\ List(origin')
  <2>1. List(table')
    BY <1>3, <1>7, <1>8, ListPart DEF Remnant
  <2>2. u.list \subseteq t
    BY <1>6 DEF Remnant
  <2>3. o.file = file \/ o.file \subseteq t
    BY <1>5, <1>7, <2>2 DEF Remnant
  <2>4. List(file')
    BY <1>3, <1>8, <2>3, ListPart DEF Inv
  <2> QED  BY <1>0, <2>1, <2>4 DEF Inv
<1>13. Honours(table', Wanted')
  <2>1. /\ \A j \in Short \ {k} : Wanted[j] \subseteq Wanted'[j]
        /\ code \in Wanted'[k]
    BY <1>0 DEF Wanted, Inv, Rest, Short
  <2>2. Honours(table, Wanted)
    BY DEF Inv
  <2>3. Honours(t, Wanted')
    BY <2>1, <2>2, AskedHonours
  <2> QED  BY <1>7, <1>8, <2>3, RemnantHonours
<1>14. ASSUME Kept  PROVE Honours(table', owed') /\ Honours(file', owed')
  <2>1. /\ \A j \in Short \ {k} : owed[j] \subseteq owed'[j]
        /\ code \in owed'[k]
    BY <1>1 DEF Inv, Rest, Short
  <2>2. Honours(table, owed) /\ Honours(file, owed)
    BY <1>14 DEF Inv
  <2>3. Honours(t, owed')
    BY <2>1, <2>2, AskedHonours
  <2>4. Honours(table', owed')
    BY <1>7, <1>8, <2>3, RemnantHonours
  <2>5. CASE u.ok
    <3>1. Remnant(u.file, t)
      BY <1>5, <1>6, <1>14, <2>5 DEF Kept
    <3>2. Remnant(o.file, t)
      BY <1>7, <1>14, <3>1 DEF Kept
    <3> QED  BY <1>8, <2>3, <2>4, <3>2, RemnantHonours
  <2>6. CASE ~u.ok
    <3>1. Remnant(o.file, t) \/ o.file = file
      BY <1>5, <1>6, <1>7, <1>14, <2>6 DEF Kept
    <3>2. \A j \in Short : owed[j] \subseteq owed'[j]
      BY <1>1, <2>1, <2>6 DEF Inv, Rest, Short
    <3>3. Honours(file, owed')
      BY <2>2, <3>2, WeakerHonours
    <3> QED  BY <1>8, <2>3, <2>4, <3>1, <3>3, RemnantHonours
  <2> QED  BY <2>5, <2>6
<1>15. Kept' = Kept
  BY DEF Kept
<1> QED  BY <1>0, <1>10, <1>11, <1>12, <1>13, <1>14, <1>15, Carry DEF Inv
(* The entry of a customer whose name is stored in full is found and goes; *)
(* that of another is not found, and nothing goes.                         *)
LEMMA RevokedOnce ==
  ASSUME List(table), NEW g \in Gates, NEW c \in Customers
  PROVE  Revoked(table, g, c) = table \ Named(table, g, c)
<1>1. Named(table, g, c) \subseteq table /\ \A p, q \in Named(table, g, c) : p = q
  BY DEF Named, List, Unique
<1> QED  BY <1>1 DEF Revoked, Walk

LEMMA RevokedAsked ==
  ASSUME List(table), NEW g \in Gates, NEW c \in Customers
  PROVE  Asked(Revoked(table, g, c), <<g, c>>, None)
<1> DEFINE t == Revoked(table, g, c)
<1>1. t = table \ Named(table, g, c)
  BY RevokedOnce
<1>2. List(t)
  BY <1>1, ListPart
<1>3. ASSUME NEW j \in Short \ {<<g, c>>}  PROVE Of(t, j) = Of(table, j)
  <2>1. \A p \in Named(table, g, c) : <<p.gate, p.customer>> = <<g, c>>
    BY DEF Named
  <2>2. \A p \in Of(table, j) : p \notin Named(table, g, c)
    BY <2>1 DEF Of
  <2> QED  BY <1>1, <2>2 DEF Of
<1>4. ASSUME <<g, c>> \in Short  PROVE Of(t, <<g, c>>) = {}
  BY <1>1, <1>4 DEF Of, Named, Short
<1> QED  BY <1>2, <1>3, <1>4 DEF Asked

LEMMA RenewedAsked ==
  ASSUME List(table), NEW g \in Gates, NEW c \in Customers, NEW code \in Code,
         code.start < code.end, requests \in Nat
  PROVE  Asked(Renewed(table, g, c, code), <<g, c>>, code)
<1> DEFINE new == [gate |-> g, customer |-> c, code |-> code, place |-> requests + 1]
           s == Revoked(table, g, c)
           t == Renewed(table, g, c, code)
<1>1. t = s \cup {new}
  BY DEF Renewed, Revoked
<1>2. new \in Entry /\ new.code = code /\ new.gate = g /\ new.customer = c
  BY DEF Entry
<1>3. /\ List(s)
      /\ \A j \in Short \ {<<g, c>>} : Of(s, j) = Of(table, j)
      /\ <<g, c>> \in Short => \A p \in Of(s, <<g, c>>) : p.code = None
  BY RevokedAsked DEF Asked
<1>4. <<g, c>> \in Short => Of(s, <<g, c>>) = {}
  BY RevokedOnce DEF Of, Named, Short
<1>5. c \notin LongNames => <<g, c>> \in Short
  BY DEF Short, Pairs
<1> HIDE DEF new, s, t
<1>6. \A p \in s : p.gate = g /\ p.customer = c => c \in LongNames
  BY <1>4, <1>5 DEF Of
<1>7. Unique(t)
  BY <1>1, <1>2, <1>3, <1>6 DEF List, Unique
<1>8. List(t)
  BY <1>1, <1>2, <1>3, <1>7 DEF List
<1>9. ASSUME NEW j \in Short \ {<<g, c>>}  PROVE Of(t, j) = Of(table, j)
  <2>1. <<new.gate, new.customer>> # j
    BY <1>2
  <2>2. Of(t, j) = Of(s, j)
    BY <1>1, <2>1 DEF Of
  <2> QED  BY <1>3, <2>2
<1>10. ASSUME <<g, c>> \in Short  PROVE Of(t, <<g, c>>) = {new}
  <2>1. \A p \in s : <<p.gate, p.customer>> # <<g, c>>
    BY <1>4, <1>10 DEF Of
  <2> QED  BY <1>1, <1>2, <2>1 DEF Of
<1>11. <<g, c>> \in Short => /\ \A p \in Of(t, <<g, c>>) : p.code = code
                            /\ Of(t, <<g, c>>) # {}
  BY <1>2, <1>10
<1>12. Asked(t, <<g, c>>, code)
  BY <1>8, <1>9, <1>11 DEF Asked
<1> QED  BY <1>12 DEF t

LEMMA DeleteStep ==
  ASSUME Inv, NEW g \in Gates, NEW c \in Customers, Delete(g, c)
  PROVE  Inv'
<1>1. <<g, c>> \in Pairs
  BY DEF Pairs
<1>2. Asked(Revoked(table, g, c), <<g, c>>, None)
  BY RevokedAsked DEF Inv
<1>3. Request(<<g, c>>, Revoked(table, g, c), None)
  BY DEF Delete
<1> QED  BY <1>1, <1>2, <1>3, RequestStep

LEMMA SetPWStep ==
  ASSUME Inv, NEW g \in Gates, NEW c \in Customers, NEW w \in Passwords,
         NEW v \in Validities, SetPW(g, c, w, v)
  PROVE  Inv'
<1> DEFINE code == [password |-> w, start |-> v.start, end |-> v.end]
<1>1. code \in Code /\ code.start = v.start /\ code.end = v.end
  BY PasswordAssumption DEF Code
<1>2. \/ v.start < v.end /\ Request(<<g, c>>, Renewed(table, g, c, code), code)
      \/ Delete(g, c)
  BY DEF SetPW, Delete
<1> HIDE DEF code
<1>3. CASE v.start < v.end /\ Request(<<g, c>>, Renewed(table, g, c, code), code)
  <2>1. requests \in Nat
    BY PasswordAssumption DEF Inv, Rest
  <2>2. Asked(Renewed(table, g, c, code), <<g, c>>, code)
    BY <1>1, <1>3, <2>1, RenewedAsked DEF Inv
  <2>3. <<g, c>> \in Pairs
    BY DEF Pairs
  <2> QED  BY <1>1, <1>3, <2>2, <2>3, RequestStep
<1>4. CASE Delete(g, c)
  BY <1>4, DeleteStep
<1> QED  BY <1>2, <1>3, <1>4

LEMMA IntervalStep == ASSUME Inv, Interval  PROVE Inv'
<1>1. UNCHANGED <<now, origin, link, wanted, owed, requests, restarts>>
  BY DEF Interval
<1>2. PICK o \in PasswordCheck(Present, FALSE) : Adopt(o) /\ Tell(o, link = "up")
  BY DEF Interval
<1>3. link' \in {"down", "new", "up"} /\ (link = "up") \in BOOLEAN
  BY <1>1 DEF Inv, Rest
<1> QED  BY <1>1, <1>2, <1>3, CheckStep

LEMMA ReceiveStep ==
  ASSUME Inv, NEW state \in {"up", "new", "down"}, Receive(state)
  PROVE  Inv'
<1>1. UNCHANGED <<now, origin, wanted, owed, requests, restarts>> /\ link' = state
  BY DEF Receive
<1>2. PICK o \in PasswordCheck(Present, TRUE) : Adopt(o) /\ Tell(o, state # "down")
  BY DEF Receive
<1>3. (state # "down") \in BOOLEAN
  OBVIOUS
<1> QED  BY <1>1, <1>2, <1>3, CheckStep

LEMMA LinkStep == ASSUME Inv, Connect \/ Lost  PROVE Inv'
<1>1. /\ UNCHANGED <<now, table, DirtyFlag, file, origin, sent, missed, wanted, owed,
                     requests, restarts>>
      /\ link' \in {"new", "down"}
  BY DEF Connect, Lost
<1>2. Rest' /\ SentIsTable'
  BY <1>1 DEF Inv, Rest, SentIsTable
<1>3. Remnant(table', table)
  BY <1>1, RemnantSelf
<1> QED  BY <1>1, <1>2, <1>3, QuietStep

(* As time passes more promises may lapse, and none comes back.            *)
LEMMA LaterHonours ==
  ASSUME NEW t, NEW promise, Honours(t, promise), now \in Nat, now' = now + 1,
         \A k \in Short : promise[k] \subseteq Code \cup {None}
  PROVE  \A k \in Short :
           /\ \A p \in Of(t, k) : p.code \in promise[k]
           /\ Of(t, k) = {} =>
                None \in promise[k] \/ \E code \in promise[k] : code.end <= now'
<1> SUFFICES ASSUME NEW k \in Short
             PROVE  /\ \A p \in Of(t, k) : p.code \in promise[k]
                    /\ Of(t, k) = {} =>
                         None \in promise[k] \/ \E code \in promise[k] : code.end <= now'
  OBVIOUS
<1>1. /\ \A p \in Of(t, k) : p.code \in promise[k]
      /\ Of(t, k) = {} => None \in promise[k] \/ \E code \in promise[k] : code.end <= now
  BY DEF Honours
<1>2. ASSUME NEW code \in promise[k], code.end <= now, code # None
      PROVE  code.end <= now'
  <2>1. code.end \in Nat
    BY <1>2 DEF Code
  <2> QED  BY <1>2, <2>1
<1> QED  BY <1>1, <1>2

LEMMA TickStep == ASSUME Inv, Tick  PROVE Inv'
<1>1. /\ now < MaxTime /\ now' = now + 1
      /\ UNCHANGED <<table, DirtyFlag, file, origin, link, sent, missed, wanted, owed,
                     requests, restarts>>
  BY DEF Tick
<1>2. now \in Nat /\ now' \in 0 .. MaxTime
  BY <1>1, PasswordAssumption DEF Inv, Rest
<1>3. Rest' /\ SentIsTable'
  BY <1>1, <1>2 DEF Inv, Rest, SentIsTable
<1>4. List(table') /\ List(file') /\ List(origin')
  BY <1>1 DEF Inv
<1>5. /\ \A k \in Short : owed[k] \subseteq Code \cup {None}
      /\ \A k \in Short : Wanted[k] \subseteq Code \cup {None}
  BY DEF Inv, Rest, Short, Wanted
<1>6. Honours(table, Wanted)'
  <2>1. Wanted' = Wanted
    BY <1>1 DEF Wanted
  <2>2. Honours(table, Wanted)
    BY DEF Inv
  <2> QED  BY <1>1, <1>2, <1>5, <2>1, <2>2, LaterHonours DEF Honours, Of
<1>7. ASSUME Kept  PROVE Honours(table, owed)' /\ Honours(file, owed)'
  <2>1. Honours(table, owed) /\ Honours(file, owed)
    BY <1>7 DEF Inv
  <2>2. Honours(table, owed)'
    BY <1>1, <1>2, <1>5, <2>1, LaterHonours DEF Honours, Of
  <2>3. Honours(file, owed)'
    BY <1>1, <1>2, <1>5, <2>1, LaterHonours DEF Honours, Of
  <2> QED  BY <2>2, <2>3
<1>8. Kept' = Kept
  BY DEF Kept
<1> QED  BY <1>3, <1>4, <1>6, <1>7, <1>8 DEF Inv

(* A started daemon wants what it holds.                                   *)
LEMMA StartedHonours ==
  ASSUME NEW t, List(t), wanted' = Held(t)
  PROVE  wanted' \in [Pairs -> Code \cup {None}] /\ Honours(t, Wanted')
<1>1. Held(t) \in [Pairs -> Code \cup {None}] /\ Honours(t, [k \in Pairs |-> {Held(t)[k]}])
  BY HeldHonours
<1>2. Wanted' = [k \in Pairs |-> {Held(t)[k]}]
  BY DEF Wanted
<1> QED  BY <1>1, <1>2

LEMMA RestartStep == ASSUME Inv, Restart  PROVE Inv'
<1> DEFINE p0 == Outcome(file, file, 1, TRUE, FALSE)
<1>0. /\ restarts < MaxRestarts /\ restarts' = restarts + 1 /\ link' = "down"
      /\ UNCHANGED <<now, sent, missed, owed, requests>>
  BY DEF Restart
<1>1. PICK o \in UpdatePasswordFile(p0, FALSE) :
        Adopt(o) /\ origin' = o.list /\ wanted' = Held(o.list)
  BY DEF Restart
<1>2. p0 \in Outcomes /\ p0.list = file /\ p0.file = file
  <2>1. file \in SUBSET Entry
    BY DEF Inv, List
  <2> QED  BY <2>1 DEF Outcome, Outcomes
<1> HIDE DEF p0
<1>3. /\ o \in Outcomes /\ o.list = Swept(file)
      /\ o.file = o.list \/ o.file = file \/ (ShortWrites /\ o.file \subseteq o.list)
  BY <1>1, <1>2, FileOutcome
<1>4. table' = o.list /\ file' = o.file /\ DirtyFlag' = o.dirty /\ origin' = o.list
  BY <1>1 DEF Adopt
<1>5. Remnant(o.list, file) /\ o.list \subseteq file
  BY <1>3, SweptRemnant DEF Remnant
<1>6. List(o.list)
  BY <1>5, ListPart DEF Inv
<1>7. List(table') /\ List(file') /\ List(origin')
  BY <1>3, <1>4, <1>6, ListPart DEF Inv
<1>8. wanted' \in [Pairs -> Code \cup {None}] /\ Honours(table', Wanted')
  BY <1>1, <1>4, <1>6, StartedHonours
<1>9. Rest' /\ SentIsTable'
  <2>1. restarts' \in 0 .. MaxRestarts
    BY <1>0, PasswordAssumption DEF Inv, Rest
  <2>2. DirtyFlag' \in {0, 1}
    BY <1>3, <1>4 DEF Outcomes
  <2> QED  BY <1>0, <1>8, <2>1, <2>2 DEF Inv, Rest, SentIsTable
<1>10. ASSUME Kept  PROVE Honours(table', owed') /\ Honours(file', owed')
  <2>1. Remnant(file', file)
    BY <1>3, <1>4, <1>5, <1>10, RemnantSelf DEF Kept
  <2> QED  BY <1>0, <1>4, <1>5, <1>10, <2>1, RemnantHonours DEF Inv
<1>11. Kept' = Kept
  BY DEF Kept
<1> QED  BY <1>0, <1>7, <1>8, <1>9, <1>10, <1>11, Carry DEF Inv

(* The daemon forked anew has the list of the watchdog, whatever the file. *)
LEMMA RespawnStep == ASSUME Inv, Respawn  PROVE Inv'
<1>1. /\ InPlaceRestart /\ restarts < MaxRestarts /\ restarts' = restarts + 1
      /\ table' = origin /\ DirtyFlag' = 1 /\ wanted' = Held(origin) /\ link' = "down"
      /\ UNCHANGED <<now, file, origin, sent, missed, owed, requests>>
  BY DEF Respawn
<1>2. List(table') /\ List(file') /\ List(origin')
  BY <1>1 DEF Inv
<1>3. wanted' \in [Pairs -> Code \cup {None}] /\ Honours(table', Wanted')
  BY <1>1, StartedHonours DEF Inv
<1>4. Rest' /\ SentIsTable'
  <2>1. restarts' \in 0 .. MaxRestarts
    BY <1>1, PasswordAssumption DEF Inv, Rest
  <2> QED  BY <1>1, <1>3, <2>1 DEF Inv, Rest, SentIsTable
<1>5. ~Kept'
  BY <1>1 DEF Kept
<1> QED  BY <1>1, <1>2, <1>3, <1>4, <1>5, Carry DEF Inv

-----------------------------------------------------------------------------
(* The theorems                                                            *)

LEMMA InitInv == ASSUME Init  PROVE Inv
<1>1. Rest /\ SentIsTable
  <2>1. /\ now \in 0 .. MaxTime /\ requests \in 0 .. MaxRequests
        /\ restarts \in 0 .. MaxRestarts /\ DirtyFlag \in {0, 1}
    BY PasswordAssumption DEF Init
  <2>2. /\ wanted \in [Pairs -> Code \cup {None}]
        /\ owed \in [Pairs -> SUBSET (Code \cup {None})]
    BY DEF Init
  <2>3. /\ sent \subseteq Gates \X Customers \X Code /\ missed \in BOOLEAN
        /\ link \in {"down", "new", "up"}
    BY DEF Init
  <2> QED  BY <2>1, <2>2, <2>3 DEF Init, Rest, SentIsTable
<1>2. List({}) /\ table = {} /\ file = {} /\ origin = {}
  BY DEF Init, List, Unique
<1>3. \A k \in Short : Of({}, k) = {} /\ owed[k] = {None} /\ Wanted[k] = {None}
  BY DEF Init, Short, Of, Wanted
<1>4. Honours({}, owed) /\ Honours({}, Wanted)
  BY <1>3 DEF Honours
<1> QED  BY <1>1, <1>2, <1>4 DEF Inv

LEMMA NextInv == ASSUME Inv, [Next]_vars  PROVE Inv'
<1>1. CASE UNCHANGED vars
  <2>1. UNCHANGED <<now, table, DirtyFlag, file, origin, link, sent, missed, wanted, owed,
                    requests, restarts>>
    BY <1>1 DEF vars
  <2>2. Rest' /\ SentIsTable'
    BY <2>1 DEF Inv, Rest, SentIsTable
  <2>3. Remnant(table', table)
    BY <2>1, RemnantSelf
  <2> QED  BY <2>1, <2>2, <2>3, QuietStep
<1>2. ASSUME NEW g \in Gates, NEW c \in Customers, Delete(g, c)  PROVE Inv'
  BY <1>2, DeleteStep
<1>3. ASSUME NEW g \in Gates, NEW c \in Customers, NEW w \in Passwords,
             NEW v \in Validities, SetPW(g, c, w, v)
      PROVE  Inv'
  BY <1>3, SetPWStep
<1>4. CASE Keypad
  BY <1>4, KeypadStep
<1>5. CASE Interval
  BY <1>5, IntervalStep
<1>6. CASE Tick
  BY <1>6, TickStep
<1>7. CASE Connect \/ Lost
  BY <1>7, LinkStep
<1>8. ASSUME NEW state \in {"up", "new", "down"}, Receive(state)  PROVE Inv'
  BY <1>8, ReceiveStep
<1>9. CASE Restart
  BY <1>9, RestartStep
<1>10. CASE Respawn
  BY <1>10, RespawnStep
<1> QED  BY <1>1, <1>2, <1>3, <1>4, <1>5, <1>6, <1>7, <1>8, <1>9, <1>10 DEF Next

(* The inductive invariant.                                                *)
THEOREM PasswordInvariant == Spec => []Inv
<1>1. Init => Inv
  BY InitInv
<1>2. Inv /\ [Next]_vars => Inv'
  BY NextInv
<1> QED  BY <1>1, <1>2, PTL DEF Spec

(* No entry has an empty validity, in memory or in the file, and the other *)
(* variables are what they should be (DirtyFlag, WebSocketIntialState).    *)
THEOREM PasswordTypes == Spec => []TypeOK
<1>1. Inv => TypeOK
  BY DEF Inv, Rest, List, TypeOK
<1> QED  BY <1>1, PasswordInvariant, PTL

(* The list in memory is what clients asked for (Update, DeletePassword,   *)
(* the sweeps of GetEntry and SearchByName), for any number of requests.   *)
THEOREM TablesAreWanted == Spec => []TableIsWanted
<1>1. Inv => TableIsWanted
  BY DEF Inv, TableIsWanted, Wanted
<1> QED  BY <1>1, PasswordInvariant, PTL

(* What setpw answered is in the registry file (UpdatePasswordFile), when  *)
(* closing a file does not fail and the watchdog does not fork anew.       *)
THEOREM DiskHonours == Spec => []DiskHonoursAnswers
<1>1. Inv => DiskHonoursAnswers
  BY DEF Inv, Kept, DiskHonoursAnswers
<1> QED  BY <1>1, PasswordInvariant, PTL

(* Unless the flag is set or sending failed the relay server has the list  *)
(* (PasswordCheck).                                                        *)
THEOREM ServerKnowsTable == Spec => []SentIsTable
<1>1. Inv => SentIsTable
  BY DEF Inv
<1> QED  BY <1>1, PasswordInvariant, PTL

(* A keypad opens to those who may pass, and to nobody else (SearchByName  *)
(* in KeypadReceive), whatever lingers in the list.                        *)
THEOREM KeypadsJudgeRight == Spec => []KeypadJudgedRight
<1>1. ASSUME Inv, NEW g \in Gates, NEW w \in Passwords, Found(Swept(table), g, w)
      PROVE  \/ \E c \in Customers \ LongNames :
                  /\ wanted[<<g, c>>] # None /\ wanted[<<g, c>>].password = w
                  /\ wanted[<<g, c>>].start <= now /\ now <= wanted[<<g, c>>].end
             \/ \E p \in table : p.customer \in LongNames /\ p.gate = g /\ p.code.password = w
  <2>1. PICK p \in Swept(table) : /\ p.gate = g /\ p.code.password = w
                                  /\ p.code.start <= now /\ now <= p.code.end
    BY <1>1 DEF Found
  <2>2. p \in table /\ p \in Entry
    BY <1>1, SweptRemnant DEF Remnant, Inv, List
  <2>3. p.customer \in Customers /\ p.code \in Code
    BY <2>2 DEF Entry
  <2>4. CASE p.customer \in LongNames
    BY <2>1, <2>2, <2>4
  <2>5. CASE p.customer \notin LongNames
    <3>1. <<g, p.customer>> \in Short /\ p \in Of(table, <<g, p.customer>>)
      BY <2>1, <2>2, <2>3, <2>5 DEF Short, Pairs, Of
    <3>2. p.code \in Wanted[<<g, p.customer>>]
      BY <1>1, <3>1 DEF Inv, Honours
    <3>3. p.code = wanted[<<g, p.customer>>]
      BY <3>1, <3>2 DEF Wanted, Short
    <3>4. p.code # None
      BY <2>3, PasswordAssumption DEF Code
    <3> QED  BY <2>1, <2>3, <2>5, <3>3, <3>4
  <2> QED  BY <2>4, <2>5
<1>2. ASSUME Inv, NEW g \in Gates, NEW w \in Passwords, NEW c \in Customers \ LongNames,
             wanted[<<g, c>>] # None, wanted[<<g, c>>].password = w,
             wanted[<<g, c>>].start <= now, now < wanted[<<g, c>>].end
      PROVE  Found(Swept(table), g, w)
  <2>1. <<g, c>> \in Short /\ <<g, c>> \in Pairs
    BY DEF Short, Pairs
  <2>2. Wanted[<<g, c>>] = {wanted[<<g, c>>]}
    BY <2>1 DEF Wanted
  <2>3. wanted[<<g, c>>] \in Code /\ now \in Int
    BY <1>2, <2>1, PasswordAssumption DEF Inv, Rest
  <2>4. ~(wanted[<<g, c>>].end <= now)
    BY <1>2, <2>3 DEF Code
  <2>5. /\ \A p \in Of(table, <<g, c>>) : p.code \in Wanted[<<g, c>>]
        /\ Of(table, <<g, c>>) # {}
    BY <1>2, <2>1, <2>2, <2>4 DEF Inv, Honours
  <2>6. PICK p \in Of(table, <<g, c>>) : p.code = wanted[<<g, c>>]
    BY <2>2, <2>5
  <2>7. p \in table /\ p.gate = g
    BY <2>6 DEF Of
  <2>8. p \in Swept(table)
    BY <2>4, <2>6, <2>7, SweptRemnant DEF Remnant
  <2> QED  BY <1>2, <2>3, <2>6, <2>7, <2>8 DEF Found, Code
<1>3. Inv => KeypadJudgedRight
  BY <1>1, <1>2 DEF KeypadJudgedRight
<1> QED  BY <1>3, PasswordInvariant, PTL
=============================================================================

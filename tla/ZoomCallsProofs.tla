-------------------------- MODULE ZoomCallsProofs ---------------------------
(***************************************************************************)
(* Calls are filed once and at the right customer, and what a row offers   *)
(* to play can be played, for any number of webhook requests, pods, calls, *)
(* customers and recordings, and whatever each pod knows of the staff.     *)
(*                                                                         *)
(* That the customer is the right one rests on the form of the numbers: of *)
(* two numbers of Japan the form Zoom reports and the one people write end *)
(* in the same ten digits only when they are the same.                     *)
(***************************************************************************)
EXTENDS ZoomCalls, SequenceTheorems, TLAPS

-----------------------------------------------------------------------------
(* The inductive invariant. *)
\* Where a worker is at one call, and what it knows of it.
AtCall(j) == j.at \notin {"idle", "logs", "recs"}

Knows(j) ==
    /\ AtCall(j) => j.call \in Calls
    /\ j.at = "insert" => /\ j.match \in Customers
                         /\ Found(OtherParty(j.call), Phone[j.match])
    /\ j.at \in {"find", "archive", "link"} => j.part \in ready[j.call]
    /\ j.at = "link" => store[j.call] # 0
    /\ \A cp \in j.recs : cp[2] \in ready[cp[1]]

\* Objects in S3 are recordings Zoom had ready.
Archived == \A c \in Calls : store[c] # 0 => store[c] \in ready[c]

ZoomInv ==
    /\ TypeOK /\ Archived
    /\ \A w \in Workers : Knows(job[w])
    /\ FiledOnceAndRight
    /\ \A r \in rows : r.recording => store[r.call] # 0

-----------------------------------------------------------------------------
(* Numbers. *)

\* Ten digits or more keep their last ten.
LEMMA LastTen ==
    ASSUME NEW s \in Number, Len(s) >= 10
    PROVE  \A i \in 1..10 : PhoneToDigits(s)[i] = s[Len(s) - 10 + i]
<1>1. Len(s) \in Nat /\ \A i \in 1..Len(s) : s[i] \in 0..9
  BY DEF Number
<1>2. PhoneToDigits(s) = SubSeq(s, Len(s) - 9, Len(s))
  BY <1>1 DEF PhoneToDigits
<1>3. \A i \in (Len(s) - 9)..Len(s) : s[i] \in 0..9
  BY <1>1
<1>4. \A i \in 1 .. Len(s) - (Len(s) - 9) + 1 :
        SubSeq(s, Len(s) - 9, Len(s))[i] = s[(Len(s) - 9) + i - 1]
  BY <1>1, <1>3, SubSeqProperties
<1>5. \A i \in 1..10 : (Len(s) - 9) + i - 1 = Len(s) - 10 + i /\ i \in 1 .. Len(s) - (Len(s) - 9) + 1
  BY <1>1
<1> QED BY <1>2, <1>4, <1>5

\* The form people write: a 0 for the country code.
LEMMA LocalForm ==
    ASSUME NEW y \in Number, JapaneseNumber(y)
    PROVE  /\ Local(y) \in Number /\ Len(Local(y)) = Len(y) - 1 /\ Local(y)[1] = 0
           /\ \A i \in 2 .. Len(y) - 1 : Local(y)[i] = y[i + 1]
<1>1. Len(y) \in Nat /\ (Len(y) = 11 \/ Len(y) = 12) /\ y \in Seq(0..9) /\ \A i \in 1..Len(y) : y[i] \in 0..9
  BY DEF JapaneseNumber, Number
<1> DEFINE t == SubSeq(y, 3, Len(y))
<1>2. /\ t \in Seq(0..9) /\ Len(t) = Len(y) - 2
      /\ \A i \in 1 .. Len(y) - 2 : t[i] = y[i + 2]
  <2>1. \A i \in 3..Len(y) : y[i] \in 0..9
    BY <1>1
  <2>2. t \in Seq(0..9) /\ Len(t) = IF 3 <= Len(y) THEN Len(y) - 3 + 1 ELSE 0
    BY <1>1, <2>1, SubSeqProperties
  <2>3. \A i \in 1 .. Len(y) - 3 + 1 : t[i] = y[3 + i - 1]
    BY <1>1, <2>1, SubSeqProperties
  <2> HIDE DEF t
  <2>4. Len(t) = Len(y) - 2
    <3>1. \A n \in Nat : n = 11 \/ n = 12 => 3 <= n /\ n - 3 + 1 = n - 2
      OBVIOUS
    <3>2. 3 <= Len(y) /\ Len(y) - 3 + 1 = Len(y) - 2
      BY <1>1, <3>1
    <3> QED BY <2>2, <3>2
  <2>5. ASSUME NEW i \in 1 .. Len(y) - 2 PROVE t[i] = y[i + 2]
    <3>1. i \in 1 .. Len(y) - 3 + 1 /\ 3 + i - 1 = i + 2
      BY <1>1
    <3> QED BY <2>3, <3>1
  <2> QED BY <2>2, <2>4, <2>5
<1>3. Local(y) = <<0>> \o t
  BY DEF Local, JapaneseNumber
<1> HIDE DEF t
<1>4. <<0>> \in Seq(0..9) /\ Len(<<0>>) = 1
  OBVIOUS
<1>5. /\ <<0>> \o t \in Seq(0..9) /\ Len(<<0>> \o t) = 1 + Len(t)
      /\ \A i \in 1 .. 1 + Len(t) : (<<0>> \o t)[i] = IF i <= 1 THEN <<0>>[i] ELSE t[i - 1]
  BY <1>2, <1>4, ConcatProperties
<1>6. (<<0>> \o t)[1] = 0
  BY <1>1, <1>2, <1>5
<1>7. \A i \in 2 .. Len(y) - 1 : (<<0>> \o t)[i] = y[i + 1]
  <2> SUFFICES ASSUME NEW i \in 2 .. Len(y) - 1 PROVE (<<0>> \o t)[i] = y[i + 1]
    OBVIOUS
  <2>1. i \in 1 .. 1 + Len(t) /\ ~(i <= 1) /\ i - 1 \in 1 .. Len(y) - 2 /\ (i - 1) + 2 = i + 1
    BY <1>1, <1>2
  <2>2. (<<0>> \o t)[i] = t[i - 1]
    BY <1>5, <2>1
  <2>3. t[i - 1] = y[(i - 1) + 2]
    BY <1>2, <2>1
  <2> QED BY <2>1, <2>2, <2>3
<1>8. Len(<<0>> \o t) = Len(y) - 1
  BY <1>1, <1>2, <1>5
<1> QED BY <1>3, <1>5, <1>6, <1>7, <1>8 DEF Number

\* Zoom's form of a number of Japan and the one people write end in the same ten
\* digits only when they are the same number.
LEMMA SameNumber ==
    ASSUME NEW x \in Number, NEW y \in Number, JapaneseNumber(x), JapaneseNumber(y),
           PhoneToDigits(x) = PhoneToDigits(Local(y))
    PROVE  x = y
<1> DEFINE b == Local(y)
<1>1. /\ b \in Number /\ Len(b) = Len(y) - 1 /\ b[1] = 0
      /\ \A i \in 2 .. Len(y) - 1 : b[i] = y[i + 1]
  BY LocalForm
<1>2. /\ Len(x) \in {11, 12} /\ Len(y) \in {11, 12} /\ Len(x) >= 10 /\ Len(b) >= 10
      /\ x[1] = 8 /\ x[2] = 1 /\ x[3] # 0 /\ y[1] = 8 /\ y[2] = 1
      /\ (Len(y) = 12 => y[4] = 0)
  <2>1. (Len(x) = 11 \/ Len(x) = 12) /\ (Len(y) = 11 \/ Len(y) = 12) /\ (Len(y) = 12 => y[4] = 0)
    BY DEF JapaneseNumber
  <2>2. x[1] = 8 /\ x[2] = 1 /\ x[3] # 0 /\ y[1] = 8 /\ y[2] = 1
    BY DEF JapaneseNumber, InJapan
  <2>3. Len(x) >= 10 /\ Len(b) >= 10
    <3>1. \A n \in Nat : n = 11 \/ n = 12 => n >= 10 /\ n - 1 >= 10
      OBVIOUS
    <3>2. Len(x) \in Nat /\ Len(y) \in Nat
      BY DEF Number
    <3>3. Len(b) = Len(y) - 1
      BY <1>1
    <3> HIDE DEF b
    <3> QED BY <2>1, <3>1, <3>2, <3>3
  <2> QED BY <2>1, <2>2, <2>3
<1> HIDE DEF b
<1>3. \A i \in 1..10 : x[Len(x) - 10 + i] = b[Len(b) - 10 + i]
  <2>1. PhoneToDigits(x) = PhoneToDigits(b)
    BY DEF b
  <2>2. \A i \in 1..10 : PhoneToDigits(x)[i] = x[Len(x) - 10 + i]
    BY <1>2, LastTen
  <2>3. \A i \in 1..10 : PhoneToDigits(b)[i] = b[Len(b) - 10 + i]
    BY <1>1, <1>2, LastTen
  <2> QED BY <2>1, <2>2, <2>3
<1>4. CASE Len(x) = 12 /\ Len(y) = 12
  <2>1. \A i \in 1..10 : x[i + 2] = b[i + 1]
    BY <1>1, <1>3, <1>4
  <2>2. \A i \in 1..10 : x[i + 2] = y[i + 2]
    <3> SUFFICES ASSUME NEW i \in 1..10 PROVE x[i + 2] = y[i + 2]
      OBVIOUS
    <3>1. i + 1 \in 2 .. Len(y) - 1 /\ (i + 1) + 1 = i + 2
      BY <1>4
    <3>2. b[i + 1] = y[(i + 1) + 1]
      BY <1>1, <3>1
    <3> QED BY <2>1, <3>1, <3>2
  <2>3. \A i \in 3..12 : x[i] = y[i]
    <3> SUFFICES ASSUME NEW i \in 3..12 PROVE x[i] = y[i]
      OBVIOUS
    <3>1. i - 2 \in 1..10 /\ (i - 2) + 2 = i
      OBVIOUS
    <3> QED BY <2>2, <3>1
  <2>4. \A i \in 1..Len(x) : x[i] = y[i]
    <3> SUFFICES ASSUME NEW i \in 1..Len(x) PROVE x[i] = y[i]
      OBVIOUS
    <3>1. i = 1 \/ i = 2 \/ i \in 3..12
      BY <1>4
    <3> QED BY <1>2, <2>3, <3>1
  <2>5. x \in Seq(0..9) /\ y \in Seq(0..9) /\ Len(x) = Len(y)
    BY <1>4 DEF Number
  <2> QED BY <2>4, <2>5, SeqEqual
<1>5. CASE Len(x) = 11 /\ Len(y) = 12
  \* The third digit of x is none, and people's form of y has a 0 in its place.
  <2>1. x[Len(x) - 10 + 2] = b[Len(b) - 10 + 2]
    BY <1>3
  <2>2. Len(x) - 10 + 2 = 3 /\ Len(b) - 10 + 2 = 3 /\ 3 \in 2 .. Len(y) - 1 /\ 3 + 1 = 4
    BY <1>1, <1>5
  <2>3. b[3] = y[4]
    BY <1>1, <2>2
  <2> QED BY <1>2, <1>5, <2>1, <2>2, <2>3
<1>6. CASE Len(y) = 11
  \* y keeps its 0, and what Zoom writes in that place is no 0.
  <2>1. x[Len(x) - 10 + 1] = 0
    <3>1. x[Len(x) - 10 + 1] = b[Len(b) - 10 + 1]
      BY <1>3
    <3>2. Len(b) - 10 + 1 = 1
      BY <1>1, <1>6
    <3> QED BY <1>1, <3>1, <3>2
  <2>2. Len(x) - 10 + 1 = 2 \/ Len(x) - 10 + 1 = 3
    BY <1>2
  <2> QED BY <1>2, <2>1, <2>2
<1> QED BY <1>2, <1>4, <1>5, <1>6

\* Whatever the pod knows of the staff, it takes the side of the customer.
LEMMA OtherSide ==
    ASSUME NEW c \in Calls, NEW known \in SUBSET Staff
    PROVE  PickCustomerSide(c, known) = OtherParty(c)
<1>1. CASE Direction[c] = "inbound"
  <2>1. OtherParty(c) = Caller[c]
    BY <1>1, PartyConstants DEF OtherParty
  <2> QED BY <1>1, <2>1, PartyConstants DEF PickCustomerSide
<1>2. CASE Direction[c] # "inbound"
  <2>1. OtherParty(c) = Callee[c]
    BY <1>2, PartyConstants DEF OtherParty
  <2> QED BY <1>2, <2>1, PartyConstants DEF PickCustomerSide
<1> QED BY <1>1, <1>2

\* The customer that is found has the number at the other end of the call, or its twin.
LEMMA Matched ==
    ASSUME NEW c \in Calls, NEW known \in SUBSET Staff, customers \subseteq Customers,
           NEW k \in MatchCustomer(PickCustomerSide(c, known))
    PROVE  k \in Customers /\ Found(OtherParty(c), Phone[k])
<1> DEFINE n == OtherParty(c)
<1>1. PickCustomerSide(c, known) = n /\ n \in {Caller[c], Callee[c]}
  <2>1. n \in {Caller[c], Callee[c]}
    BY PartyConstants DEF OtherParty
  <2> QED BY <2>1, OtherSide
<1>2. n \in Number /\ (InJapan(n) => JapaneseNumber(n))
  BY <1>1, CallConstants, PartyConstants
<1> HIDE DEF n
<1>3. k \in FindCustomersByPhoneDigits(PhoneToDigits(n))
  BY <1>1 DEF MatchCustomer
<1>4. k \in customers /\ PhoneToDigits(Local(Phone[k])) = PhoneToDigits(n)
  BY <1>3 DEF FindCustomersByPhoneDigits
<1>5. k \in Customers /\ Phone[k] \in Number /\ (InJapan(Phone[k]) => JapaneseNumber(Phone[k]))
  BY <1>4, CallConstants, PartyConstants
<1>6. CASE InJapan(n) /\ InJapan(Phone[k])
  BY <1>2, <1>4, <1>5, <1>6, SameNumber DEF Found, n
<1>7. CASE ~(InJapan(n) /\ InJapan(Phone[k]))
  BY <1>4, <1>5, <1>7 DEF Found, Twins, n
<1> QED BY <1>6, <1>7

-----------------------------------------------------------------------------
(* Workers. *)

\* A job stays a job, field by field.
LEMMA JobTypes ==
    /\ Idle \in Job
    /\ \A j \in Job, a \in {"idle", "lookup", "match", "insert", "find", "archive", "link", "logs", "recs"} :
         [j EXCEPT !.at = a] \in Job
    /\ \A j \in Job, c \in Calls \cup {None} : [j EXCEPT !.call = c] \in Job
    /\ \A j \in Job, p \in Parts \cup {0} : [j EXCEPT !.part = p] \in Job
    /\ \A j \in Job, k \in Customers \cup {None} : [j EXCEPT !.match = k] \in Job
    /\ \A j \in Job, l \in SUBSET Calls : [j EXCEPT !.logs = l] \in Job
    /\ \A j \in Job, r \in SUBSET (Calls \X Parts) : [j EXCEPT !.recs = r] \in Job
BY DEF Job, Idle

\* What Zoom had ready stays ready, and what is archived stays archived.
Grows ==
    /\ \A c \in Calls : ready[c] \subseteq ready'[c]
    /\ \A c \in Calls : store[c] # 0 => store'[c] # 0

\* What a worker knows stays true.
LEMMA KnowsStays ==
    ASSUME TypeOK, Grows, NEW j \in Job, Knows(j)
    PROVE  Knows(j)'
<1>1. \A cp \in j.recs : cp[1] \in Calls
  BY DEF Job
<1>2. AtCall(j) => j.call \in Calls
  BY DEF Knows
<1>3. j.at \in {"find", "archive", "link"} => AtCall(j)
  BY DEF AtCall
<1>4. j.at \in {"find", "archive", "link"} => j.part \in ready'[j.call]
  BY <1>2, <1>3 DEF Knows, Grows
<1>5. j.at = "link" => store'[j.call] # 0
  BY <1>2, <1>3 DEF Knows, Grows
<1>6. \A cp \in j.recs : cp[2] \in ready'[cp[1]]
  BY <1>1 DEF Knows, Grows
<1> QED BY <1>2, <1>4, <1>5, <1>6 DEF Knows

\* One worker moves on, the others stay where they are.
LEMMA GoKeeps ==
    ASSUME ZoomInv, Grows, NEW w \in Workers, NEW j \in Job, Go(w, j), Knows(j)'
    PROVE  job' \in [Workers -> Job] /\ \A v \in Workers : Knows(job[v])'
<1>1. /\ job' \in [Workers -> Job] /\ job'[w] = j
      /\ \A v \in Workers \ {w} : job'[v] = job[v] /\ job[v] \in Job /\ Knows(job[v])
  BY DEF ZoomInv, TypeOK, Go
<1>2. TypeOK
  BY DEF ZoomInv
<1>3. ASSUME NEW v \in Workers PROVE Knows(job[v])'
  <2>1. CASE v = w
    BY <1>1, <2>1 DEF Knows, AtCall
  <2>2. CASE v # w
    <3>1. PICK i \in Job : i = job[v] /\ job'[v] = i /\ Knows(i)
      BY <1>1, <2>2
    <3>2. Knows(i)'
      BY <1>2, <3>1, KnowsStays
    <3> QED BY <3>1, <3>2 DEF Knows, AtCall
  <2> QED BY <2>1, <2>2
<1> QED BY <1>1, <1>3

\* A worker is done with its call.
LEMMA DoneKeeps ==
    ASSUME ZoomInv, Grows, NEW w \in Workers, Done(w)
    PROVE  job' \in [Workers -> Job] /\ \A v \in Workers : Knows(job[v])'
<1> DEFINE a == IF job[w].part = 0 THEN "logs" ELSE "recs"
           r == [[[[job[w] EXCEPT !.at = a] EXCEPT !.call = None] EXCEPT !.part = 0] EXCEPT !.match = None]
<1>1. job[w] \in Job /\ Knows(job[w]) /\ a \in {"logs", "recs"}
  BY DEF ZoomInv, TypeOK
<1>2. r \in Job
  <2>1. [job[w] EXCEPT !.at = a] \in Job
    BY <1>1, JobTypes
  <2>2. [[job[w] EXCEPT !.at = a] EXCEPT !.call = None] \in Job
    BY <2>1, JobTypes
  <2>3. [[[job[w] EXCEPT !.at = a] EXCEPT !.call = None] EXCEPT !.part = 0] \in Job
    BY <2>2, JobTypes
  <2> QED BY <2>3, JobTypes
<1>3. r.at = a /\ r.recs = job[w].recs
  BY <1>1 DEF Job
<1>4. Go(w, IF w \in Handlers THEN Idle ELSE r)
  <2>1. r = [job[w] EXCEPT !.at = IF job[w].part = 0 THEN "logs" ELSE "recs",
                           !.call = None, !.part = 0, !.match = None]
    BY <1>1 DEF Job
  <2> QED BY <2>1, Zenon DEF Done
<1> HIDE DEF r, a
<1>5. PICK j \in Job : j = (IF w \in Handlers THEN Idle ELSE r)
  BY <1>2, JobTypes
<1>6. j.at \in {"idle", "logs", "recs"} /\ j.recs \in {{}, job[w].recs}
  BY <1>1, <1>3, <1>5 DEF Idle
<1>7. TypeOK /\ \A cp \in job[w].recs : cp[2] \in ready'[cp[1]]
  <2>1. \A cp \in job[w].recs : cp[1] \in Calls /\ cp[2] \in ready[cp[1]]
    BY <1>1 DEF Job, Knows
  <2> QED BY <2>1 DEF Grows, ZoomInv
<1>8. Knows(j)'
  BY <1>6, <1>7 DEF Knows, AtCall
<1> QED BY <1>4, <1>5, <1>8, GoKeeps

-----------------------------------------------------------------------------
(* Steps. *)

\* What is said of rows and objects, when only more recordings become ready.
LEMMA RowsStay ==
    ASSUME ZoomInv, UNCHANGED <<rows, store>>, \A c \in Calls : ready[c] \subseteq ready'[c]
    PROVE  /\ Grows /\ Archived' /\ FiledOnceAndRight' /\ rows' \subseteq Row
           /\ \A r \in rows' : r.recording => store'[r.call] # 0
<1>1. Grows /\ Archived'
  BY DEF ZoomInv, Grows, Archived
<1>2. FiledOnceAndRight' /\ rows' \subseteq Row /\ \A r \in rows' : r.recording => store'[r.call] # 0
  BY DEF ZoomInv, TypeOK, FiledOnceAndRight, OtherParty
<1> QED BY <1>1, <1>2

\* The steps that file nothing and archive nothing.
LEMMA Looking ==
    ASSUME ZoomInv, NEW w \in Workers, Lookup(w) \/ Match(w) \/ Find(w)
    PROVE  ZoomInv'
<1>0. TypeOK /\ job[w] \in Job /\ Knows(job[w])
  BY DEF ZoomInv, TypeOK
<1>1. UNCHANGED <<mode, customers, rows, store, age, ready, ticked, deliveries>> /\ faults' \in 0..MaxFaults
  <2>1. CASE Lookup(w)
    BY <1>0, <2>1, CallConstants DEF Lookup, Fault, TypeOK
  <2>2. CASE Match(w)
    <3>1. UNCHANGED <<mode, customers, rows, store, age, ready, ticked, deliveries>> /\ (faults' = faults \/ Fault)
      BY <2>2 DEF Match
    <3> QED BY <1>0, <3>1, CallConstants DEF Fault, TypeOK
  <2>3. CASE Find(w)
    BY <1>0, <2>3, CallConstants DEF Find, Fault, TypeOK
  <2> QED BY <2>1, <2>2, <2>3
<1>2. /\ Grows /\ Archived' /\ FiledOnceAndRight' /\ rows' \subseteq Row
      /\ \A r \in rows' : r.recording => store'[r.call] # 0
  BY <1>1, RowsStay
<1>d. Done(w) => job' \in [Workers -> Job] /\ \A v \in Workers : Knows(job[v])'
  BY <1>2, DoneKeeps
<1>3. job' \in [Workers -> Job] /\ \A v \in Workers : Knows(job[v])'
  <2>1. CASE Lookup(w)
    <3>1. job[w].at = "lookup" /\ (Done(w) \/ Go(w, [job[w] EXCEPT !.at = "match"]))
      BY <2>1 DEF Lookup
    <3>2. CASE Go(w, [job[w] EXCEPT !.at = "match"])
      <4>1. PICK j \in Job : j = [job[w] EXCEPT !.at = "match"]
        BY <1>0, JobTypes
      <4>2. j.at = "match" /\ j.call = job[w].call /\ j.recs = job[w].recs
        BY <1>0, <4>1 DEF Job
      <4>3. Knows(j)'
        BY <1>0, <1>1, <3>1, <4>2 DEF Knows, AtCall
      <4> QED BY <1>2, <3>2, <4>1, <4>3, GoKeeps
    <3> QED BY <1>d, <3>1, <3>2
  <2>2. CASE Match(w)
    <3>1. \/ Done(w)
          \/ \E known \in SUBSET Staff : \E k \in MatchCustomer(PickCustomerSide(job[w].call, known)) :
                Go(w, [job[w] EXCEPT !.at = "insert", !.match = k])
      BY <2>2 DEF Match
    <3>2. ASSUME NEW known \in SUBSET Staff, NEW k \in MatchCustomer(PickCustomerSide(job[w].call, known)),
                 Go(w, [job[w] EXCEPT !.at = "insert", !.match = k])
          PROVE  job' \in [Workers -> Job] /\ \A v \in Workers : Knows(job[v])'
      <4>1. job[w].call \in Calls
        BY <1>0, <2>2 DEF Match, Knows, AtCall
      <4>2. k \in Customers /\ Found(OtherParty(job[w].call), Phone[k])
        BY <1>0, <4>1, Matched DEF TypeOK
      <4>3. [[job[w] EXCEPT !.at = "insert"] EXCEPT !.match = k] \in Job
        <5>1. [job[w] EXCEPT !.at = "insert"] \in Job
          BY <1>0, JobTypes
        <5> QED BY <4>2, <5>1, JobTypes
      <4>4. [job[w] EXCEPT !.at = "insert", !.match = k] = [[job[w] EXCEPT !.at = "insert"] EXCEPT !.match = k]
        BY <1>0 DEF Job
      <4>5. PICK j \in Job : j = [job[w] EXCEPT !.at = "insert", !.match = k]
        BY <4>3, <4>4
      <4>6. j.at = "insert" /\ j.call = job[w].call /\ j.recs = job[w].recs /\ j.match = k
        BY <1>0, <4>5 DEF Job
      <4>7. Knows(j)'
        BY <1>0, <1>1, <4>1, <4>2, <4>6 DEF Knows, AtCall, OtherParty
      <4> QED BY <1>2, <3>2, <4>5, <4>7, GoKeeps
    <3> QED BY <1>d, <3>1, <3>2
  <2>3. CASE Find(w)
    <3>1. job[w].at = "find" /\ (Done(w) \/ Go(w, [job[w] EXCEPT !.at = "archive"]))
      BY <2>3 DEF Find
    <3>2. CASE Go(w, [job[w] EXCEPT !.at = "archive"])
      <4>1. PICK j \in Job : j = [job[w] EXCEPT !.at = "archive"]
        BY <1>0, JobTypes
      <4>2. j.at = "archive" /\ j.call = job[w].call /\ j.recs = job[w].recs /\ j.part = job[w].part
        BY <1>0, <4>1 DEF Job
      <4>3. Knows(j)'
        BY <1>0, <1>1, <3>1, <4>2 DEF Knows, AtCall
      <4> QED BY <1>2, <3>2, <4>1, <4>3, GoKeeps
    <3> QED BY <1>d, <3>1, <3>2
  <2> QED BY <2>1, <2>2, <2>3
<1>4. TypeOK'
  BY <1>0, <1>1, <1>2, <1>3 DEF TypeOK
<1> QED BY <1>2, <1>3, <1>4 DEF ZoomInv

\* A row is filed, unless the call has one.
LEMMA Filing == ASSUME ZoomInv, NEW w \in Workers, Insert(w) PROVE ZoomInv'
<1>0. TypeOK /\ job[w] \in Job /\ Knows(job[w]) /\ job[w].at = "insert"
  BY DEF ZoomInv, TypeOK, Insert
<1>1. UNCHANGED <<mode, customers, store, age, ready, ticked, deliveries>> /\ faults' \in 0..MaxFaults
      /\ Done(w)
  BY <1>0, CallConstants DEF Insert, Fault, TypeOK
<1>2. Grows /\ Archived'
  BY <1>1 DEF Grows, ZoomInv, Archived
<1>3. job' \in [Workers -> Job] /\ \A v \in Workers : Knows(job[v])'
  BY <1>1, <1>2, DoneKeeps
<1>4. rows' \subseteq Row /\ FiledOnceAndRight' /\ \A r \in rows' : r.recording => store'[r.call] # 0
  <2>1. CASE rows' = rows
    BY <1>1, <2>1, RowsStay
  <2>2. CASE /\ GetActivityByZoomCallID(job[w].call) = {}
             /\ rows' = rows \cup {[call |-> job[w].call, customer |-> job[w].match, by |-> w,
                                    recording |-> FALSE]}
    <3> DEFINE c == job[w].call
               k == job[w].match
               new == [call |-> c, customer |-> k, by |-> w, recording |-> FALSE]
    <3>1. c \in Calls /\ k \in Customers /\ Found(OtherParty(c), Phone[k])
      BY <1>0 DEF Knows, AtCall
    <3>2. new \in Row /\ new.call = c /\ new.customer = k /\ ~new.recording
      BY <3>1 DEF Row
    <3>3. \A r \in rows : r.call # c
      BY <2>2 DEF GetActivityByZoomCallID
    <3>4. rows' = rows \cup {new}
      BY <2>2
    <3> HIDE DEF new, c, k
    <3>5. rows' \subseteq Row
      BY <1>0, <3>2, <3>4 DEF TypeOK
    <3>6. FiledOnceAndRight'
      <4>1. \A r, s \in rows' : r.call = s.call => r = s
        BY <3>2, <3>3, <3>4 DEF ZoomInv, FiledOnceAndRight
      <4>2. \A r \in rows' : Found(OtherParty(r.call), Phone[r.customer])
        BY <3>1, <3>2, <3>4 DEF ZoomInv, FiledOnceAndRight
      <4> QED BY <4>1, <4>2 DEF FiledOnceAndRight, OtherParty
    <3>7. \A r \in rows' : r.recording => store'[r.call] # 0
      BY <1>1, <3>2, <3>4 DEF ZoomInv
    <3> QED BY <3>5, <3>6, <3>7
  <2> QED BY <2>1, <2>2 DEF Insert, CreateActivity
<1>5. TypeOK'
  BY <1>0, <1>1, <1>3, <1>4 DEF TypeOK
<1> QED BY <1>2, <1>3, <1>4, <1>5 DEF ZoomInv

\* A recording goes to S3: whichever it is, Zoom had it ready.
LEMMA Archiving == ASSUME ZoomInv, NEW w \in Workers, Archive(w) PROVE ZoomInv'
<1> DEFINE c == job[w].call
           p == job[w].part
<1>0. TypeOK /\ job[w] \in Job /\ Knows(job[w]) /\ job[w].at = "archive"
  BY DEF ZoomInv, TypeOK, Archive
<1>1. UNCHANGED <<mode, customers, rows, age, ready, ticked, deliveries>> /\ faults' \in 0..MaxFaults
  BY <1>0, CallConstants DEF Archive, Fault, TypeOK
<1>2. c \in Calls /\ p \in ready[c] /\ p \in Parts /\ p # 0
  <2>1. c \in Calls /\ p \in ready[c]
    BY <1>0 DEF Knows, AtCall
  <2>2. ready[c] \in SUBSET Parts
    BY <1>0, <2>1 DEF TypeOK
  <2> QED BY <2>1, <2>2, CallConstants
<1>3. CASE store' = store /\ Done(w)
  <2>1. /\ Grows /\ Archived' /\ FiledOnceAndRight' /\ rows' \subseteq Row
        /\ \A r \in rows' : r.recording => store'[r.call] # 0
    BY <1>1, <1>3, RowsStay
  <2>2. job' \in [Workers -> Job] /\ \A v \in Workers : Knows(job[v])'
    BY <1>3, <2>1, DoneKeeps
  <2>3. TypeOK'
    BY <1>0, <1>1, <1>3, <2>1, <2>2 DEF TypeOK
  <2> QED BY <2>1, <2>2, <2>3 DEF ZoomInv
<1>4. CASE store' = [store EXCEPT ![c] = p] /\ Go(w, [job[w] EXCEPT !.at = "link"])
  <2> HIDE DEF c, p
  <2>1. /\ store' \in [Calls -> Parts \cup {0}] /\ store'[c] = p
        /\ \A d \in Calls \ {c} : store'[d] = store[d]
    BY <1>0, <1>2, <1>4 DEF TypeOK
  <2>2. Grows
    BY <1>1, <1>2, <2>1 DEF Grows
  <2>3. Archived'
    BY <1>1, <1>2, <2>1 DEF ZoomInv, Archived
  <2>4. FiledOnceAndRight'
    BY <1>1 DEF ZoomInv, FiledOnceAndRight, OtherParty
  <2>5. \A r \in rows' : r.recording => store'[r.call] # 0
    <3>1. \A r \in rows : r.call \in Calls /\ (r.recording => store[r.call] # 0)
      BY DEF ZoomInv, TypeOK, Row
    <3> QED BY <1>1, <1>2, <2>1, <3>1
  <2>6. PICK j \in Job : j = [job[w] EXCEPT !.at = "link"]
    BY <1>0, JobTypes
  <2>7. j.at = "link" /\ j.call = c /\ j.recs = job[w].recs /\ j.part = p
    BY <1>0, <2>6 DEF Job, c, p
  <2>8. Knows(j)'
    BY <1>0, <1>1, <1>2, <2>1, <2>7 DEF Knows, AtCall
  <2>9. job' \in [Workers -> Job] /\ \A v \in Workers : Knows(job[v])'
    BY <1>4, <2>2, <2>6, <2>8, GoKeeps
  <2>10. TypeOK'
    BY <1>0, <1>1, <2>1, <2>9 DEF TypeOK
  <2> QED BY <2>3, <2>4, <2>5, <2>9, <2>10 DEF ZoomInv
<1> QED BY <1>3, <1>4 DEF Archive

\* The row is told of it.
LEMMA Linking == ASSUME ZoomInv, NEW w \in Workers, Link(w) PROVE ZoomInv'
<1> DEFINE c == job[w].call
           f(r) == IF r.call = c THEN [r EXCEPT !.recording = TRUE] ELSE r
<1>0. TypeOK /\ job[w] \in Job /\ Knows(job[w]) /\ job[w].at = "link"
  BY DEF ZoomInv, TypeOK, Link
<1>1. UNCHANGED <<mode, customers, store, age, ready, ticked, deliveries>> /\ faults' \in 0..MaxFaults
      /\ Done(w)
  BY <1>0, CallConstants DEF Link, Fault, TypeOK
<1>2. Grows /\ Archived'
  BY <1>1 DEF Grows, ZoomInv, Archived
<1>3. job' \in [Workers -> Job] /\ \A v \in Workers : Knows(job[v])'
  BY <1>1, <1>2, DoneKeeps
<1>4. rows' \subseteq Row /\ FiledOnceAndRight' /\ \A r \in rows' : r.recording => store'[r.call] # 0
  <2>1. CASE rows' = rows
    BY <1>1, <2>1, RowsStay
  <2>2. CASE rows' = {f(r) : r \in rows}
    <3>1. c \in Calls /\ store[c] # 0
      BY <1>0 DEF Knows, AtCall
    <3>2. \A r \in rows : /\ f(r) \in Row /\ f(r).call = r.call /\ f(r).customer = r.customer
                          /\ f(r).recording => r.recording \/ r.call = c
      BY <1>0 DEF TypeOK, Row
    <3> HIDE DEF f, c
    <3>3. rows' \subseteq Row
      BY <2>2, <3>2
    <3>4. FiledOnceAndRight'
      <4>1. \A r, s \in rows' : r.call = s.call => r = s
        BY <2>2, <3>2 DEF ZoomInv, FiledOnceAndRight
      <4>2. \A r \in rows' : Found(OtherParty(r.call), Phone[r.customer])
        BY <2>2, <3>2 DEF ZoomInv, FiledOnceAndRight
      <4> QED BY <4>1, <4>2 DEF FiledOnceAndRight, OtherParty
    <3>5. \A r \in rows' : r.recording => store'[r.call] # 0
      BY <1>1, <2>2, <3>1, <3>2 DEF ZoomInv
    <3> QED BY <3>3, <3>4, <3>5
  <2> QED BY <2>1, <2>2 DEF Link, UpdateActivityRecordingURL
<1>5. TypeOK'
  BY <1>0, <1>1, <1>3, <1>4 DEF TypeOK
<1> QED BY <1>2, <1>3, <1>4, <1>5 DEF ZoomInv

\* A job the environment or the list of the pod hands to a worker that is not at
\* a call, or its end.
LEMMA Handed ==
    ASSUME ZoomInv, UNCHANGED <<mode, customers, rows, store, age, ready>>,
           ticked' \subseteq Pods, deliveries' \in 0..MaxDeliveries, faults' \in 0..MaxFaults,
           NEW w \in Workers, NEW j \in Job, Go(w, j), Knows(j)
    PROVE  ZoomInv'
<1>0. TypeOK
  BY DEF ZoomInv
<1>2. /\ Grows /\ Archived' /\ FiledOnceAndRight' /\ rows' \subseteq Row
      /\ \A r \in rows' : r.recording => store'[r.call] # 0
  BY RowsStay
<1>3. Knows(j)'
  BY <1>0, <1>2, KnowsStays
<1>4. job' \in [Workers -> Job] /\ \A v \in Workers : Knows(job[v])'
  BY <1>2, <1>3, GoKeeps
<1>5. TypeOK'
  BY <1>0, <1>2, <1>4 DEF TypeOK
<1> QED BY <1>2, <1>4, <1>5 DEF ZoomInv

\* A step that leaves the workers alone.
LEMMA Around ==
    ASSUME ZoomInv, UNCHANGED <<rows, store, job>>, TypeOK',
           \A c \in Calls : ready[c] \subseteq ready'[c]
    PROVE  ZoomInv'
<1>0. TypeOK /\ \A w \in Workers : job[w] \in Job /\ Knows(job[w])
  BY DEF ZoomInv, TypeOK
<1>2. /\ Grows /\ Archived' /\ FiledOnceAndRight' /\ rows' \subseteq Row
      /\ \A r \in rows' : r.recording => store'[r.call] # 0
  BY RowsStay
<1>3. ASSUME NEW v \in Workers PROVE Knows(job[v])'
  <2>1. PICK i \in Job : i = job[v] /\ Knows(i)
    BY <1>0
  <2>2. Knows(i)'
    BY <1>0, <1>2, <2>1, KnowsStays
  <2> QED BY <2>1, <2>2 DEF Knows, AtCall
<1> QED BY <1>2, <1>3 DEF ZoomInv

LEMMA WorkerSteps == ASSUME ZoomInv, NEW w \in Workers, WorkerStep(w) PROVE ZoomInv'
BY Looking, Filing, Archiving, Linking DEF WorkerStep

\* The webhook.
LEMMA Deliveries ==
    ASSUME ZoomInv, NEW h \in Handlers, NEW c \in Calls,
           HandleCallEnded(h, c) \/ \E p \in Parts : HandleRecordingCompleted(h, c, p)
    PROVE  ZoomInv'
<1>0. h \in Workers /\ TypeOK
  BY DEF Workers, ZoomInv
<1>1. CASE HandleCallEnded(h, c)
  <2> DEFINE j == [Idle EXCEPT !.at = "lookup", !.call = c]
  <2>1. j \in Job /\ Knows(j)
    BY DEF Idle, Job, Knows, AtCall
  <2>2. /\ Go(h, j) /\ UNCHANGED <<mode, customers, rows, store, age, ready>>
        /\ ticked' \subseteq Pods /\ deliveries' \in 0..MaxDeliveries /\ faults' \in 0..MaxFaults
    BY <1>0, <1>1, CallConstants DEF HandleCallEnded, Deliver, TypeOK
  <2> HIDE DEF j
  <2> QED BY <1>0, <2>1, <2>2, Handed
<1>2. ASSUME NEW p \in Parts, HandleRecordingCompleted(h, c, p) PROVE ZoomInv'
  <2> DEFINE j == [Idle EXCEPT !.at = "find", !.call = c, !.part = p]
  <2>1. j \in Job /\ Knows(j)
    BY <1>2 DEF Idle, Job, Knows, AtCall, HandleRecordingCompleted
  <2>2. /\ Go(h, j) /\ UNCHANGED <<mode, customers, rows, store, age, ready>>
        /\ ticked' \subseteq Pods /\ deliveries' \in 0..MaxDeliveries /\ faults' \in 0..MaxFaults
    <3>1. /\ Go(h, j) /\ UNCHANGED <<mode, customers, rows, store, age, ready, ticked, faults>>
          /\ deliveries < MaxDeliveries /\ deliveries' = deliveries + 1
      BY <1>2 DEF HandleRecordingCompleted, Deliver
    <3> HIDE DEF j
    <3> QED BY <1>0, <3>1, CallConstants DEF TypeOK
  <2> HIDE DEF j
  <2> QED BY <1>0, <2>1, <2>2, Handed
<1> QED BY <1>1, <1>2

\* The reconciliation.
LEMMA Reconciling == ASSUME ZoomInv, NEW p \in Pods, PodStep(p) PROVE ZoomInv'
<1>0. p \in Workers /\ TypeOK /\ job[p] \in Job /\ Knows(job[p])
  BY DEF Workers, ZoomInv, TypeOK
<1>i. Idle \in Job /\ Knows(Idle)
  BY JobTypes DEF Idle, Knows, AtCall
<1>1. CASE Tick(p)
  <2>1. /\ UNCHANGED <<mode, customers, rows, store, age, ready>>
        /\ ticked' \subseteq Pods /\ deliveries' \in 0..MaxDeliveries /\ faults' \in 0..MaxFaults
    BY <1>0, <1>1, CallConstants DEF Tick, Fault, TypeOK
  <2>2. job' = job \/ Go(p, [Idle EXCEPT !.at = "logs", !.logs = Listed])
    BY <1>1 DEF Tick
  <2>3. CASE job' = job
    <3>1. TypeOK'
      BY <1>0, <2>1, <2>3 DEF TypeOK
    <3> QED BY <2>1, <2>3, <3>1, Around
  <2>4. CASE Go(p, [Idle EXCEPT !.at = "logs", !.logs = Listed])
    <3> DEFINE j == [Idle EXCEPT !.at = "logs", !.logs = Listed]
    <3>1. j \in Job /\ Knows(j)
      BY DEF Idle, Job, Knows, AtCall, Listed
    <3> HIDE DEF j
    <3>2. Go(p, j)
      BY <2>4 DEF j
    <3> QED BY <1>0, <2>1, <3>1, <3>2, Handed
  <2> QED BY <2>2, <2>3, <2>4
<1>2. CASE NextLog(p)
  <2>1. PICK c \in job[p].logs : Go(p, [job[p] EXCEPT !.at = "lookup", !.call = c, !.logs = job[p].logs \ {c}])
    BY <1>2 DEF NextLog
  <2> DEFINE j == [job[p] EXCEPT !.at = "lookup", !.call = c, !.logs = job[p].logs \ {c}]
  <2>2. j \in Job
    <3>1. c \in Calls /\ job[p].logs \ {c} \in SUBSET Calls
      BY <1>0, <2>1 DEF Job
    <3>2. j = [[[job[p] EXCEPT !.at = "lookup"] EXCEPT !.call = c] EXCEPT !.logs = job[p].logs \ {c}]
      BY <1>0 DEF Job
    <3>3. [job[p] EXCEPT !.at = "lookup"] \in Job
      BY <1>0, JobTypes
    <3>4. [[job[p] EXCEPT !.at = "lookup"] EXCEPT !.call = c] \in Job
      BY <3>1, <3>3, JobTypes
    <3> HIDE DEF j
    <3> QED BY <3>1, <3>2, <3>4, JobTypes
  <2>3. Knows(j)
    <3>1. j.at = "lookup" /\ j.call = c /\ j.recs = job[p].recs /\ c \in Calls
      BY <1>0, <2>1 DEF Job
    <3> HIDE DEF j
    <3> QED BY <1>0, <3>1 DEF Knows, AtCall
  <2>4. /\ Go(p, j) /\ UNCHANGED <<mode, customers, rows, store, age, ready>>
        /\ ticked' \subseteq Pods /\ deliveries' \in 0..MaxDeliveries /\ faults' \in 0..MaxFaults
    BY <1>0, <1>2, <2>1, CallConstants DEF NextLog, TypeOK
  <2> HIDE DEF j
  <2> QED BY <1>0, <2>2, <2>3, <2>4, Handed
<1>3. CASE ListRecordings(p)
  <2>1. /\ UNCHANGED <<mode, customers, rows, store, age, ready>>
        /\ ticked' \subseteq Pods /\ deliveries' \in 0..MaxDeliveries /\ faults' \in 0..MaxFaults
    BY <1>0, <1>3, CallConstants DEF ListRecordings, Fault, TypeOK
  <2> DEFINE recs == {cp \in Listed \X Parts : cp[2] \in ready[cp[1]]}
             j == [Idle EXCEPT !.at = "recs", !.recs = recs]
  <2>2. Go(p, Idle) \/ Go(p, j)
    BY <1>3 DEF ListRecordings
  <2>3. recs \in SUBSET (Calls \X Parts) /\ \A cp \in recs : cp[2] \in ready[cp[1]]
    BY DEF Listed
  <2> HIDE DEF recs
  <2>4. j \in Job /\ Knows(j)
    BY <2>3 DEF Idle, Job, Knows, AtCall
  <2> HIDE DEF j
  <2> QED BY <1>0, <1>i, <2>1, <2>2, <2>4, Handed
<1>4. CASE NextRecording(p)
  <2>1. PICK cp \in job[p].recs :
           Go(p, [job[p] EXCEPT !.at = "find", !.call = cp[1], !.part = cp[2], !.recs = job[p].recs \ {cp}])
    BY <1>4 DEF NextRecording
  <2> DEFINE j == [job[p] EXCEPT !.at = "find", !.call = cp[1], !.part = cp[2], !.recs = job[p].recs \ {cp}]
  <2>0. cp[1] \in Calls /\ cp[2] \in Parts /\ cp[2] \in ready[cp[1]] /\ job[p].recs \ {cp} \in SUBSET (Calls \X Parts)
    BY <1>0, <2>1 DEF Job, Knows
  <2>2. j \in Job
    <3>2. j = [[[[job[p] EXCEPT !.at = "find"] EXCEPT !.call = cp[1]] EXCEPT !.part = cp[2]]
                 EXCEPT !.recs = job[p].recs \ {cp}]
      BY <1>0 DEF Job
    <3>3. [job[p] EXCEPT !.at = "find"] \in Job
      BY <1>0, JobTypes
    <3>4. [[job[p] EXCEPT !.at = "find"] EXCEPT !.call = cp[1]] \in Job
      BY <2>0, <3>3, JobTypes
    <3>5. [[[job[p] EXCEPT !.at = "find"] EXCEPT !.call = cp[1]] EXCEPT !.part = cp[2]] \in Job
      BY <2>0, <3>4, JobTypes
    <3> HIDE DEF j
    <3> QED BY <2>0, <3>2, <3>5, JobTypes
  <2>3. Knows(j)
    <3>1. j.at = "find" /\ j.call = cp[1] /\ j.part = cp[2] /\ j.recs = job[p].recs \ {cp}
      BY <1>0, <2>1 DEF Job
    <3> HIDE DEF j
    <3> QED BY <1>0, <2>0, <3>1 DEF Knows, AtCall
  <2>4. /\ Go(p, j) /\ UNCHANGED <<mode, customers, rows, store, age, ready>>
        /\ ticked' \subseteq Pods /\ deliveries' \in 0..MaxDeliveries /\ faults' \in 0..MaxFaults
    BY <1>0, <1>4, <2>1, CallConstants DEF NextRecording, TypeOK
  <2> HIDE DEF j
  <2> QED BY <1>0, <2>2, <2>3, <2>4, Handed
<1>5. CASE RunEnds(p)
  <2>1. /\ Go(p, Idle) /\ UNCHANGED <<mode, customers, rows, store, age, ready>>
        /\ ticked' \subseteq Pods /\ deliveries' \in 0..MaxDeliveries /\ faults' \in 0..MaxFaults
    BY <1>0, <1>5 DEF RunEnds, TypeOK
  <2> QED BY <1>0, <1>i, <2>1, Handed
<1>6. CASE WorkerStep(p)
  BY <1>0, <1>6, WorkerSteps
<1> QED BY <1>1, <1>2, <1>3, <1>4, <1>5, <1>6 DEF PodStep

LEMMA ZoomStep == ASSUME ZoomInv, [Next]_vars PROVE ZoomInv'
<1>0. TypeOK
  BY DEF ZoomInv
<1>1. ASSUME NEW p \in Pods, PodStep(p) PROVE ZoomInv'
  BY <1>1, Reconciling
<1>2. ASSUME NEW h \in Handlers, WorkerStep(h) PROVE ZoomInv'
  BY <1>2, WorkerSteps DEF Workers
<1>3. ASSUME NEW h \in Handlers, NEW c \in Calls,
             HandleCallEnded(h, c) \/ \E p \in Parts : HandleRecordingCompleted(h, c, p)
      PROVE  ZoomInv'
  BY <1>3, Deliveries
<1>4. ASSUME NEW c \in Calls, CallEnds(c) PROVE ZoomInv'
  <2>1. TypeOK' /\ UNCHANGED <<rows, store, job, ready>>
    BY <1>0, <1>4, CallConstants DEF CallEnds, TypeOK
  <2> QED BY <2>1, Around
<1>5. ASSUME NEW c \in Calls, NEW p \in Parts, RecordingReady(c, p) PROVE ZoomInv'
  <2>1. ready' = [ready EXCEPT ![c] = ready[c] \cup {p}]
        /\ UNCHANGED <<mode, customers, rows, store, age, job, ticked, deliveries, faults>>
    BY <1>5 DEF RecordingReady
  <2>2. ready' \in [Calls -> SUBSET Parts] /\ \A d \in Calls : ready[d] \subseteq ready'[d]
    BY <1>0, <2>1 DEF TypeOK
  <2>3. TypeOK'
    BY <1>0, <2>1, <2>2 DEF TypeOK
  <2> QED BY <2>1, <2>2, <2>3, Around
<1>6. ASSUME NEW k \in Customers, AddCustomer(k) PROVE ZoomInv'
  <2>1. TypeOK' /\ UNCHANGED <<rows, store, job, ready>>
    BY <1>0, <1>6 DEF AddCustomer, TypeOK
  <2> QED BY <2>1, Around
<1>7. ASSUME NEW w \in Workers, Crash(w) PROVE ZoomInv'
  <2>1. /\ Go(w, Idle) /\ UNCHANGED <<mode, customers, rows, store, age, ready>>
        /\ ticked' \subseteq Pods /\ deliveries' \in 0..MaxDeliveries /\ faults' \in 0..MaxFaults
    BY <1>0, <1>7, CallConstants DEF Crash, Fault, TypeOK
  <2>2. Idle \in Job /\ Knows(Idle)
    BY JobTypes DEF Idle, Knows, AtCall
  <2> QED BY <2>1, <2>2, Handed
<1>8. CASE HourPasses
  <2>1. UNCHANGED <<mode, customers, rows, store, ready, job, deliveries, faults>> /\ ticked' = {}
        /\ age' \in [Calls -> -1 .. Window + 1]
    BY <1>0, <1>8, CallConstants DEF HourPasses, TypeOK
  <2>2. TypeOK'
    BY <1>0, <2>1 DEF TypeOK
  <2> QED BY <2>1, <2>2, Around
<1>9. CASE UpdateCompanyCallLogMode
  <2>1. TypeOK' /\ UNCHANGED <<rows, store, job, ready>>
    BY <1>0, <1>9, CallConstants DEF UpdateCompanyCallLogMode, Fault, TypeOK
  <2> QED BY <2>1, Around
<1>10. CASE UNCHANGED vars
  <2>1. TypeOK' /\ UNCHANGED <<rows, store, job, ready>>
    BY <1>0, <1>10 DEF vars, TypeOK
  <2> QED BY <2>1, Around
<1> QED BY <1>1, <1>2, <1>3, <1>4, <1>5, <1>6, <1>7, <1>8, <1>9, <1>10 DEF Next

LEMMA ZoomInit == ASSUME Init PROVE ZoomInv
<1>1. TypeOK
  <2>1. /\ mode \in {"click", "zoom"} /\ customers \subseteq Customers /\ rows = {} /\ ticked = {}
        /\ store \in [Calls -> Parts \cup {0}] /\ ready \in [Calls -> SUBSET Parts]
    BY DEF Init
  <2>2. age \in [Calls -> -1 .. Window + 1] /\ deliveries \in 0..MaxDeliveries /\ faults \in 0..MaxFaults
    BY CallConstants DEF Init
  <2>3. job \in [Workers -> Job]
    BY JobTypes DEF Init
  <2> QED BY <2>1, <2>2, <2>3 DEF TypeOK
<1> QED BY <1>1 DEF Init, ZoomInv, Archived, Knows, AtCall, Idle, FiledOnceAndRight

\* Rows, objects and the jobs of handlers and pods keep their types in every
\* reachable state.
THEOREM ZoomCallsTyped == Spec => []TypeOK
<1>1. Init => ZoomInv
  BY ZoomInit
<1>2. ZoomInv /\ [Next]_vars => ZoomInv'
  BY ZoomStep
<1>3. ZoomInv => TypeOK
  BY DEF ZoomInv
<1> QED BY <1>1, <1>2, <1>3, PTL DEF Spec

\* FiledOnceAndRight holds in every reachable state: webhook and reconciliations
\* file a call once, and at the customer at its other end.
THEOREM CallsFiledOnceAndRight == Spec => []FiledOnceAndRight
<1>1. Init => ZoomInv
  BY ZoomInit
<1>2. ZoomInv /\ [Next]_vars => ZoomInv'
  BY ZoomStep
<1>3. ZoomInv => FiledOnceAndRight
  BY DEF ZoomInv
<1> QED BY <1>1, <1>2, <1>3, PTL DEF Spec

\* RecordingPlays holds in every reachable state: a row that offers a recording
\* has an object under its key in S3, and it is a recording of that call.
THEOREM RecordingsPlay == Spec => []RecordingPlays
<1>1. Init => ZoomInv
  BY ZoomInit
<1>2. ZoomInv /\ [Next]_vars => ZoomInv'
  BY ZoomStep
<1>3. ZoomInv => RecordingPlays
  <2>1. ASSUME ZoomInv PROVE \A r \in rows : r.call \in Calls
    BY <2>1 DEF ZoomInv, TypeOK, Row
  <2> QED BY <2>1 DEF ZoomInv, Archived, RecordingPlays
<1> QED BY <1>1, <1>2, <1>3, PTL DEF Spec
=============================================================================

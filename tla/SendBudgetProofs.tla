-------------------------- MODULE SendBudgetProofs ---------------------------
(***************************************************************************)
(* A mailbox stays within the budget the campaigns that share it allow,    *)
(* for any number of pods, campaigns, mailboxes and rows, any caps, and    *)
(* whatever becomes of the lock.                                           *)
(*                                                                         *)
(* The invariant is a ledger: what a mailbox mailed today is counted by    *)
(* CountSentSinceByMailbox, missed, or in the hands of a worker between    *)
(* the mail and its record; and what is counted, with the workers that     *)
(* picked the mailbox, exceeds the budget by less than there are workers,  *)
(* since the last of them to pick found room for one mail. Rows being sent *)
(* are left out of the count: what a claim takes from it is missed.        *)
(***************************************************************************)
EXTENDS SendBudget, FiniteSetTheorems, WellFoundedInduction, TLAPS

USE BudgetConstants

(* A nonempty set of numbers has a smallest one: the induction of this module. *)
LEMMA SmallestNat ==
    ASSUME NEW S \in SUBSET Nat, S # {}
    PROVE  \E n \in S : \A m \in S : n <= m
<1>1. PICK n \in S : \A m \in S : <<m, n>> \notin OpToRel(<, Nat)
  BY WFMin, NatLessThanWellFounded, Zenon
<1>2. \A m \in S : m \in Nat /\ n \in Nat /\ ~(m < n)
  BY <1>1, Zenon DEF OpToRel
<1>3. \A m \in S : n <= m
  BY <1>2
<1> QED BY <1>3

-----------------------------------------------------------------------------
(* The inductive invariant. *)
\* Workers that have picked m, those of them whose mail of the day d is not
\* recorded yet, and the rows CountSentSinceByMailbox counts for mails that were
\* sent: not those being sent, which it counts for the mail before.
Pending(m)    == {w \in Workers : job[w].mailbox = m}
Unrecorded(m, d) == {w \in Pending(m) : pc[w] = "mark" /\ job[w].day = d}
Counted(m, d) == {r \in Rows : rec[r].mailbox = m /\ rec[r].sent >= d /\ rec[r].status # "sending"}

\* A worker that sends has the row for itself, unless the row was deleted.
Handling(w) == pc[w] \in {"smtp", "mark"}

OwnRow(w) ==
    LET r == job[w].row
    IN  /\ Kept(r) => rec[r].status = "sending" /\ rec[r].mailbox = job[w].mailbox
        /\ \A v \in Workers : Handling(v) /\ job[v].row = r => v = w

RowsKept ==
    /\ \A w \in Workers : job[w].day <= Day(time) /\ (Handling(w) => OwnRow(w))
    /\ \A r \in Rows : rec[r].sent <= Day(time)

\* A mailbox was picked for a campaign that allows at least one mail.
Allowed(w) ==
    job[w].mailbox # None =>
        \E c \in Campaigns : /\ job[w].mailbox \in Pool[c] /\ StartedAt[c] <= tick[w]
                             /\ EffectiveCap(c, tick[w]) >= 1

Ticks ==
    \A w \in Workers : /\ tick[w] <= time
                       /\ \A c \in todo[w] : StartedAt[c] <= tick[w]
                       /\ Allowed(w)

\* What was mailed today is counted, missed, or in the hands of a worker; and
\* what is counted or picked is within the budget but for the other workers.
Accounted(m) ==
    mailed[m][Day(time)] <=
        Cardinality(Counted(m, Day(time))) + missed[m][Day(time)] + Cardinality(Unrecorded(m, Day(time)))

Covered(m) ==
    Cardinality(Counted(m, Day(time))) + Cardinality(Pending(m)) <= Budget(m, Day(time)) + Cardinality(Workers) - 1

NotYet == \A m \in Mailboxes, d \in Days : d > Day(time) => mailed[m][d] = 0

BudgetInv ==
    /\ TypeOK /\ RowsKept /\ Ticks /\ NotYet /\ BudgetBound
    /\ \A m \in Mailboxes : Accounted(m) /\ Covered(m)

\* Days hold two half days.
LEMMA Times == ASSUME NEW t \in 0..MaxTime
               PROVE  Day(t) \in Days /\ Day(t) \in Nat /\ t <= 2 * Day(t) + 1 /\ 2 * Day(t) <= t
BY DEF Day, Days

-----------------------------------------------------------------------------
(* The budget is a maximum: it exists since there are finitely many campaigns, and it grows
   from day to day. *)
\* A finite set of numbers has a greatest one: a smallest set without would have a
\* smaller one.
LEMMA MaxExists ==
    ASSUME NEW S \in SUBSET Nat, IsFiniteSet(S), S # {}
    PROVE  \E x \in S : \A y \in S : x >= y
<1> DEFINE Top(s) == \E x \in s : \A y \in s : x >= y
           T == {n \in Nat : \E s \in SUBSET Nat : IsFiniteSet(s) /\ s # {} /\ Cardinality(s) = n /\ ~Top(s)}
<1>1. T = {}
  <2> SUFFICES ASSUME T # {} PROVE FALSE
    OBVIOUS
  <2>1. PICK n \in T : \A k \in T : n <= k
    <3>1. T \in SUBSET Nat
      OBVIOUS
    <3> HIDE DEF T
    <3> QED BY <3>1, SmallestNat
  <2>2. PICK s \in SUBSET Nat : IsFiniteSet(s) /\ s # {} /\ Cardinality(s) = n /\ ~Top(s)
    OBVIOUS
  <2>3. PICK x \in s : TRUE
    BY <2>2
  <2>4. IsFiniteSet(s \ {x}) /\ Cardinality(s \ {x}) = n - 1
    BY <2>2, <2>3, FS_RemoveElement
  <2>5. n - 1 \notin T
    BY <2>1
  <2>6. n - 1 \in Nat
    BY <2>4, FS_CardinalityType
  <2>7. s \ {x} = {} \/ Top(s \ {x})
    BY <2>4, <2>5, <2>6
  <2>8. CASE s \ {x} = {}
    BY <2>2, <2>3, <2>8
  <2>9. CASE Top(s \ {x})
    <3>1. PICK y \in s \ {x} : \A z \in s \ {x} : y >= z
      BY <2>9
    <3>2. x \in Nat /\ y \in Nat /\ \A z \in s : z \in Nat
      BY <2>2
    <3>3. (x >= y /\ \A z \in s : x >= z) \/ (y >= x /\ \A z \in s : y >= z)
      BY <3>1, <3>2
    <3> QED BY <2>2, <3>3
  <2> QED BY <2>7, <2>8, <2>9
<1>2. Cardinality(S) \in Nat
  BY FS_CardinalityType
<1> QED BY <1>1, <1>2

\* Max of the community modules is that number.
LEMMA MaxIs ==
    ASSUME NEW S \in SUBSET Nat, IsFiniteSet(S), S # {}
    PROVE  Max(S) \in S /\ \A y \in S : y <= Max(S)
<1>1. \E x \in S : \A y \in S : x >= y
  BY MaxExists
<1>2. Max(S) \in S /\ \A y \in S : Max(S) >= y
  BY <1>1, Zenon DEF Max
<1> QED BY <1>2

\* effectiveCap grows with the hours since the start of the campaign.
LEMMA CapGrows ==
    ASSUME NEW c \in Campaigns, NEW t \in Nat, NEW u \in Nat, StartedAt[c] <= t, t <= u
    PROVE  /\ EffectiveCap(c, t) \in Nat
           /\ EffectiveCap(c, t) <= EffectiveCap(c, u)
<1> DEFINE a == (t - StartedAt[c]) \div 2
           b == (u - StartedAt[c]) \div 2
<1>1. StartedAt[c] \in Nat /\ Cap[c] \in Nat
  OBVIOUS
<1>2. a \in Nat /\ b \in Nat /\ a <= b
  BY <1>1
<1> HIDE DEF a, b
<1>3. \A k, i, j \in Nat : i <= j => k * i \in Nat /\ k * i <= k * j
  OBVIOUS
<1>4. WarmStep * a \in Nat /\ WarmStep * b \in Nat /\ WarmStep * a <= WarmStep * b
  BY <1>2, <1>3
<1> DEFINE x == WarmStep * a
           y == WarmStep * b
<1>5. x \in Nat /\ y \in Nat /\ x <= y
  BY <1>4
<1>6. /\ EffectiveCap(c, t) = (IF c \in Warm /\ WarmBase + x < Cap[c] THEN WarmBase + x ELSE Cap[c])
      /\ EffectiveCap(c, u) = (IF c \in Warm /\ WarmBase + y < Cap[c] THEN WarmBase + y ELSE Cap[c])
  BY DEF EffectiveCap, a, b
<1> HIDE DEF x, y
<1> QED BY <1>1, <1>5, <1>6

\* No campaign that was started allows more than the budget of the day.
LEMMA BudgetIsTop ==
    ASSUME NEW m \in Mailboxes, NEW d \in Nat
    PROVE  /\ Budget(m, d) \in Nat
           /\ \A c \in Campaigns, t \in Nat :
                m \in Pool[c] /\ StartedAt[c] <= t /\ t <= 2 * d + 1 => EffectiveCap(c, t) <= Budget(m, d)
<1> DEFINE C == {c \in Campaigns : m \in Pool[c] /\ StartedAt[c] <= 2 * d + 1}
           S == {0} \cup {EffectiveCap(c, 2 * d + 1) : c \in C}
<1>0. 2 * d + 1 \in Nat
  OBVIOUS
<1>1. \A c \in C : EffectiveCap(c, 2 * d + 1) \in Nat
  BY <1>0, CapGrows
<1>2. S \in SUBSET Nat /\ S # {}
  BY <1>1
<1>3. IsFiniteSet(S)
  <2>1. IsFiniteSet(C)
    BY FS_Subset
  <2>2. IsFiniteSet({EffectiveCap(c, 2 * d + 1) : c \in C})
    <3> DEFINE f == [c \in C |-> EffectiveCap(c, 2 * d + 1)]
    <3>1. f \in Surjection(C, {EffectiveCap(c, 2 * d + 1) : c \in C})
      BY DEF Surjection
    <3> QED BY <2>1, <3>1, FS_Surjection
  <2>3. IsFiniteSet({0})
    BY FS_Singleton
  <2> QED BY <2>2, <2>3, FS_Union
<1>4. Budget(m, d) = Max(S)
  BY DEF Budget
<1>5. Max(S) \in S /\ \A y \in S : y <= Max(S)
  <2> HIDE DEF S
  <2> QED BY <1>2, <1>3, MaxIs
<1>6. Budget(m, d) \in Nat
  BY <1>2, <1>4, <1>5
<1>7. ASSUME NEW c \in Campaigns, NEW t \in Nat, m \in Pool[c], StartedAt[c] <= t, t <= 2 * d + 1
      PROVE  EffectiveCap(c, t) <= Budget(m, d)
  <2>1. StartedAt[c] \in Nat
    OBVIOUS
  <2>2. c \in C
    BY <1>7, <2>1
  <2>3. EffectiveCap(c, 2 * d + 1) \in S
    BY <2>2
  <2>4. EffectiveCap(c, 2 * d + 1) <= Budget(m, d)
    BY <1>4, <1>5, <2>3
  <2>5. EffectiveCap(c, t) \in Nat /\ EffectiveCap(c, t) <= EffectiveCap(c, 2 * d + 1)
    BY <1>0, <1>7, CapGrows
  <2>6. EffectiveCap(c, 2 * d + 1) \in Nat
    BY <1>1, <2>2
  <2> QED BY <1>6, <2>4, <2>5, <2>6
<1> QED BY <1>6, <1>7

-----------------------------------------------------------------------------
(* Numbers of workers and rows. *)
\* The sets the ledger counts are finite, and some contain others.
LEMMA Finite ==
    ASSUME NEW m, NEW d
    PROVE  /\ IsFiniteSet(Counted(m, d)) /\ Cardinality(Counted(m, d)) \in Nat
           /\ IsFiniteSet(Pending(m)) /\ Cardinality(Pending(m)) \in Nat
           /\ IsFiniteSet(Unrecorded(m, d)) /\ Cardinality(Unrecorded(m, d)) \in Nat
           /\ Cardinality(Unrecorded(m, d)) <= Cardinality(Pending(m))
           /\ Cardinality(Pending(m)) <= Cardinality(Workers)
           /\ Cardinality(Workers) \in Nat /\ Cardinality(Workers) >= 1
<1>1. Counted(m, d) \in SUBSET Rows /\ Pending(m) \in SUBSET Workers /\ Unrecorded(m, d) \in SUBSET Pending(m)
  BY DEF Counted, Pending, Unrecorded
<1>2. IsFiniteSet(Pending(m)) /\ Cardinality(Pending(m)) <= Cardinality(Workers)
  BY <1>1, FS_Subset
<1>3. IsFiniteSet(Counted(m, d)) /\ IsFiniteSet(Unrecorded(m, d))
      /\ Cardinality(Unrecorded(m, d)) <= Cardinality(Pending(m))
  BY <1>1, <1>2, FS_Subset
<1>4. Cardinality(Workers) \in Nat /\ Cardinality(Workers) # 0
  BY FS_EmptySet, FS_CardinalityType
<1> QED BY <1>2, <1>3, <1>4, FS_CardinalityType

\* A step that touches no mailbox, day or state of these sets leaves them alone.
LEMMA SameNumbers ==
    ASSUME NEW m
    PROVE  /\ (\A w \in Workers : (job'[w].mailbox = m <=> job[w].mailbox = m)) => Pending(m)' = Pending(m)
           /\ \A d : (\A w \in Workers : (/\ job'[w].mailbox = m <=> job[w].mailbox = m
                                          /\ job[w].mailbox = m =>
                                               (pc'[w] = "mark" /\ job'[w].day = d <=> pc[w] = "mark" /\ job[w].day = d)))
                       => Unrecorded(m, d)' = Unrecorded(m, d)
           /\ \A d : (\A r \in Rows : (/\ rec'[r].mailbox = m /\ rec'[r].sent >= d /\ rec'[r].status # "sending"
                                       <=> rec[r].mailbox = m /\ rec[r].sent >= d /\ rec[r].status # "sending"))
                       => Counted(m, d)' = Counted(m, d)
BY DEF Pending, Unrecorded, Counted

\* A worker counts for the mailbox it has picked, and for the day of a mail it
\* has not recorded yet.
Its(w, m)     == IF job[w].mailbox = m THEN 1 ELSE 0
Held(w, m, d) == IF job[w].mailbox = m /\ pc[w] = "mark" /\ job[w].day = d THEN 1 ELSE 0

\* A worker is done with its row: it is pending no more.
LEMMA Leaves ==
    ASSUME TypeOK, NEW w \in Workers, job' = [job EXCEPT ![w] = NoJob],
           \A v \in Workers \ {w} : pc'[v] = pc[v],
           pc'[w] # "mark"
    PROVE  \A m \in Mailboxes, d \in Days :
             /\ Cardinality(Pending(m)') = Cardinality(Pending(m)) - Its(w, m)
             /\ Cardinality(Unrecorded(m, d)') = Cardinality(Unrecorded(m, d)) - Held(w, m, d)
<1> SUFFICES ASSUME NEW m \in Mailboxes, NEW d \in Days
             PROVE  /\ Cardinality(Pending(m)') = Cardinality(Pending(m)) - Its(w, m)
                    /\ Cardinality(Unrecorded(m, d)') = Cardinality(Unrecorded(m, d)) - Held(w, m, d)
  OBVIOUS
<1>1. job'[w].mailbox = None /\ \A v \in Workers \ {w} : job'[v] = job[v]
  BY DEF TypeOK, NoJob
<1>2. Pending(m)' = Pending(m) \ {w} /\ Unrecorded(m, d)' = Unrecorded(m, d) \ {w}
  BY <1>1 DEF Pending, Unrecorded
<1>3. /\ w \in Pending(m) <=> job[w].mailbox = m
      /\ w \in Unrecorded(m, d) <=> job[w].mailbox = m /\ pc[w] = "mark" /\ job[w].day = d
  BY DEF Pending, Unrecorded
<1>4. Cardinality(Pending(m) \ {w}) = IF w \in Pending(m) THEN Cardinality(Pending(m)) - 1 ELSE Cardinality(Pending(m))
  BY Finite, FS_RemoveElement
<1>5. Cardinality(Unrecorded(m, d) \ {w}) =
        IF w \in Unrecorded(m, d) THEN Cardinality(Unrecorded(m, d)) - 1 ELSE Cardinality(Unrecorded(m, d))
  BY Finite, FS_RemoveElement
<1> QED BY <1>2, <1>3, <1>4, <1>5, Finite DEF Its, Held

\* A row that was being sent is sent no more: it is counted from now on, if it
\* names a mailbox and a day that are.
LEMMA Counts ==
    ASSUME NEW r \in Rows, NEW d, rec[r].status = "sending", rec'[r].status # "sending",
           \A q \in Rows \ {r} : rec'[q] = rec[q]
    PROVE  \A m \in Mailboxes :
             Cardinality(Counted(m, d)') = Cardinality(Counted(m, d))
                                             + (IF rec'[r].mailbox = m /\ rec'[r].sent >= d THEN 1 ELSE 0)
<1> SUFFICES ASSUME NEW m \in Mailboxes
             PROVE  Cardinality(Counted(m, d)') = Cardinality(Counted(m, d))
                                             + (IF rec'[r].mailbox = m /\ rec'[r].sent >= d THEN 1 ELSE 0)
  OBVIOUS
<1>1. r \notin Counted(m, d)
  BY DEF Counted
<1>2. Counted(m, d)' = IF rec'[r].mailbox = m /\ rec'[r].sent >= d THEN Counted(m, d) \cup {r} ELSE Counted(m, d)
  BY <1>1 DEF Counted
<1>3. Cardinality(Counted(m, d) \cup {r}) = Cardinality(Counted(m, d)) + 1
  BY <1>1, Finite, FS_AddElement
<1> QED BY <1>2, <1>3, Finite

\* What the rows of R recorded of today, and record no longer, is missed.
LEMMA Forgotten ==
    ASSUME TypeOK, RowsKept, NEW R \in SUBSET Rows, Forget(R), NEW today \in Days, today = Day(time),
           \A q \in Rows \ R : rec'[q] = rec[q],
           \A q \in R : rec'[q].status = "sending" \/ rec'[q].mailbox \notin Mailboxes
    PROVE  \A m \in Mailboxes :
             /\ Cardinality(Counted(m, today)') <= Cardinality(Counted(m, today))
             /\ Cardinality(Counted(m, today)) <=
                  Cardinality(Counted(m, today)') + (missed'[m][today] - missed[m][today])
             /\ \A d \in Days : missed'[m][d] \in Nat /\ missed'[m][d] >= missed[m][d]
<1> TAKE m \in Mailboxes
<1> DEFINE F == {r \in R : rec[r].mailbox = m /\ rec[r].sent = Day(time) /\ rec[r].status # "sending"}
           C == Counted(m, today)
           N == Counted(m, today)'
<1>0. \A r \in Rows : rec[r].sent \in Int /\ rec[r].sent <= today
  <2>1. \A x \in Days \cup {Never} : x \in Int
    BY DEF Days, Never
  <2>2. \A r \in Rows : rec[r].sent \in Days \cup {Never}
    BY DEF TypeOK
  <2> QED BY <2>1, <2>2 DEF RowsKept
<1>d. today \in Int
  BY DEF Days
<1>1. N \subseteq C /\ C \subseteq N \cup F
  <2>1. N \subseteq C
    BY DEF Counted
  <2>2. ASSUME NEW q \in C PROVE q \in N \cup F
    <3>1. q \in Rows /\ rec[q].mailbox = m /\ rec[q].sent >= today /\ rec[q].status # "sending"
      BY <2>2 DEF Counted
    <3>2. CASE q \in R
      <4>1. rec[q].sent = Day(time)
        BY <1>0, <1>d, <3>1
      <4> QED BY <3>1, <3>2, <4>1
    <3>3. CASE q \notin R
      BY <3>1, <3>3 DEF Counted
    <3> QED BY <3>2, <3>3
  <2> QED BY <2>1, <2>2
<1>2. IsFiniteSet(F) /\ Cardinality(F) \in Nat
  <2>1. F \in SUBSET Rows
    OBVIOUS
  <2> QED BY <2>1, FS_Subset, FS_CardinalityType
<1>3. IsFiniteSet(C) /\ Cardinality(C) \in Nat
  BY Finite
<1>4. IsFiniteSet(N) /\ Cardinality(N) \in Nat /\ Cardinality(N) <= Cardinality(C)
  <2> HIDE DEF N, C
  <2> QED BY <1>1, <1>3, FS_Subset, FS_CardinalityType
<1>5. Cardinality(C) <= Cardinality(N) + Cardinality(F)
  <2> HIDE DEF N, C, F
  <2>1. IsFiniteSet(N \cup F) /\ Cardinality(N \cup F) = Cardinality(N) + Cardinality(F) - Cardinality(N \cap F)
    BY <1>2, <1>4, FS_Union
  <2>2. Cardinality(C) <= Cardinality(N \cup F)
    BY <1>1, <2>1, FS_Subset
  <2>3. Cardinality(N \cap F) \in Nat
    <3>1. IsFiniteSet(N \cap F)
      BY <1>4, FS_Intersection
    <3> QED BY <3>1, FS_CardinalityType
  <2>4. Cardinality(N \cup F) \in Nat
    BY <2>1, FS_CardinalityType
  <2> QED BY <1>2, <1>3, <1>4, <2>1, <2>2, <2>3, <2>4
<1>6. \A d \in Days : missed'[m][d] = missed[m][d] + (IF d = today THEN Cardinality(F) ELSE 0)
  <2> DEFINE G(n) == {r \in R : rec[r].mailbox = n /\ rec[r].sent = Day(time) /\ rec[r].status # "sending"}
  <2>1. missed' = [n \in Mailboxes |-> [missed[n] EXCEPT ![Day(time)] = @ + Cardinality(G(n))]]
    BY DEF Forget
  <2>2. G(m) = F
    OBVIOUS
  <2>3. missed'[m] = [missed[m] EXCEPT ![today] = @ + Cardinality(F)]
    <3> HIDE DEF G, F
    <3> QED BY <2>1, <2>2
  <2>4. missed[m] \in [Days -> Nat]
    BY DEF TypeOK
  <2> HIDE DEF F
  <2> QED BY <1>2, <2>3, <2>4
<1>7. \A d \in Days : missed[m][d] \in Nat
  BY DEF TypeOK
<1> HIDE DEF F
<1>8. /\ \A d \in Days : missed'[m][d] \in Nat /\ missed'[m][d] >= missed[m][d]
      /\ missed'[m][today] - missed[m][today] = Cardinality(F)
  BY <1>2, <1>6, <1>7
<1> QED BY <1>4, <1>5, <1>8

\* The rows of a later day are among those of an earlier one.
LEMMA FewerLater ==
    ASSUME TypeOK, NEW m, NEW d \in Nat, NEW e \in Nat, d <= e
    PROVE  Cardinality(Counted(m, e)) <= Cardinality(Counted(m, d))
<1>1. \A r \in Rows : rec[r].sent \in Int
  <2>1. \A x \in Days \cup {Never} : x \in Int
    BY DEF Days, Never
  <2>2. \A r \in Rows : rec[r].sent \in Days \cup {Never}
    BY DEF TypeOK
  <2> QED BY <2>1, <2>2
<1>2. Counted(m, e) \in SUBSET Counted(m, d)
  BY <1>1 DEF Counted
<1> QED BY <1>2, Finite, FS_Subset

\* CountSentSinceByMailbox counts them, and rows that are being sent besides.
LEMMA SentCounts ==
    ASSUME NEW m, NEW d
    PROVE  SentSince(m, d) \in Nat /\ Cardinality(Counted(m, d)) <= SentSince(m, d)
<1> DEFINE S == {r \in Rows : rec[r].mailbox = m /\ rec[r].sent >= d}
<1>1. IsFiniteSet(S) /\ Cardinality(S) \in Nat
  <2>1. S \in SUBSET Rows
    OBVIOUS
  <2> QED BY <2>1, FS_Subset, FS_CardinalityType
<1>2. Counted(m, d) \in SUBSET S
  BY DEF Counted
<1>3. SentSince(m, d) = Cardinality(S)
  BY DEF SentSince
<1> HIDE DEF S
<1> QED BY <1>1, <1>2, <1>3, FS_Subset

-----------------------------------------------------------------------------
(* Types. *)
Status  == {"queued", "sending", "sent", "failed", "skipped", "gone"}
Dues    == 0..MaxTime + 2 * WaitDays
RowType == [step : Nat, mailbox : Mailboxes \cup {None}, sent : Days \cup {Never}, due : Dues,
            status : Status]
JobType == [row : Rows, mailbox : Mailboxes \cup {None}, day : Days]

\* An idle worker has a row that means nothing and no mailbox.
LEMMA NoJobType == NoJob \in JobType /\ NoJob.mailbox = None
<1>1. (CHOOSE r \in Rows : TRUE) \in Rows
  OBVIOUS
<1>2. 0 \in Days
  BY DEF Days
<1> QED BY <1>1, <1>2 DEF NoJob, JobType

\* A row stays a row, field by field.
LEMMA RowTypes ==
    /\ \A row \in RowType, s \in Status : [row EXCEPT !.status = s] \in RowType
    /\ \A row \in RowType, m \in Mailboxes \cup {None} : [row EXCEPT !.mailbox = m] \in RowType
    /\ \A row \in RowType, d \in Days : [row EXCEPT !.sent = d] \in RowType
    /\ \A row \in RowType, d \in Dues : [row EXCEPT !.due = d] \in RowType
    /\ \A row \in RowType, n \in Nat : [row EXCEPT !.step = n] \in RowType
BY DEF RowType

\* What a worker writes when it is done with its row, deleted or not: the row is
\* one that is not being sent, of the same mailbox if any.
Written(old, row) ==
    /\ row \in RowType /\ row.status \notin {"sending", "gone"}
    /\ row.mailbox \in {old.mailbox, None}

\* The statements that give a row back leave its sending time.
LEMMA GivenBack ==
    ASSUME NEW old \in RowType, NEW row \in GiveBack(old)
    PROVE  Written(old, row) /\ row.sent = old.sent
<1>1. CASE row = [old EXCEPT !.status = "queued", !.mailbox = None]
  <2>1. [old EXCEPT !.status = "queued"] \in RowType
    BY RowTypes DEF Status
  <2>2. row = [[old EXCEPT !.status = "queued"] EXCEPT !.mailbox = None]
    BY <1>1
  <2>3. row \in RowType
    BY <2>1, <2>2, RowTypes
  <2>4. row.status = "queued" /\ row.mailbox = None /\ row.sent = old.sent
    BY <1>1 DEF RowType
  <2> QED BY <2>3, <2>4 DEF Written
<1>2. ASSUME NEW s \in {"failed", "skipped"}, row = [old EXCEPT !.status = s] PROVE Written(old, row) /\ row.sent = old.sent
  <2>1. row \in RowType
    BY <1>2, RowTypes DEF Status
  <2>2. row.status = s /\ row.mailbox = old.mailbox /\ row.sent = old.sent
    BY <1>2 DEF RowType
  <2> QED BY <2>1, <2>2 DEF Written
<1> QED BY <1>1, <1>2 DEF GiveBack

\* What MarkRecipientStepSent leaves of a row.
Stamped(old, n, d, s) == [old EXCEPT !.step = n, !.sent = Day(time), !.due = d, !.status = s]

\* MarkRecipientStepSent, with a mail or without, writes today.
LEMMA MarkedToday ==
    ASSUME TypeOK, NEW w \in Workers, NEW old \in RowType
    PROVE  LET one == MarkStepSent(w, old)
               end == [old EXCEPT !.sent = Day(time), !.due = 0, !.status = "sent"]
           IN  /\ Written(old, one) /\ one.sent = Day(time) /\ one.mailbox = old.mailbox
               /\ Written(old, end) /\ end.sent = Day(time) /\ end.mailbox = old.mailbox
<1>0. /\ Day(time) \in Days /\ tick[w] + 2 * WaitDays \in Dues /\ 0 \in Dues /\ old.step + 1 \in Nat
  <2>1. time \in 0..MaxTime /\ tick[w] \in 0..MaxTime /\ old.step \in Nat
    BY DEF TypeOK, RowType
  <2>2. WaitDays \in Nat /\ MaxTime \in Nat
    OBVIOUS
  <2> QED BY <2>1, <2>2, Times DEF Dues
<1>1. ASSUME NEW d \in Dues, NEW s \in Status, NEW n \in Nat
      PROVE  /\ Stamped(old, n, d, s) \in RowType /\ Stamped(old, n, d, s).sent = Day(time)
             /\ Stamped(old, n, d, s).mailbox = old.mailbox /\ Stamped(old, n, d, s).status = s
  <2>1. [old EXCEPT !.step = n] \in RowType
    BY RowTypes
  <2>2. [[old EXCEPT !.step = n] EXCEPT !.sent = Day(time)] \in RowType
    BY <1>0, <2>1, RowTypes
  <2>3. [[[old EXCEPT !.step = n] EXCEPT !.sent = Day(time)] EXCEPT !.due = d] \in RowType
    BY <2>2, RowTypes
  <2>4. [[[[old EXCEPT !.step = n] EXCEPT !.sent = Day(time)] EXCEPT !.due = d] EXCEPT !.status = s] \in RowType
    BY <2>3, RowTypes
  <2>5. [[[[old EXCEPT !.step = n] EXCEPT !.sent = Day(time)] EXCEPT !.due = d] EXCEPT !.status = s]
          = Stamped(old, n, d, s)
    BY DEF Stamped
  <2>6. Stamped(old, n, d, s) \in RowType
    BY <2>4, <2>5
  <2> QED BY <2>6 DEF RowType, Stamped
<1>2. LET one == MarkStepSent(w, old)
      IN  one \in RowType /\ one.sent = Day(time) /\ one.mailbox = old.mailbox /\ one.status \in {"queued", "sent"}
  <2>1. "queued" \in Status /\ "sent" \in Status
    BY DEF Status
  <2>2. PICK n \in Nat : n = old.step + 1
    BY <1>0
  <2>3. PICK d \in Dues, q \in Status :
            /\ q \in {"queued", "sent"}
            /\ MarkStepSent(w, old) = Stamped(old, n, d, q)
    BY <1>0, <2>1, <2>2 DEF MarkStepSent, Stamped
  <2> QED BY <1>1, <2>3
<1>3. LET end == [old EXCEPT !.sent = Day(time), !.due = 0, !.status = "sent"]
      IN  end \in RowType /\ end.sent = Day(time) /\ end.mailbox = old.mailbox /\ end.status = "sent"
  <2>1. [old EXCEPT !.sent = Day(time)] \in RowType
    BY <1>0, RowTypes
  <2>2. [[old EXCEPT !.sent = Day(time)] EXCEPT !.due = 0] \in RowType
    BY <1>0, <2>1, RowTypes
  <2>3. [[[old EXCEPT !.sent = Day(time)] EXCEPT !.due = 0] EXCEPT !.status = "sent"] \in RowType
    BY <2>2, RowTypes DEF Status
  <2>4. [[[old EXCEPT !.sent = Day(time)] EXCEPT !.due = 0] EXCEPT !.status = "sent"]
          = [old EXCEPT !.sent = Day(time), !.due = 0, !.status = "sent"]
    OBVIOUS
  <2> QED BY <2>3, <2>4 DEF RowType
<1> QED BY <1>2, <1>3 DEF Written

\* A deleted row is a row.
LEMMA GoneType == Gone \in RowType /\ Gone.status = "gone" /\ Gone.mailbox = None /\ Gone.sent = Never
BY DEF Gone, RowType, Status, Dues

-----------------------------------------------------------------------------
(* Types, rows and ticks, step by step. *)
\* Types are kept.
LEMMA BudgetTypes == ASSUME TypeOK, RowsKept, [Next]_vars PROVE TypeOK'
<1>0. /\ time \in 0..MaxTime /\ Day(time) \in Days
      /\ \A w \in Workers : job[w].row \in Rows /\ job[w].day \in Days
  BY Times DEF TypeOK
<1>t. /\ rec \in [Rows -> RowType] /\ job \in [Workers -> JobType]
      /\ TypeOK' <=>
          /\ time' \in 0..MaxTime
          /\ rec' \in [Rows -> RowType]
          /\ pc' \in [Workers -> {"idle", "campaigns", "claim", "smtp", "mark"}]
          /\ tick' \in [Workers -> 0..MaxTime]
          /\ todo' \in [Workers -> SUBSET Campaigns]
          /\ job' \in [Workers -> JobType]
          /\ \A w \in Workers : pc'[w] \in {"claim", "smtp", "mark"} <=> job'[w].mailbox # None
          /\ faults' \in 0..MaxFaults
          /\ mailed' \in [Mailboxes -> [Days -> Nat]]
          /\ missed' \in [Mailboxes -> [Days -> Nat]]
  BY DEF TypeOK, RowType, JobType, Dues, Status
<1>j. NoJob \in JobType /\ NoJob.mailbox = None
  BY NoJobType
<1>m. \A w \in Workers : pc[w] \in {"claim", "smtp", "mark"} => job[w].mailbox \in Mailboxes
  BY DEF TypeOK
<1>r. \A w \in Workers : rec[job[w].row] \in RowType
  BY <1>0, <1>t
\* A worker puts down its row.
<1>d. ASSUME NEW w \in Workers, pc' = [pc EXCEPT ![w] = "campaigns"] \/ pc' = [pc EXCEPT ![w] = "idle"],
             job' = [job EXCEPT ![w] = NoJob]
      PROVE  /\ pc' \in [Workers -> {"idle", "campaigns", "claim", "smtp", "mark"}]
             /\ job' \in [Workers -> JobType]
             /\ \A v \in Workers : pc'[v] \in {"claim", "smtp", "mark"} <=> job'[v].mailbox # None
  <2>1. job' \in [Workers -> JobType] /\ job'[w].mailbox = None /\ \A v \in Workers \ {w} : job'[v] = job[v]
    BY <1>d, <1>j, <1>t
  <2>2. pc' \in [Workers -> {"idle", "campaigns", "claim", "smtp", "mark"}] /\ pc'[w] \in {"campaigns", "idle"}
        /\ \A v \in Workers \ {w} : pc'[v] = pc[v]
    BY <1>d DEF TypeOK
  <2> QED BY <2>1, <2>2 DEF TypeOK
<1>f. Fault => faults' \in 0..MaxFaults
  BY DEF Fault, TypeOK
\* A worker is done with its row, which becomes `row` unless it was deleted.
<1>e. ASSUME NEW w \in Workers, NEW row \in RowType, Done(w, row)
      PROVE  /\ pc' \in [Workers -> {"idle", "campaigns", "claim", "smtp", "mark"}]
             /\ job' \in [Workers -> JobType]
             /\ \A v \in Workers : pc'[v] \in {"claim", "smtp", "mark"} <=> job'[v].mailbox # None
             /\ rec' \in [Rows -> RowType]
  BY <1>0, <1>d, <1>e, <1>t DEF Done
<1>a. ASSUME NEW w \in Workers, Mailed(w), pc[w] = "smtp" PROVE mailed' \in [Mailboxes -> [Days -> Nat]]
  BY <1>0, <1>a, <1>m DEF Mailed, TypeOK
<1>b. ASSUME NEW w \in Workers, NEW d \in Days, Miss(w, d), pc[w] \in {"smtp", "mark"}
      PROVE  missed' \in [Mailboxes -> [Days -> Nat]]
  BY <1>0, <1>b, <1>m DEF Miss, TypeOK
<1>c. ASSUME NEW R \in SUBSET Rows, Forget(R) PROVE missed' \in [Mailboxes -> [Days -> Nat]]
  <2> DEFINE G(n) == {r \in R : rec[r].mailbox = n /\ rec[r].sent = Day(time) /\ rec[r].status # "sending"}
  <2>1. missed' = [n \in Mailboxes |-> [missed[n] EXCEPT ![Day(time)] = @ + Cardinality(G(n))]]
    BY <1>c DEF Forget
  <2>2. \A n \in Mailboxes : Cardinality(G(n)) \in Nat
    <3> TAKE n \in Mailboxes
    <3>1. G(n) \in SUBSET Rows
      OBVIOUS
    <3> QED BY <3>1, FS_Subset, FS_CardinalityType
  <2> HIDE DEF G
  <2>3. \A n \in Mailboxes : [missed[n] EXCEPT ![Day(time)] = @ + Cardinality(G(n))] \in [Days -> Nat]
    <3> TAKE n \in Mailboxes
    <3>1. missed[n] \in [Days -> Nat]
      BY DEF TypeOK
    <3> QED BY <1>0, <2>2, <3>1
  <2> QED BY <2>1, <2>3
<1>1. CASE HalfDay
  BY <1>1 DEF HalfDay, TypeOK
<1>2. ASSUME NEW w \in Workers, TickBegin(w) PROVE TypeOK'
  BY <1>2 DEF TickBegin, Running, TypeOK
<1>3. ASSUME NEW w \in Workers, TickEnd(w) PROVE TypeOK'
  <2>1. 0 \in 0..MaxTime
    OBVIOUS
  <2> QED BY <1>3, <2>1 DEF TickEnd, TypeOK
<1>4. ASSUME NEW w \in Workers, NEW c \in Campaigns, Skip(w, c) PROVE TypeOK'
  BY <1>4 DEF Skip, TypeOK
<1>5. ASSUME NEW w \in Workers, NEW c \in Campaigns, NEW m \in Mailboxes, Pick(w, c, m) PROVE TypeOK'
  <2>1. PICK r \in Rows : job' = [job EXCEPT ![w] = [row |-> r, mailbox |-> m, day |-> 0]]
    BY <1>5 DEF Pick
  <2>2. [row |-> r, mailbox |-> m, day |-> 0] \in JobType
    BY DEF JobType, Days
  <2>3. job' \in [Workers -> JobType] /\ job'[w].mailbox = m /\ \A v \in Workers \ {w} : job'[v] = job[v]
    BY <1>t, <2>1, <2>2
  <2>4. \A v \in Workers : pc'[v] \in {"claim", "smtp", "mark"} <=> job'[v].mailbox # None
    BY <1>5, <2>3 DEF Pick, TypeOK
  <2> QED BY <1>t, <1>5, <2>3, <2>4 DEF Pick, TypeOK
<1>6. ASSUME NEW w \in Workers, Claim(w) PROVE TypeOK'
  <2> DEFINE r == job[w].row
  <2>0. pc[w] = "claim" /\ UNCHANGED <<time, tick, todo, faults, mailed>>
    BY <1>6 DEF Claim
  <2>1. CASE /\ rec' = [rec EXCEPT ![r].status = "sending", ![r].mailbox = job[w].mailbox]
             /\ pc' = [pc EXCEPT ![w] = "smtp"] /\ job' = job /\ Forget({r})
    <3>1. rec' = [rec EXCEPT ![r] = [[rec[r] EXCEPT !.status = "sending"] EXCEPT !.mailbox = job[w].mailbox]]
      BY <1>0, <1>t, <2>1
    <3>2. [[rec[r] EXCEPT !.status = "sending"] EXCEPT !.mailbox = job[w].mailbox] \in RowType
      <4>1. [rec[r] EXCEPT !.status = "sending"] \in RowType
        BY <1>r, RowTypes DEF Status
      <4> HIDE DEF r
      <4> QED BY <1>m, <2>0, <4>1, RowTypes
    <3>3. rec' \in [Rows -> RowType]
      BY <1>t, <3>1, <3>2
    <3>4. missed' \in [Mailboxes -> [Days -> Nat]]
      <4>1. {r} \in SUBSET Rows
        BY <1>0
      <4> QED BY <1>c, <2>1, <4>1
    <3> QED BY <1>t, <2>0, <2>1, <3>3, <3>4 DEF TypeOK
  <2>2. CASE pc' = [pc EXCEPT ![w] = "campaigns"] /\ job' = [job EXCEPT ![w] = NoJob] /\ UNCHANGED <<rec, missed>>
    <3>1. pc' \in [Workers -> {"idle", "campaigns", "claim", "smtp", "mark"}] /\ job' \in [Workers -> JobType]
          /\ \A v \in Workers : pc'[v] \in {"claim", "smtp", "mark"} <=> job'[v].mailbox # None
      BY <1>d, <2>2
    <3> QED BY <1>t, <2>0, <2>2, <3>1 DEF TypeOK
  <2> QED BY <1>6, <2>1, <2>2 DEF Claim
<1>7. ASSUME NEW w \in Workers, Accept(w) PROVE TypeOK'
  <2>1. job' = [job EXCEPT ![w] = [job[w] EXCEPT !.day = Day(time)]] /\ pc[w] = "smtp" /\ Mailed(w)
        /\ pc' = [pc EXCEPT ![w] = "mark"]
        /\ UNCHANGED <<time, rec, tick, todo, faults, missed>>
    BY <1>7 DEF Accept
  <2>2. [job[w] EXCEPT !.day = Day(time)] \in JobType /\ [job[w] EXCEPT !.day = Day(time)].mailbox = job[w].mailbox
    BY <1>0, <1>t DEF JobType
  <2>3. job' \in [Workers -> JobType] /\ \A v \in Workers : job'[v].mailbox = job[v].mailbox
    BY <1>t, <2>1, <2>2
  <2>4. pc' \in [Workers -> {"idle", "campaigns", "claim", "smtp", "mark"}]
        /\ \A v \in Workers : pc'[v] \in {"claim", "smtp", "mark"} <=> pc[v] \in {"claim", "smtp", "mark"}
    BY <2>1 DEF TypeOK
  <2>5. mailed' \in [Mailboxes -> [Days -> Nat]]
    BY <1>a, <2>1
  <2> QED BY <1>t, <2>1, <2>3, <2>4, <2>5 DEF TypeOK
<1>8. ASSUME NEW w \in Workers, Mark(w) PROVE TypeOK'
  <2>1. /\ pc[w] = "mark" /\ Done(w, MarkStepSent(w, rec[job[w].row]))
        /\ UNCHANGED <<time, tick, todo, faults, mailed>>
        /\ (missed' = missed \/ Miss(w, job[w].day))
    BY <1>8 DEF Mark
  <2>2. MarkStepSent(w, rec[job[w].row]) \in RowType
    BY <1>r, MarkedToday DEF Written
  <2>3. missed' \in [Mailboxes -> [Days -> Nat]]
    BY <1>0, <1>b, <2>1 DEF TypeOK
  <2> QED BY <1>e, <1>t, <2>1, <2>2, <2>3 DEF TypeOK
<1>9. ASSUME NEW w \in Workers, EndSequence(w) PROVE TypeOK'
  <2> DEFINE row == [rec[job[w].row] EXCEPT !.sent = Day(time), !.due = 0, !.status = "sent"]
  <2>1. Done(w, row) /\ UNCHANGED <<time, tick, todo, faults, mailed, missed>>
    BY <1>9 DEF EndSequence
  <2>2. row \in RowType
    BY <1>r, MarkedToday DEF Written
  <2> HIDE DEF row
  <2> QED BY <1>e, <1>t, <2>1, <2>2 DEF TypeOK
<1>10. ASSUME NEW w \in Workers, Reject(w) PROVE TypeOK'
  <2>1. pc[w] = "smtp" /\ UNCHANGED <<time, tick, todo, faults, mailed, missed>>
    BY <1>10 DEF Reject
  <2>2. PICK row \in GiveBack(rec[job[w].row]) : Done(w, row)
    BY <1>10 DEF Reject
  <2>3. row \in RowType
    BY <1>r, GivenBack DEF Written
  <2> QED BY <1>e, <1>t, <2>1, <2>2, <2>3 DEF TypeOK
<1>11. ASSUME NEW w \in Workers, AcceptAndError(w) PROVE TypeOK'
  <2>1. pc[w] = "smtp" /\ UNCHANGED <<time, tick, todo>> /\ Fault /\ Mailed(w) /\ Miss(w, Day(time))
    BY <1>11 DEF AcceptAndError
  <2>2. PICK row \in GiveBack(rec[job[w].row]) : Done(w, row)
    BY <1>11 DEF AcceptAndError
  <2>3. row \in RowType
    BY <1>r, GivenBack DEF Written
  <2>4. mailed' \in [Mailboxes -> [Days -> Nat]] /\ missed' \in [Mailboxes -> [Days -> Nat]]
        /\ faults' \in 0..MaxFaults
    BY <1>0, <1>a, <1>b, <1>f, <2>1
  <2> QED BY <1>e, <1>t, <2>1, <2>2, <2>3, <2>4 DEF TypeOK
<1>12. ASSUME NEW w \in Workers, Restart(w) PROVE TypeOK'
  <2>1. /\ Fault /\ (IF pc[w] = "mark" THEN Miss(w, job[w].day) ELSE UNCHANGED missed)
        /\ rec' \in {rec, [rec EXCEPT ![job[w].row].status = "failed"]}
        /\ pc' = [pc EXCEPT ![w] = "idle"] /\ job' = [job EXCEPT ![w] = NoJob]
        /\ todo' = [todo EXCEPT ![w] = {}] /\ tick' = [tick EXCEPT ![w] = 0]
        /\ UNCHANGED <<time, mailed>>
    BY <1>12 DEF Restart
  <2>2. missed' \in [Mailboxes -> [Days -> Nat]]
    BY <1>0, <1>b, <2>1 DEF TypeOK
  <2>3. rec' \in [Rows -> RowType]
    <3>1. [rec[job[w].row] EXCEPT !.status = "failed"] \in RowType
      BY <1>r, RowTypes DEF Status
    <3> QED BY <1>0, <1>t, <2>1, <3>1
  <2>4. /\ pc' \in [Workers -> {"idle", "campaigns", "claim", "smtp", "mark"}]
        /\ job' \in [Workers -> JobType]
        /\ \A v \in Workers : pc'[v] \in {"claim", "smtp", "mark"} <=> job'[v].mailbox # None
    BY <1>d, <2>1
  <2>5. tick' \in [Workers -> 0..MaxTime] /\ todo' \in [Workers -> SUBSET Campaigns]
    <3>1. 0 \in 0..MaxTime
      OBVIOUS
    <3> QED BY <2>1, <3>1 DEF TypeOK
  <2> QED BY <1>f, <1>t, <2>1, <2>2, <2>3, <2>4, <2>5 DEF TypeOK
<1>13. ASSUME NEW c \in Campaigns, Requeue(c) PROVE TypeOK'
  <2>1. /\ Fault /\ UNCHANGED <<time, pc, tick, todo, job, mailed, missed>>
        /\ rec' = [r \in Rows |-> IF CampaignOf[r] = c /\ rec[r].status = "failed"
                                  THEN [rec[r] EXCEPT !.status = "queued"] ELSE rec[r]]
    BY <1>13 DEF Requeue
  <2>2. \A r \in Rows : rec[r] \in RowType /\ [rec[r] EXCEPT !.status = "queued"] \in RowType
    BY <1>t, RowTypes DEF Status
  <2>3. rec' \in [Rows -> RowType]
    BY <2>1, <2>2
  <2> QED BY <1>f, <1>t, <2>1, <2>3 DEF TypeOK
<1>14. ASSUME NEW R \in SUBSET Rows, Delete(R) PROVE TypeOK'
  <2>1. /\ Fault /\ UNCHANGED <<time, pc, tick, todo, job, mailed>> /\ Forget(R)
        /\ rec' = [r \in Rows |-> IF r \in R THEN Gone ELSE rec[r]]
    BY <1>14 DEF Delete
  <2>2. rec' \in [Rows -> RowType]
    BY <1>t, <2>1, GoneType
  <2> QED BY <1>c, <1>f, <1>t, <2>1, <2>2 DEF TypeOK
<1>15. CASE UNCHANGED vars
  BY <1>15 DEF vars, TypeOK
<1> QED BY <1>1, <1>2, <1>3, <1>4, <1>5, <1>6, <1>7, <1>8, <1>9, <1>10, <1>11, <1>12, <1>13, <1>14, <1>15
        DEF Next, Worker, Operator

\* Rows being sent belong to one worker, or were deleted.
LEMMA RowsStep == ASSUME TypeOK, TypeOK', RowsKept, [Next]_vars PROVE RowsKept'
<1>0. /\ time \in 0..MaxTime /\ time' \in 0..MaxTime
      /\ \A w \in Workers : job[w].row \in Rows /\ job'[w].row \in Rows
      /\ \A r \in Rows : rec[r].sent \in Int /\ rec'[r].sent \in Int
      /\ \A w \in Workers : job[w].day \in Nat
  <2>1. (\A x \in Days : x \in Nat) /\ \A x \in Days \cup {Never} : x \in Int
    BY DEF Days, Never
  <2>2. ASSUME NEW r \in Rows PROVE rec[r].sent \in Int /\ rec'[r].sent \in Int
    <3>1. rec[r].sent \in Days \cup {Never}
      BY DEF TypeOK
    <3>2. rec'[r].sent \in Days \cup {Never}
      BY DEF TypeOK
    <3> QED BY <2>1, <3>1, <3>2
  <2>3. \A w \in Workers : job[w].day \in Nat /\ job[w].row \in Rows /\ job'[w].row \in Rows
    BY <2>1 DEF TypeOK
  <2> QED BY <2>2, <2>3 DEF TypeOK
<1>n. \A t \in 0..MaxTime : Day(t) \in Nat /\ 2 * Day(t) <= t /\ t <= 2 * Day(t) + 1
  BY Times
<1>r. rec \in [Rows -> RowType]
  BY DEF TypeOK, RowType, Dues, Status
\* No worker takes a row, and none loses the one it has but by its deletion.
<1>a. ASSUME Day(time) <= Day(time'), \A r \in Rows : rec'[r].sent <= Day(time'),
             \A v \in Workers : /\ job'[v].day <= Day(time')
                                /\ Handling(v)' =>
                                     /\ Handling(v) /\ job'[v].row = job[v].row
                                     /\ job'[v].mailbox = job[v].mailbox
                                     /\ LET q == job[v].row
                                        IN  rec'[q].status = "gone" \/ rec'[q] = rec[q]
      PROVE  RowsKept'
  <2>2. ASSUME NEW v \in Workers, Handling(v)' PROVE OwnRow(v)'
    <3>1. OwnRow(v)
      BY <1>a, <2>2 DEF RowsKept
    <3> QED BY <1>a, <2>2, <3>1 DEF OwnRow, Kept
  <2> QED BY <1>a, <2>2 DEF RowsKept
\* A worker that has a row of its own writes it and puts it down.
<1>b. ASSUME NEW w \in Workers, Handling(w), time' = time,
             LET r == job[w].row IN
             /\ \A q \in Rows \ {r} : rec'[q] = rec[q]
             /\ rec'[r].sent <= Day(time),
             ~Handling(w)', job'[w] = NoJob,
             \A v \in Workers \ {w} : pc'[v] = pc[v] /\ job'[v] = job[v]
      PROVE  RowsKept'
  <2>1. \A q \in Rows : rec'[q].sent <= Day(time)
    BY <1>b DEF RowsKept
  <2>3. \A v \in Workers : job'[v].day <= Day(time)
    BY <1>0, <1>b, <1>n DEF RowsKept, NoJob
  <2>2. ASSUME NEW v \in Workers, Handling(v)' PROVE OwnRow(v)'
    <3>1. v # w /\ Handling(v) /\ OwnRow(v) /\ job'[v] = job[v]
      BY <1>b, <2>2 DEF Handling, RowsKept
    <3>2. job[v].row # job[w].row
      BY <1>b, <3>1 DEF OwnRow
    <3>3. rec'[job[v].row] = rec[job[v].row]
      BY <1>0, <1>b, <3>2
    <3>4. \A u \in Workers : Handling(u)' /\ job'[u].row = job[v].row => u = v
      BY <1>b, <3>1 DEF OwnRow, Handling
    <3> QED BY <1>b, <3>1, <3>3, <3>4 DEF OwnRow, Kept
  <2> QED BY <1>b, <2>1, <2>2, <2>3 DEF RowsKept
\* What the rows and jobs of an earlier state say of the day holds today.
<1>s. /\ \A r \in Rows : rec[r].sent <= Day(time)
      /\ \A v \in Workers : job[v].day <= Day(time)
      /\ Day(time) <= Day(time)
  BY <1>0, <1>n DEF RowsKept
<1>1. CASE HalfDay
  <2>1. time' = time + 1 /\ UNCHANGED <<rec, pc, job>>
    BY <1>1 DEF HalfDay
  <2>2. Day(time) <= Day(time')
    BY <1>0, <1>n, <2>1
  <2>3. /\ \A v \in Workers : job[v].day <= Day(time')
        /\ \A r \in Rows : rec[r].sent <= Day(time')
    BY <1>0, <1>n, <1>s, <2>2
  <2> QED BY <1>a, <2>1, <2>2, <2>3 DEF Handling
<1>2. ASSUME NEW w \in Workers, TickBegin(w) \/ TickEnd(w) \/ \E c \in Campaigns : Skip(w, c)
      PROVE  RowsKept'
  <2>1. UNCHANGED <<rec, time, job>> /\ \A v \in Workers : Handling(v)' => Handling(v)
    BY <1>2 DEF TickBegin, TickEnd, Skip, Handling, TypeOK
  <2> QED BY <1>a, <1>s, <2>1
<1>3. ASSUME NEW w \in Workers, NEW c \in Campaigns, NEW m \in Mailboxes, Pick(w, c, m) PROVE RowsKept'
  <2>1. UNCHANGED <<rec, time>> /\ pc' = [pc EXCEPT ![w] = "claim"]
        /\ \E r \in Rows : job' = [job EXCEPT ![w] = [row |-> r, mailbox |-> m, day |-> 0]]
    BY <1>3 DEF Pick
  <2>2. \A v \in Workers : Handling(v)' => Handling(v) /\ job'[v] = job[v]
    BY <2>1 DEF Handling, TypeOK
  <2>3. \A v \in Workers : job'[v].day <= Day(time)
    BY <1>0, <1>n, <1>s, <2>1 DEF TypeOK
  <2> QED BY <1>a, <1>s, <2>1, <2>2, <2>3
<1>4. ASSUME NEW w \in Workers, Claim(w) PROVE RowsKept'
  <2> DEFINE r == job[w].row
  <2>0. pc[w] = "claim" /\ time' = time
    BY <1>4 DEF Claim
  <2>1. CASE /\ rec' = [rec EXCEPT ![r].status = "sending", ![r].mailbox = job[w].mailbox]
             /\ pc' = [pc EXCEPT ![w] = "smtp"] /\ job' = job
             /\ rec[r].status = "queued"
    <3>1. /\ rec'[r].status = "sending" /\ rec'[r].mailbox = job[w].mailbox
          /\ rec'[r].sent = rec[r].sent
          /\ \A q \in Rows \ {r} : rec'[q] = rec[q]
      BY <1>0, <1>r, <2>1 DEF RowType
    <3>3. \A v \in Workers : Handling(v)' <=> Handling(v) \/ v = w
      BY <2>1 DEF Handling, TypeOK
    <3>4. \A v \in Workers : Handling(v) => job[v].row # r
      BY <1>0, <2>1 DEF RowsKept, OwnRow, Kept
    <3>5. \A q \in Rows : rec'[q].sent <= Day(time)
      BY <1>s, <3>1
    <3>6. ASSUME NEW v \in Workers, Handling(v)' PROVE OwnRow(v)'
      <4>1. CASE v = w
        BY <2>0, <2>1, <3>1, <3>3, <3>4, <4>1 DEF OwnRow, Kept
      <4>2. CASE v # w
        <5>1. Handling(v) /\ OwnRow(v) /\ rec'[job[v].row] = rec[job[v].row]
          BY <1>0, <3>1, <3>3, <3>4, <3>6, <4>2 DEF RowsKept
        <5> QED BY <2>0, <2>1, <3>3, <3>4, <4>2, <5>1 DEF OwnRow, Kept
      <4> QED BY <4>1, <4>2
    <3> QED BY <1>s, <2>0, <2>1, <3>5, <3>6 DEF RowsKept
  <2>2. CASE pc' = [pc EXCEPT ![w] = "campaigns"] /\ job' = [job EXCEPT ![w] = NoJob] /\ rec' = rec
    <3>1. \A v \in Workers : Handling(v)' => Handling(v) /\ job'[v] = job[v]
      BY <2>0, <2>2 DEF Handling, TypeOK
    <3>2. \A v \in Workers : job'[v].day <= Day(time)
      BY <1>0, <1>n, <1>s, <2>2 DEF TypeOK, NoJob
    <3> QED BY <1>a, <1>s, <2>0, <2>2, <3>1, <3>2
  <2> QED BY <1>4, <2>1, <2>2 DEF Claim
<1>5. ASSUME NEW w \in Workers, Accept(w) PROVE RowsKept'
  <2>1. /\ pc[w] = "smtp" /\ pc' = [pc EXCEPT ![w] = "mark"] /\ UNCHANGED <<rec, time>>
        /\ job' = [job EXCEPT ![w] = [job[w] EXCEPT !.day = Day(time)]]
    BY <1>5 DEF Accept
  <2>2. \A v \in Workers : /\ job'[v].row = job[v].row /\ job'[v].mailbox = job[v].mailbox
                            /\ job'[v].day <= Day(time)
    BY <1>s, <2>1 DEF TypeOK
  <2>3. \A v \in Workers : Handling(v)' => Handling(v)
    BY <2>1 DEF Handling, TypeOK
  <2> QED BY <1>a, <1>s, <2>1, <2>2, <2>3
\* Where a worker is when it has put down its row.
<1>c. ASSUME NEW w \in Workers, pc' = [pc EXCEPT ![w] = "campaigns"] \/ pc' = [pc EXCEPT ![w] = "idle"],
             job' = [job EXCEPT ![w] = NoJob]
      PROVE  /\ ~Handling(w)' /\ job'[w] = NoJob
             /\ \A v \in Workers \ {w} : pc'[v] = pc[v] /\ job'[v] = job[v]
  BY <1>c DEF Handling, TypeOK
<1>d. ASSUME NEW w \in Workers, NEW row, Done(w, row), Handling(w), time' = time, row.sent <= Day(time)
      PROVE  RowsKept'
  <2>1. /\ rec' \in {rec, [rec EXCEPT ![job[w].row] = row]} /\ job' = [job EXCEPT ![w] = NoJob]
        /\ pc' = [pc EXCEPT ![w] = "campaigns"]
    BY <1>d DEF Done
  <2>2. rec'[job[w].row].sent <= Day(time) /\ \A q \in Rows \ {job[w].row} : rec'[q] = rec[q]
    BY <1>0, <1>d, <1>s, <2>1 DEF TypeOK
  <2>3. /\ ~Handling(w)' /\ job'[w] = NoJob
        /\ \A v \in Workers \ {w} : pc'[v] = pc[v] /\ job'[v] = job[v]
    BY <1>c, <2>1
  <2> QED BY <1>b, <1>d, <2>2, <2>3
<1>6. ASSUME NEW w \in Workers, Mark(w) \/ EndSequence(w) PROVE RowsKept'
  <2>1. Handling(w) /\ time' = time
    BY <1>6 DEF Mark, EndSequence, Handling
  <2>2. PICK row : Done(w, row) /\ row.sent = Day(time)
    <3> DEFINE old == rec[job[w].row]
               end == [old EXCEPT !.sent = Day(time), !.due = 0, !.status = "sent"]
    <3>1. old \in RowType
      BY <1>0, <1>r
    <3>2. MarkStepSent(w, old).sent = Day(time) /\ end.sent = Day(time)
      BY <3>1, MarkedToday
    <3>3. Done(w, MarkStepSent(w, old)) \/ Done(w, end)
      BY <1>6 DEF Mark, EndSequence
    <3> HIDE DEF end
    <3> QED BY <3>2, <3>3
  <2> QED BY <1>d, <1>s, <2>1, <2>2
<1>8. ASSUME NEW w \in Workers, Reject(w) \/ AcceptAndError(w) PROVE RowsKept'
  <2>1. Handling(w) /\ time' = time
    BY <1>8 DEF Reject, AcceptAndError, Handling
  <2>2. PICK row \in GiveBack(rec[job[w].row]) : Done(w, row)
    BY <1>8 DEF Reject, AcceptAndError
  <2>3. row.sent = rec[job[w].row].sent
    BY <1>0, <1>r, GivenBack
  <2> QED BY <1>0, <1>d, <1>s, <2>1, <2>2, <2>3
<1>9. ASSUME NEW w \in Workers, Restart(w) PROVE RowsKept'
  <2> DEFINE r == job[w].row
  <2>1. /\ rec' \in {rec, [rec EXCEPT ![r].status = "failed"]} /\ (~Handling(w) => rec' = rec)
        /\ job' = [job EXCEPT ![w] = NoJob] /\ pc' = [pc EXCEPT ![w] = "idle"] /\ time' = time
    BY <1>9 DEF Restart, Handling
  <2>2. /\ ~Handling(w)' /\ job'[w] = NoJob
        /\ \A v \in Workers \ {w} : pc'[v] = pc[v] /\ job'[v] = job[v]
    BY <1>c, <2>1
  <2>3. CASE Handling(w)
    <3>1. rec'[r].sent = rec[r].sent /\ \A q \in Rows \ {r} : rec'[q] = rec[q]
      BY <1>0, <1>r, <2>1 DEF RowType
    <3>2. rec'[r].sent <= Day(time)
      BY <1>0, <1>s, <3>1
    <3> QED BY <1>b, <2>1, <2>2, <2>3, <3>1, <3>2
  <2>4. CASE ~Handling(w)
    <3>1. \A v \in Workers : job'[v].day <= Day(time)
      BY <1>0, <1>n, <1>s, <2>2 DEF NoJob
    <3>2. \A v \in Workers : Handling(v)' => Handling(v) /\ job'[v] = job[v]
      BY <2>2 DEF Handling
    <3> QED BY <1>a, <1>s, <2>1, <2>4, <3>1, <3>2
  <2> QED BY <2>3, <2>4
\* The operator: a row that is being sent is not requeued, but may be deleted.
<1>10. ASSUME NEW c \in Campaigns, Requeue(c) PROVE RowsKept'
  <2>1. /\ UNCHANGED <<time, pc, job>>
        /\ rec' = [r \in Rows |-> IF CampaignOf[r] = c /\ rec[r].status = "failed"
                                  THEN [rec[r] EXCEPT !.status = "queued"] ELSE rec[r]]
    BY <1>10 DEF Requeue
  <2>2. \A r \in Rows : rec'[r].sent = rec[r].sent
    BY <1>r, <2>1 DEF RowType
  <2>3. ASSUME NEW v \in Workers, Handling(v)
        PROVE  rec'[job[v].row].status = "gone" \/ rec'[job[v].row] = rec[job[v].row]
    <3>1. rec[job[v].row].status \in {"sending", "gone"}
      BY <2>3 DEF RowsKept, OwnRow, Kept
    <3> QED BY <1>0, <2>1, <3>1
  <2>4. \A r \in Rows : rec'[r].sent <= Day(time)
    BY <1>s, <2>2
  <2> QED BY <1>a, <1>s, <2>1, <2>3, <2>4 DEF Handling
<1>11. ASSUME NEW R \in SUBSET Rows, Delete(R) PROVE RowsKept'
  <2>1. /\ UNCHANGED <<time, pc, job>>
        /\ rec' = [r \in Rows |-> IF r \in R THEN Gone ELSE rec[r]]
    BY <1>11 DEF Delete
  <2>2. \A r \in Rows : rec'[r].sent <= Day(time) /\ (rec'[r].status = "gone" \/ rec'[r] = rec[r])
    BY <1>0, <1>n, <1>s, <2>1, GoneType DEF Never
  <2> QED BY <1>0, <1>a, <1>s, <2>1, <2>2 DEF Handling
<1>12. CASE UNCHANGED vars
  <2>1. UNCHANGED <<rec, time, job, pc>>
    BY <1>12 DEF vars
  <2> QED BY <1>a, <1>s, <2>1 DEF Handling
<1> QED BY <1>1, <1>2, <1>3, <1>4, <1>5, <1>6, <1>8, <1>9, <1>10, <1>11, <1>12 DEF Next, Worker, Operator

\* A tick knows only campaigns that were started when it began.
LEMMA TicksStep == ASSUME TypeOK, RowsKept, Ticks, [Next]_vars PROVE Ticks'
<1>0. /\ time \in 0..MaxTime /\ \A w \in Workers : tick[w] \in 0..MaxTime
      /\ \A w \in Workers : job[w].mailbox \in Mailboxes \cup {None}
  BY DEF TypeOK
\* A worker begins no tick and picks no mailbox; its list gets no longer, and its
\* time goes only with all the rest.
<1>a. ASSUME time <= time', time' \in Nat,
             \A v \in Workers : /\ todo'[v] \subseteq todo[v] /\ job'[v].mailbox \in {job[v].mailbox, None}
                                /\ \/ tick'[v] = tick[v]
                                   \/ tick'[v] = 0 /\ todo'[v] = {} /\ job'[v].mailbox = None
      PROVE  Ticks'
  <2>1. \A v \in Workers : tick'[v] <= time' /\ \A c \in todo'[v] : StartedAt[c] <= tick'[v]
    BY <1>0, <1>a DEF Ticks
  <2>2. \A v \in Workers : Allowed(v)'
    BY <1>a DEF Ticks, Allowed, EffectiveCap
  <2> QED BY <1>a, <2>1, <2>2 DEF Ticks
<1>b. time <= time /\ time \in Nat
  BY <1>0
<1>1. CASE HalfDay
  BY <1>0, <1>1, <1>a DEF HalfDay
<1>2. ASSUME NEW w \in Workers, TickBegin(w) PROVE Ticks'
  <2>1. /\ pc[w] = "idle" /\ tick' = [tick EXCEPT ![w] = time]
        /\ todo' = [todo EXCEPT ![w] = Running]
        /\ UNCHANGED <<time, job>>
    BY <1>2 DEF TickBegin
  <2>2. job[w].mailbox = None
    BY <2>1 DEF TypeOK
  <2>3. /\ tick'[w] = time /\ \A v \in Workers \ {w} : tick'[v] = tick[v] /\ todo'[v] = todo[v]
        /\ todo'[w] = Running /\ \A c \in Running : StartedAt[c] <= time
    BY <2>1 DEF TypeOK, Running
  <2>4. \A v \in Workers : Allowed(v)'
    BY <2>1, <2>2, <2>3 DEF Ticks, Allowed, EffectiveCap
  <2> QED BY <1>b, <2>1, <2>3, <2>4 DEF Ticks
<1>3. ASSUME NEW w \in Workers, TickEnd(w) PROVE Ticks'
  <2>1. /\ UNCHANGED <<time, todo, job>> /\ pc[w] = "campaigns" /\ todo[w] = {}
        /\ tick' = [tick EXCEPT ![w] = 0]
    BY <1>3 DEF TickEnd
  <2>2. job[w].mailbox = None /\ tick'[w] = 0 /\ \A v \in Workers \ {w} : tick'[v] = tick[v]
    BY <2>1 DEF TypeOK
  <2> QED BY <1>a, <1>b, <2>1, <2>2
<1>7. ASSUME NEW w \in Workers, NEW c \in Campaigns, Skip(w, c) PROVE Ticks'
  <2>1. UNCHANGED <<time, tick, job>> /\ \A v \in Workers : todo'[v] \subseteq todo[v]
    BY <1>7 DEF Skip, TypeOK
  <2> QED BY <1>a, <1>b, <2>1
<1>4. ASSUME NEW w \in Workers, NEW c \in Campaigns, NEW m \in Mailboxes, Pick(w, c, m) PROVE Ticks'
  <2>1. /\ c \in todo[w] /\ m \in Usable(w, c) /\ UNCHANGED <<time, tick>>
        /\ todo' = [todo EXCEPT ![w] = @ \ {c}]
        /\ \E r \in Rows : job' = [job EXCEPT ![w] = [row |-> r, mailbox |-> m, day |-> 0]]
    BY <1>4 DEF Pick
  <2>2. /\ job'[w].mailbox = m /\ \A v \in Workers \ {w} : job'[v] = job[v]
        /\ \A v \in Workers : todo'[v] \subseteq todo[v]
    BY <2>1 DEF TypeOK
  <2>3. m \in Pool[c] /\ StartedAt[c] <= tick[w]
    BY <2>1 DEF Usable, Ticks
  <2>4. EffectiveCap(c, tick[w]) >= 1
    <3>1. SentSince(m, Day(tick[w])) \in Nat
      BY SentCounts
    <3>2. SentSince(m, Day(tick[w])) < EffectiveCap(c, tick[w])
      BY <2>1 DEF Usable
    <3>3. EffectiveCap(c, tick[w]) \in Nat
      <4>1. tick[w] \in Nat /\ tick[w] <= tick[w]
        BY <1>0
      <4> QED BY <2>3, <4>1, CapGrows
    <3> QED BY <3>1, <3>2, <3>3
  <2>5. Allowed(w)'
    BY <2>1, <2>2, <2>3, <2>4 DEF Allowed, EffectiveCap
  <2>6. \A v \in Workers \ {w} : Allowed(v)'
    BY <2>1, <2>2 DEF Ticks, Allowed, EffectiveCap
  <2> QED BY <2>1, <2>2, <2>5, <2>6 DEF Ticks
<1>5. ASSUME NEW w \in Workers, \/ Claim(w) \/ Accept(w) \/ Mark(w) \/ EndSequence(w) \/ Reject(w)
                                \/ AcceptAndError(w)
      PROVE  Ticks'
  <2>1. UNCHANGED <<time, tick>> /\ \A v \in Workers : todo'[v] \subseteq todo[v]
    BY <1>5 DEF Claim, Accept, Mark, EndSequence, Reject, AcceptAndError, TypeOK
  <2>2. \/ job' = job \/ job' = [job EXCEPT ![w] = NoJob]
        \/ job' = [job EXCEPT ![w] = [job[w] EXCEPT !.day = Day(time)]]
    BY <1>5 DEF Claim, Accept, Mark, EndSequence, Reject, AcceptAndError, Done
  <2>3. \A v \in Workers : job'[v].mailbox \in {job[v].mailbox, None}
    <3>1. job' = [job EXCEPT ![w] = NoJob] => job'[w] = NoJob /\ \A v \in Workers \ {w} : job'[v] = job[v]
      BY DEF TypeOK
    <3>2. job' = [job EXCEPT ![w] = [job[w] EXCEPT !.day = Day(time)]]
            => job'[w].mailbox = job[w].mailbox /\ \A v \in Workers \ {w} : job'[v] = job[v]
      BY DEF TypeOK
    <3> QED BY <2>2, <3>1, <3>2, NoJobType
  <2> QED BY <1>a, <1>b, <2>1, <2>3
<1>8. ASSUME NEW w \in Workers, Restart(w) PROVE Ticks'
  <2>1. /\ time' = time /\ job' = [job EXCEPT ![w] = NoJob] /\ todo' = [todo EXCEPT ![w] = {}]
        /\ tick' = [tick EXCEPT ![w] = 0]
    BY <1>8 DEF Restart
  <2>2. /\ job'[w].mailbox = None /\ todo'[w] = {} /\ tick'[w] = 0
        /\ \A v \in Workers \ {w} : job'[v] = job[v] /\ todo'[v] = todo[v] /\ tick'[v] = tick[v]
    BY <2>1, NoJobType DEF TypeOK
  <2> QED BY <1>a, <1>b, <2>1, <2>2
<1>9. ASSUME Operator PROVE Ticks'
  <2>1. UNCHANGED <<time, tick, todo, job>>
    BY <1>9 DEF Operator, Requeue, Delete
  <2> QED BY <1>a, <1>b, <2>1
<1>6. CASE UNCHANGED vars
  BY <1>6, <1>a, <1>b DEF vars
<1> QED BY <1>1, <1>2, <1>3, <1>4, <1>5, <1>6, <1>7, <1>8, <1>9 DEF Next, Worker

-----------------------------------------------------------------------------
(* The ledger of a mailbox and a day. *)
Ledger == NotYet /\ BudgetBound /\ \A m \in Mailboxes : Accounted(m) /\ Covered(m)

\* What its parts are numbers of.
LEMMA Numbers ==
    ASSUME TypeOK
    PROVE  /\ Day(time) \in Days /\ Day(time) \in Nat
           /\ \A m \in Mailboxes, d \in Days :
                /\ mailed[m][d] \in Nat /\ missed[m][d] \in Nat /\ Budget(m, d) \in Nat /\ d \in Nat
                /\ Cardinality(Counted(m, d)) \in Nat /\ Cardinality(Pending(m)) \in Nat
                /\ Cardinality(Unrecorded(m, d)) \in Nat
                /\ Cardinality(Unrecorded(m, d)) <= Cardinality(Pending(m))
                /\ Cardinality(Pending(m)) <= Cardinality(Workers)
           /\ Cardinality(Workers) \in Nat /\ Cardinality(Workers) >= 1
<1>1. Day(time) \in Days /\ Day(time) \in Nat
  BY Times DEF TypeOK
<1>2. \A d \in Days : d \in Nat
  BY DEF Days
<1>3. \A m \in Mailboxes, d \in Days : mailed[m][d] \in Nat /\ missed[m][d] \in Nat
  BY DEF TypeOK
<1>4. \A m \in Mailboxes, d \in Days : Budget(m, d) \in Nat
  BY <1>2, BudgetIsTop
<1> QED BY <1>1, <1>2, <1>3, <1>4, Finite

\* The same of the next state.
LEMMA FiniteNext ==
    ASSUME NEW m, NEW d
    PROVE  /\ Cardinality(Counted(m, d)') \in Nat /\ Cardinality(Pending(m)') \in Nat
           /\ IsFiniteSet(Pending(m)') /\ Cardinality(Unrecorded(m, d)') \in Nat
           /\ Cardinality(Unrecorded(m, d)') <= Cardinality(Pending(m)')
           /\ Cardinality(Pending(m)') <= Cardinality(Workers)
<1>1. /\ Counted(m, d)' \in SUBSET Rows /\ Pending(m)' \in SUBSET Workers
      /\ Unrecorded(m, d)' \in SUBSET (Pending(m)')
  BY DEF Counted, Pending, Unrecorded
<1>2. IsFiniteSet(Pending(m)') /\ Cardinality(Pending(m)') <= Cardinality(Workers)
  BY <1>1, FS_Subset
<1>3. IsFiniteSet(Counted(m, d)') /\ IsFiniteSet(Unrecorded(m, d)')
      /\ Cardinality(Unrecorded(m, d)') <= Cardinality(Pending(m)')
  BY <1>1, <1>2, FS_Subset
<1> QED BY <1>2, <1>3, FS_CardinalityType

\* A step of today keeps the ledger when what it mails is counted, missed or in
\* the hands of a worker, and the budget still covers the rows and the workers.
LEMMA LedgerMoves ==
    ASSUME TypeOK, TypeOK', Ledger, time' = time, NEW today \in Days, today = Day(time),
           \A m \in Mailboxes : Covered(m)',
           \A m \in Mailboxes, d \in Days :
               /\ missed'[m][d] >= missed[m][d]
               /\ d # today => mailed'[m][d] = mailed[m][d],
           \A m \in Mailboxes :
               mailed'[m][today] - mailed[m][today] <=
                   (Cardinality(Counted(m, today)') - Cardinality(Counted(m, today)))
                   + (missed'[m][today] - missed[m][today])
                   + (Cardinality(Unrecorded(m, today)') - Cardinality(Unrecorded(m, today)))
    PROVE  Ledger'
<1>1. /\ today \in Days /\ today \in Nat
      /\ \A m \in Mailboxes, d \in Days :
           /\ mailed[m][d] \in Nat /\ missed[m][d] \in Nat /\ Budget(m, d) \in Nat
           /\ Cardinality(Counted(m, d)) \in Nat /\ Cardinality(Unrecorded(m, d)) \in Nat
           /\ d \in Nat
      /\ Cardinality(Workers) \in Nat
  BY Numbers
<1>2. \A m \in Mailboxes, d \in Days : mailed'[m][d] \in Nat /\ missed'[m][d] \in Nat
  BY DEF TypeOK
<1>3. \A m \in Mailboxes :
        /\ Cardinality(Counted(m, today)') \in Nat /\ Cardinality(Pending(m)') \in Nat
        /\ Cardinality(Unrecorded(m, today)') \in Nat
        /\ Cardinality(Unrecorded(m, today)') <= Cardinality(Pending(m)')
  BY FiniteNext
<1>4. Day(time') = today
  OBVIOUS
<1>5. \A m \in Mailboxes, d \in Days : Budget(m, d)' = Budget(m, d)
  BY DEF Budget, EffectiveCap
<1>6. ASSUME NEW m \in Mailboxes
      PROVE  /\ mailed'[m][today] <= Cardinality(Counted(m, today)') + missed'[m][today]
                                       + Cardinality(Unrecorded(m, today)')
             /\ Cardinality(Counted(m, today)') + Cardinality(Pending(m)')
                  <= Budget(m, today) + Cardinality(Workers) - 1
  <2>1. mailed[m][today] <= Cardinality(Counted(m, today)) + missed[m][today] + Cardinality(Unrecorded(m, today))
    BY DEF Ledger, Accounted
  <2>2. mailed'[m][today] - mailed[m][today] <=
          (Cardinality(Counted(m, today)') - Cardinality(Counted(m, today)))
          + (missed'[m][today] - missed[m][today])
          + (Cardinality(Unrecorded(m, today)') - Cardinality(Unrecorded(m, today)))
    OBVIOUS
  <2>3. Cardinality(Counted(m, today)') + Cardinality(Pending(m)') <= Budget(m, today) + Cardinality(Workers) - 1
    BY <1>1, <1>4, <1>5 DEF Covered
  <2> QED BY <1>1, <1>2, <1>3, <2>1, <2>2, <2>3
<1>7. \A m \in Mailboxes : Accounted(m)'
  BY <1>4, <1>6 DEF Accounted
<1>8. ASSUME NEW m \in Mailboxes, NEW d \in Days
      PROVE  mailed'[m][d] <= Budget(m, d) + missed'[m][d] + Cardinality(Workers) - 1
  <2>1. CASE d = today
    <3> DEFINE k == Cardinality(Counted(m, today)')
               p == Cardinality(Pending(m)')
               u == Cardinality(Unrecorded(m, today)')
    <3>1. /\ mailed'[m][d] <= k + missed'[m][d] + u /\ k + p <= Budget(m, d) + Cardinality(Workers) - 1
          /\ k \in Nat /\ p \in Nat /\ u \in Nat /\ u <= p
      BY <1>3, <1>6, <2>1
    <3> HIDE DEF k, p, u
    <3> QED BY <1>1, <1>2, <3>1
  <2>2. CASE d # today
    <3>1. mailed'[m][d] = mailed[m][d] /\ missed'[m][d] >= missed[m][d]
      BY <2>2
    <3>2. mailed[m][d] <= Budget(m, d) + missed[m][d] + Cardinality(Workers) - 1
      BY DEF Ledger, BudgetBound
    <3> QED BY <1>1, <1>2, <3>1, <3>2
  <2> QED BY <2>1, <2>2
<1>9. BudgetBound'
  BY <1>5, <1>8 DEF BudgetBound
<1>10. NotYet'
  <2>1. \A m \in Mailboxes, d \in Days : d > today => mailed'[m][d] = 0
    BY <1>1 DEF Ledger, NotYet
  <2> QED BY <1>4, <2>1 DEF NotYet
<1> QED BY <1>7, <1>9, <1>10 DEF Ledger

\* It covers them when no number grows.
LEMMA StillCovered ==
    ASSUME TypeOK, Ledger, time' = time, NEW d \in Days, d = Day(time),
           \A m \in Mailboxes :
               Cardinality(Counted(m, d)') + Cardinality(Pending(m)')
                 <= Cardinality(Counted(m, d)) + Cardinality(Pending(m))
    PROVE  \A m \in Mailboxes : Covered(m)'
<1> TAKE m \in Mailboxes
<1>1. Budget(m, d)' = Budget(m, d) /\ Day(time') = d
  BY DEF Budget, EffectiveCap
<1> DEFINE k == Cardinality(Counted(m, d))
           kk == Cardinality(Counted(m, d)')
           p == Cardinality(Pending(m))
           pp == Cardinality(Pending(m)')
           b == Budget(m, d) + Cardinality(Workers) - 1
<1>2. k + p <= b /\ kk + pp <= k + p
  BY DEF Ledger, Covered
<1>3. k \in Nat /\ kk \in Nat /\ p \in Nat /\ pp \in Nat /\ b \in Int
  BY Numbers, FiniteNext
<1>4. kk + pp <= b
  <2> HIDE DEF k, kk, p, pp, b
  <2> QED BY <1>2, <1>3
<1> QED BY <1>1, <1>4 DEF Covered

\* Every step keeps the ledger.
LEMMA LedgerStep == ASSUME TypeOK, TypeOK', RowsKept, Ticks, Ledger, [Next]_vars PROVE Ledger'
<1>t. PICK today \in Days : today = Day(time)
  BY Numbers
<1>0. /\ today \in Days /\ today \in Nat
      /\ \A m \in Mailboxes, d \in Days :
           /\ mailed[m][d] \in Nat /\ missed[m][d] \in Nat
           /\ Cardinality(Counted(m, d)) \in Nat /\ Cardinality(Pending(m)) \in Nat
           /\ Cardinality(Unrecorded(m, d)) \in Nat
  BY <1>t, Numbers
<1>m. \A w \in Workers : /\ pc[w] \in {"claim", "smtp", "mark"} => job[w].mailbox \in Mailboxes
                         /\ job[w].row \in Rows /\ job[w].day \in Days
  BY DEF TypeOK
<1>r. \A r \in Rows : rec[r].sent \in Int
  <2>1. \A x \in Days \cup {Never} : x \in Int
    BY DEF Days, Never
  <2>2. \A r \in Rows : rec[r].sent \in Days \cup {Never}
    BY DEF TypeOK
  <2> QED BY <2>1, <2>2
\* Nothing is mailed, missed, marked or picked.
<1>a. ASSUME UNCHANGED <<time, mailed, missed>>,
             \A m \in Mailboxes :
                 /\ Counted(m, today)' = Counted(m, today) /\ Unrecorded(m, today)' = Unrecorded(m, today)
                 /\ Cardinality(Pending(m)') <= Cardinality(Pending(m))
      PROVE  Ledger'
  <2>1. \A m \in Mailboxes :
            Cardinality(Counted(m, today)') + Cardinality(Pending(m)')
              <= Cardinality(Counted(m, today)) + Cardinality(Pending(m))
    <3> TAKE m \in Mailboxes
    <3>1. Cardinality(Counted(m, today)') = Cardinality(Counted(m, today))
      BY <1>a
    <3>2. Cardinality(Pending(m)') \in Nat
      BY FiniteNext
    <3>3. Cardinality(Pending(m)') <= Cardinality(Pending(m))
      BY <1>a
    <3> QED BY <1>0, <3>1, <3>2, <3>3
  <2>2. \A m \in Mailboxes : Covered(m)'
    BY <1>a, <1>t, <2>1, StillCovered
  <2>3. \A m \in Mailboxes, d \in Days :
           /\ missed'[m][d] >= missed[m][d]
           /\ d # today => mailed'[m][d] = mailed[m][d]
    BY <1>0, <1>a
  <2>4. ASSUME NEW m \in Mailboxes
        PROVE  mailed'[m][today] - mailed[m][today] <=
                   (Cardinality(Counted(m, today)') - Cardinality(Counted(m, today)))
                   + (missed'[m][today] - missed[m][today])
                   + (Cardinality(Unrecorded(m, today)') - Cardinality(Unrecorded(m, today)))
    <3>1. Cardinality(Counted(m, today)') = Cardinality(Counted(m, today))
          /\ Cardinality(Unrecorded(m, today)') = Cardinality(Unrecorded(m, today))
      BY <1>a
    <3>2. mailed' = mailed /\ missed' = missed
      BY <1>a
    <3> QED BY <1>0, <3>1, <3>2
  <2> QED BY <1>a, <1>t, <2>2, <2>3, <2>4, LedgerMoves
\* A worker moves on without a word about mailboxes or days.
<1>b. ASSUME UNCHANGED <<time, rec, job, mailed, missed>>,
             \A w \in Workers : pc'[w] = "mark" <=> pc[w] = "mark"
      PROVE  Ledger'
  <2>1. \A m \in Mailboxes : /\ Counted(m, today)' = Counted(m, today) /\ Pending(m)' = Pending(m)
                             /\ Unrecorded(m, today)' = Unrecorded(m, today)
    BY <1>b DEF Counted, Pending, Unrecorded
  <2>2. \A m \in Mailboxes : Cardinality(Pending(m)') <= Cardinality(Pending(m))
    <3> TAKE m \in Mailboxes
    <3>1. Cardinality(Pending(m)') = Cardinality(Pending(m))
      BY <2>1
    <3> QED BY <1>0, <3>1
  <2> QED BY <1>a, <1>b, <2>1, <2>2
\* Half a day goes by; at midnight the count starts again.
<1>1. CASE HalfDay
  <2>1. time' = time + 1 /\ time \in 0..MaxTime /\ time' \in 0..MaxTime /\ UNCHANGED <<rec, pc, tick, job, mailed, missed>>
    BY <1>1 DEF HalfDay, TypeOK
  <2>2. \A n \in Mailboxes, d \in Days :
          /\ Counted(n, d)' = Counted(n, d) /\ Pending(n)' = Pending(n)
          /\ Unrecorded(n, d)' = Unrecorded(n, d) /\ Budget(n, d)' = Budget(n, d)
    BY <2>1 DEF Counted, Pending, Unrecorded, Budget, EffectiveCap
  <2>3. PICK next \in Days : next = Day(time')
    BY <2>1, Times
  <2>4. next \in Nat /\ (next = today \/ next > today)
    BY <1>0, <1>t, <2>1, <2>3, Times DEF Day
  <2>5. \A d \in Days : d \in Nat
    BY DEF Days
  <2>6. NotYet' /\ BudgetBound'
    <3>1. NotYet'
      <4>1. \A n \in Mailboxes, d \in Days : d > next => mailed[n][d] = 0
        <5> TAKE n \in Mailboxes, d \in Days
        <5>1. d \in Nat /\ next \in Nat /\ today \in Nat
          BY <2>4, <2>5
        <5>2. d > next => d > today
          BY <2>4, <5>1
        <5> QED BY <1>t, <5>2 DEF Ledger, NotYet
      <4> QED BY <2>1, <2>3, <4>1 DEF NotYet
    <3>2. BudgetBound'
      BY <2>1, <2>2 DEF Ledger, BudgetBound
    <3> QED BY <3>1, <3>2
  <2>7. CASE next = today
    <3>1. ASSUME NEW n \in Mailboxes PROVE Accounted(n)' /\ Covered(n)'
      <4>1. mailed[n][today] <= Cardinality(Counted(n, today)) + missed[n][today] + Cardinality(Unrecorded(n, today))
        BY <1>t DEF Ledger, Accounted
      <4>2. Cardinality(Counted(n, today)) + Cardinality(Pending(n)) <= Budget(n, today) + Cardinality(Workers) - 1
        BY <1>t DEF Ledger, Covered
      <4>3. Day(time') = today
        BY <2>3, <2>7
      <4> QED BY <2>1, <2>2, <4>1, <4>2, <4>3 DEF Accounted, Covered
    <3> QED BY <2>6, <3>1 DEF Ledger
  <2>8. CASE next > today
    <3>1. ASSUME NEW n \in Mailboxes PROVE Accounted(n)' /\ Covered(n)'
      <4>1. Counted(n, next) = {}
        <5>1. \A r \in Rows : ~(rec[r].sent >= next)
          BY <1>0, <1>r, <1>t, <2>4, <2>8 DEF RowsKept
        <5> QED BY <5>1 DEF Counted
      <4>2. Cardinality(Counted(n, next)) = 0
        BY <4>1, FS_EmptySet
      <4>3. mailed[n][next] = 0
        BY <1>t, <2>8 DEF Ledger, NotYet
      <4>4. /\ missed[n][next] \in Nat /\ Cardinality(Unrecorded(n, next)) \in Nat /\ Budget(n, next) \in Nat
            /\ Cardinality(Pending(n)) \in Nat /\ Cardinality(Pending(n)) <= Cardinality(Workers)
            /\ Cardinality(Workers) \in Nat /\ Cardinality(Workers) >= 1
        BY <1>0, <2>4, Finite, BudgetIsTop
      <4>5. Accounted(n)'
        <5>1. mailed[n][next] <= Cardinality(Counted(n, next)) + missed[n][next] + Cardinality(Unrecorded(n, next))
          BY <4>2, <4>3, <4>4
        <5> QED BY <2>1, <2>2, <2>3, <5>1 DEF Accounted
      <4>6. Cardinality(Pending(n)) <= Budget(n, next) + Cardinality(Workers) - 1
        <5>1. CASE Pending(n) = {}
          <6>1. Cardinality(Pending(n)) = 0
            BY <5>1, FS_EmptySet
          <6> QED BY <4>4, <6>1
        <5>2. CASE Pending(n) # {}
          <6>1. PICK v \in Workers : job[v].mailbox = n
            BY <5>2 DEF Pending
          <6>2. PICK c \in Campaigns : n \in Pool[c] /\ StartedAt[c] <= tick[v] /\ EffectiveCap(c, tick[v]) >= 1
            BY <6>1 DEF Ticks, Allowed
          <6>3. tick[v] \in Nat /\ tick[v] <= 2 * next + 1
            <7>1. tick[v] \in 0..MaxTime /\ tick[v] <= time
              BY DEF TypeOK, Ticks
            <7> QED BY <2>1, <2>3, <7>1, Times
          <6>4. EffectiveCap(c, tick[v]) <= Budget(n, next) /\ EffectiveCap(c, tick[v]) \in Nat
            BY <2>4, <6>2, <6>3, BudgetIsTop, CapGrows
          <6> QED BY <4>4, <6>2, <6>4
        <5> QED BY <5>1, <5>2
      <4>7. Covered(n)'
        <5>1. Cardinality(Counted(n, next)) + Cardinality(Pending(n)) <= Budget(n, next) + Cardinality(Workers) - 1
          BY <4>2, <4>4, <4>6
        <5> QED BY <2>1, <2>2, <2>3, <5>1 DEF Covered
      <4> QED BY <4>5, <4>7
    <3> QED BY <2>6, <3>1 DEF Ledger
  <2> QED BY <2>4, <2>7, <2>8
<1>2. ASSUME NEW w \in Workers, TickBegin(w) \/ TickEnd(w) \/ \E c \in Campaigns : Skip(w, c)
      PROVE  Ledger'
  <2>1. UNCHANGED <<time, rec, job, mailed, missed>> /\ \A v \in Workers : pc'[v] = "mark" <=> pc[v] = "mark"
    BY <1>2 DEF TickBegin, TickEnd, Skip, TypeOK
  <2> QED BY <1>b, <2>1
\* A worker picks a mailbox with room left: it is one of those beyond the count.
<1>3. ASSUME NEW w \in Workers, NEW c \in Campaigns, NEW m \in Mailboxes, Pick(w, c, m) PROVE Ledger'
  <2>1. /\ pc[w] = "campaigns" /\ c \in todo[w] /\ m \in Usable(w, c) /\ UNCHANGED <<time, rec, mailed, missed>>
        /\ pc' = [pc EXCEPT ![w] = "claim"]
    BY <1>3 DEF Pick
  <2>2. PICK r \in Rows : job' = [job EXCEPT ![w] = [row |-> r, mailbox |-> m, day |-> 0]]
    BY <1>3 DEF Pick
  <2>3. /\ job[w].mailbox = None /\ job'[w].mailbox = m /\ pc'[w] = "claim"
        /\ \A v \in Workers \ {w} : job'[v] = job[v] /\ pc'[v] = pc[v]
    BY <2>1, <2>2 DEF TypeOK
  <2>4. \A n \in Mailboxes : /\ Counted(n, today)' = Counted(n, today) /\ Unrecorded(n, today)' = Unrecorded(n, today)
                             /\ n # m => Pending(n)' = Pending(n)
    <3>1. \A n \in Mailboxes : Counted(n, today)' = Counted(n, today)
      BY <2>1 DEF Counted
    <3> QED BY <2>1, <2>3, <3>1 DEF Pending, Unrecorded
  <2>5. /\ Cardinality(Counted(m, today)) + 1 <= Budget(m, today)
        /\ Budget(m, today) \in Nat /\ Cardinality(Workers) \in Nat
    <3>1. /\ m \in Pool[c] /\ StartedAt[c] <= tick[w] /\ tick[w] <= time
          /\ SentSince(m, Day(tick[w])) < EffectiveCap(c, tick[w])
      BY <2>1 DEF Usable, Ticks
    <3>2. tick[w] \in Nat /\ time \in Nat /\ tick[w] <= 2 * today + 1
          /\ Day(tick[w]) \in Nat /\ Day(tick[w]) <= today
      <4>1. tick[w] \in 0..MaxTime /\ time \in 0..MaxTime
        BY DEF TypeOK
      <4>2. /\ Day(tick[w]) \in Nat /\ tick[w] <= 2 * Day(tick[w]) + 1 /\ 2 * Day(tick[w]) <= tick[w]
            /\ Day(time) \in Nat /\ time <= 2 * Day(time) + 1 /\ 2 * Day(time) <= time
        BY <4>1, Times
      <4> QED BY <1>t, <3>1, <4>1, <4>2
    <3>3. EffectiveCap(c, tick[w]) \in Nat /\ EffectiveCap(c, tick[w]) <= Budget(m, today)
      BY <1>0, <3>1, <3>2, CapGrows, BudgetIsTop
    <3>4. SentSince(m, Day(tick[w])) \in Nat /\ Cardinality(Counted(m, Day(tick[w]))) <= SentSince(m, Day(tick[w]))
      BY SentCounts
    <3>5. Cardinality(Counted(m, today)) <= Cardinality(Counted(m, Day(tick[w])))
      BY <1>0, <3>2, FewerLater
    <3>6. Cardinality(Counted(m, Day(tick[w]))) \in Nat /\ Cardinality(Counted(m, today)) \in Nat
          /\ Budget(m, today) \in Nat /\ Cardinality(Workers) \in Nat
      BY <1>0, Finite, BudgetIsTop
    <3> QED BY <3>1, <3>3, <3>4, <3>5, <3>6
  <2>6. ASSUME NEW n \in Mailboxes PROVE Covered(n)'
    <3>0. Budget(n, today)' = Budget(n, today) /\ Day(time') = today
      BY <1>t, <2>1 DEF Budget, EffectiveCap
    <3>1. CASE n = m
      <4> DEFINE k == Cardinality(Counted(m, today))
                 p == Cardinality(Pending(m)')
                 b == Budget(m, today)
                 s == Cardinality(Workers)
      <4>1. k \in Nat /\ p \in Nat /\ b \in Nat /\ s \in Nat /\ p <= s /\ k + 1 <= b
        BY <1>0, <2>5, FiniteNext
      <4>2. k + p <= b + s - 1
        <5> HIDE DEF k, p, b, s
        <5> QED BY <4>1
      <4> QED BY <2>4, <3>0, <3>1, <4>2 DEF Covered
    <3>2. CASE n # m
      <4>1. Cardinality(Counted(n, today)) + Cardinality(Pending(n)) <= Budget(n, today) + Cardinality(Workers) - 1
        BY <1>t DEF Ledger, Covered
      <4>2. Pending(n)' = Pending(n) /\ Counted(n, today)' = Counted(n, today)
        BY <2>4, <3>2
      <4> QED BY <3>0, <4>1, <4>2 DEF Covered
    <3> QED BY <3>1, <3>2
  <2>7. ASSUME NEW n \in Mailboxes
        PROVE  mailed'[n][today] - mailed[n][today] <=
                   (Cardinality(Counted(n, today)') - Cardinality(Counted(n, today)))
                   + (missed'[n][today] - missed[n][today])
                   + (Cardinality(Unrecorded(n, today)') - Cardinality(Unrecorded(n, today)))
    <3>1. Cardinality(Counted(n, today)') = Cardinality(Counted(n, today))
          /\ Cardinality(Unrecorded(n, today)') = Cardinality(Unrecorded(n, today))
      BY <2>4
    <3> QED BY <1>0, <2>1, <3>1
  <2>8. \A n \in Mailboxes, d \in Days :
           /\ missed'[n][d] >= missed[n][d]
           /\ d # today => mailed'[n][d] = mailed[n][d]
    BY <1>0, <2>1
  <2> QED BY <1>t, <2>1, <2>6, <2>7, <2>8, LedgerMoves
\* A worker puts down its row. The row may be counted from now on; what the worker
\* mailed or held of today is then counted or missed.
<1>n. \A m \in Mailboxes, d \in Days :
         /\ mailed'[m][d] \in Nat /\ missed'[m][d] \in Nat /\ Cardinality(Counted(m, d)') \in Nat
  BY FiniteNext DEF TypeOK
<1>i. \A w \in Workers, m \in Mailboxes, d \in Days :
         Its(w, m) \in {0, 1} /\ Held(w, m, d) \in {0, 1} /\ Held(w, m, d) <= Its(w, m)
  BY DEF Its, Held
<1>d. ASSUME NEW w \in Workers, time' = time, job' = [job EXCEPT ![w] = NoJob],
             \A v \in Workers \ {w} : pc'[v] = pc[v], pc'[w] # "mark",
             \A m \in Mailboxes :
                /\ Cardinality(Counted(m, today)') <= Cardinality(Counted(m, today)) + Its(w, m)
                /\ (mailed'[m][today] - mailed[m][today]) + Held(w, m, today) <=
                     (Cardinality(Counted(m, today)') - Cardinality(Counted(m, today)))
                     + (missed'[m][today] - missed[m][today])
                /\ \A d \in Days : missed'[m][d] >= missed[m][d] /\ (d # today => mailed'[m][d] = mailed[m][d])
      PROVE  Ledger'
  <2>1. \A m \in Mailboxes : /\ Cardinality(Pending(m)') = Cardinality(Pending(m)) - Its(w, m)
                             /\ Cardinality(Unrecorded(m, today)') = Cardinality(Unrecorded(m, today)) - Held(w, m, today)
    BY <1>0, <1>d, Leaves
  <2>2. \A m \in Mailboxes :
            Cardinality(Counted(m, today)') + Cardinality(Pending(m)')
              <= Cardinality(Counted(m, today)) + Cardinality(Pending(m))
    <3> TAKE m \in Mailboxes
    <3>1. Cardinality(Counted(m, today)') <= Cardinality(Counted(m, today)) + Its(w, m)
          /\ Cardinality(Pending(m)') = Cardinality(Pending(m)) - Its(w, m)
      BY <1>d, <2>1
    <3> QED BY <1>0, <1>i, <1>n, <3>1
  <2>3. \A m \in Mailboxes : Covered(m)'
    BY <1>d, <1>t, <2>2, StillCovered
  <2>4. ASSUME NEW m \in Mailboxes
        PROVE  mailed'[m][today] - mailed[m][today] <=
                   (Cardinality(Counted(m, today)') - Cardinality(Counted(m, today)))
                   + (missed'[m][today] - missed[m][today])
                   + (Cardinality(Unrecorded(m, today)') - Cardinality(Unrecorded(m, today)))
    <3>1. (mailed'[m][today] - mailed[m][today]) + Held(w, m, today) <=
                     (Cardinality(Counted(m, today)') - Cardinality(Counted(m, today)))
                     + (missed'[m][today] - missed[m][today])
      BY <1>d
    <3>2. Cardinality(Unrecorded(m, today)') = Cardinality(Unrecorded(m, today)) - Held(w, m, today)
      BY <2>1
    <3> QED BY <1>0, <1>i, <1>n, <3>1, <3>2
  <2> QED BY <1>d, <1>t, <2>3, <2>4, LedgerMoves
\* Where the worker is when it has put down its row.
<1>e. ASSUME NEW w \in Workers, pc' = [pc EXCEPT ![w] = "campaigns"] \/ pc' = [pc EXCEPT ![w] = "idle"]
      PROVE  pc'[w] # "mark" /\ \A v \in Workers \ {w} : pc'[v] = pc[v]
  BY <1>e DEF TypeOK
<1>o. ASSUME NEW w \in Workers, Handling(w) PROVE job[w].mailbox \in Mailboxes
  BY <1>m, <1>o DEF Handling
\* The mails and the misses of a worker.
<1>x. ASSUME NEW w \in Workers, job[w].mailbox \in Mailboxes, Mailed(w)
      PROVE  \A m \in Mailboxes : 
                /\ mailed'[m][today] = mailed[m][today] + (IF job[w].mailbox = m THEN 1 ELSE 0)
                /\ \A d \in Days \ {today} : mailed'[m][d] = mailed[m][d]
  BY <1>0, <1>t, <1>x DEF Mailed, TypeOK
<1>y. ASSUME NEW w \in Workers, job[w].mailbox \in Mailboxes, NEW e \in Days, Miss(w, e)
      PROVE  \A m \in Mailboxes, d \in Days :
                missed'[m][d] = missed[m][d] + (IF job[w].mailbox = m /\ d = e THEN 1 ELSE 0)
  BY <1>0, <1>y DEF Miss, TypeOK
\* The server takes the mail: the worker holds it until the row is marked.
<1>5. ASSUME NEW w \in Workers, Accept(w) PROVE Ledger'
  <2>1. /\ pc[w] = "smtp" /\ Mailed(w) /\ pc' = [pc EXCEPT ![w] = "mark"] /\ UNCHANGED <<time, rec, missed>>
        /\ job' = [job EXCEPT ![w] = [job[w] EXCEPT !.day = today]]
    BY <1>5, <1>t DEF Accept
  <2>2. job[w].mailbox \in Mailboxes
    BY <1>m, <2>1
  <2>3. /\ job'[w].mailbox = job[w].mailbox /\ job'[w].day = today /\ pc'[w] = "mark"
        /\ \A v \in Workers \ {w} : job'[v] = job[v] /\ pc'[v] = pc[v]
    BY <2>1 DEF TypeOK
  <2>4. \A n \in Mailboxes :
          /\ Counted(n, today)' = Counted(n, today) /\ Pending(n)' = Pending(n)
          /\ Unrecorded(n, today)' = IF job[w].mailbox = n THEN Unrecorded(n, today) \cup {w} ELSE Unrecorded(n, today)
          /\ w \notin Unrecorded(n, today)
    <3>1. \A n \in Mailboxes : Counted(n, today)' = Counted(n, today)
      BY <2>1 DEF Counted
    <3>2. \A n \in Mailboxes : Pending(n)' = Pending(n)
      BY <2>3 DEF Pending
    <3>3. \A n \in Mailboxes :
          /\ Unrecorded(n, today)' = IF job[w].mailbox = n THEN Unrecorded(n, today) \cup {w} ELSE Unrecorded(n, today)
          /\ w \notin Unrecorded(n, today)
      BY <2>1, <2>3 DEF Pending, Unrecorded
    <3> QED BY <3>1, <3>2, <3>3
  <2>5. \A n \in Mailboxes : Cardinality(Unrecorded(n, today)') =
                Cardinality(Unrecorded(n, today)) + (IF job[w].mailbox = n THEN 1 ELSE 0)
    <3> TAKE n \in Mailboxes
    <3>1. Cardinality(Unrecorded(n, today) \cup {w}) = Cardinality(Unrecorded(n, today)) + 1
      BY <2>4, Finite, FS_AddElement
    <3>2. CASE job[w].mailbox = n
      BY <2>4, <3>1, <3>2
    <3>3. CASE job[w].mailbox # n
      <4>1. Unrecorded(n, today)' = Unrecorded(n, today)
        BY <2>4, <3>3
      <4>2. Cardinality(Unrecorded(n, today)') = Cardinality(Unrecorded(n, today))
        BY <4>1
      <4> QED BY <1>0, <3>3, <4>2
    <3> QED BY <3>2, <3>3
  <2>6. \A n \in Mailboxes :
            Cardinality(Counted(n, today)') + Cardinality(Pending(n)')
              <= Cardinality(Counted(n, today)) + Cardinality(Pending(n))
    <3> TAKE n \in Mailboxes
    <3>1. Cardinality(Counted(n, today)') = Cardinality(Counted(n, today))
          /\ Cardinality(Pending(n)') = Cardinality(Pending(n))
      BY <2>4
    <3> QED BY <1>0, <3>1
  <2>7. \A n \in Mailboxes : Covered(n)'
    BY <1>t, <2>1, <2>6, StillCovered
  <2>8. \A n \in Mailboxes : 
                /\ mailed'[n][today] = mailed[n][today] + (IF job[w].mailbox = n THEN 1 ELSE 0)
                /\ \A d \in Days \ {today} : mailed'[n][d] = mailed[n][d]
    BY <1>x, <2>1, <2>2
  <2>9. ASSUME NEW n \in Mailboxes
        PROVE  mailed'[n][today] - mailed[n][today] <=
                   (Cardinality(Counted(n, today)') - Cardinality(Counted(n, today)))
                   + (missed'[n][today] - missed[n][today])
                   + (Cardinality(Unrecorded(n, today)') - Cardinality(Unrecorded(n, today)))
    <3>1. Cardinality(Counted(n, today)') = Cardinality(Counted(n, today)) /\ missed'[n][today] = missed[n][today]
      BY <2>1, <2>4
    <3> QED BY <1>0, <2>5, <2>8, <3>1
  <2>10. \A n \in Mailboxes, d \in Days :
           /\ missed'[n][d] >= missed[n][d]
           /\ d # today => mailed'[n][d] = mailed[n][d]
    BY <1>0, <2>1, <2>8
  <2> QED BY <1>t, <2>1, <2>7, <2>9, <2>10, LedgerMoves
\* What becomes of the count when a worker is done with its row.
<1>p. ASSUME NEW w \in Workers, Handling(w), NEW row, Written(rec[job[w].row], row),
             rec' = (IF Kept(job[w].row) THEN [rec EXCEPT ![job[w].row] = row] ELSE rec)
      PROVE  \A m \in Mailboxes :
               /\ Cardinality(Counted(m, today)) <= Cardinality(Counted(m, today)')
               /\ Cardinality(Counted(m, today)') <= Cardinality(Counted(m, today)) + Its(w, m)
               /\ Kept(job[w].row) /\ row.mailbox = rec[job[w].row].mailbox /\ row.sent = today
                    => Cardinality(Counted(m, today)') = Cardinality(Counted(m, today)) + Its(w, m)
  <2> DEFINE r == job[w].row
  <2>1. CASE ~Kept(r)
    <3>1. \A m \in Mailboxes : Counted(m, today)' = Counted(m, today)
      BY <1>p, <2>1 DEF Counted
    <3> TAKE m \in Mailboxes
    <3>2. Cardinality(Counted(m, today)') = Cardinality(Counted(m, today))
      BY <3>1
    <3> QED BY <1>0, <1>i, <2>1, <3>2
  <2>2. CASE Kept(r)
    <3>1. rec[r].status = "sending" /\ rec[r].mailbox = job[w].mailbox /\ r \in Rows /\ job[w].mailbox \in Mailboxes
      BY <1>m, <1>p, <2>2 DEF RowsKept, OwnRow, Handling
    <3>2. rec'[r] = row /\ row.status # "sending" /\ \A q \in Rows \ {r} : rec'[q] = rec[q]
      BY <1>p, <2>2, <3>1 DEF TypeOK, Written
    <3> TAKE m \in Mailboxes
    <3>3. Cardinality(Counted(m, today)') = Cardinality(Counted(m, today))
                                   + (IF row.mailbox = m /\ row.sent >= today THEN 1 ELSE 0)
      <4> HIDE DEF r
      <4>1. Cardinality(Counted(m, today)') = Cardinality(Counted(m, today))
                                   + (IF rec'[r].mailbox = m /\ rec'[r].sent >= today THEN 1 ELSE 0)
        BY <3>1, <3>2, Counts
      <4> QED BY <3>2, <4>1
    <3>4. row.mailbox \in {job[w].mailbox, None}
      BY <1>p, <3>1 DEF Written
    <3>5. row.mailbox = m => Its(w, m) = 1
      BY <3>4 DEF Its
    <3>6. row.mailbox = rec[r].mailbox /\ row.sent = today
            => (IF row.mailbox = m /\ row.sent >= today THEN 1 ELSE 0) = Its(w, m)
      BY <1>0, <3>1 DEF Its
    <3>7. Cardinality(Counted(m, today)) \in Nat /\ Its(w, m) \in {0, 1}
      BY <1>0, <1>i
    <3> HIDE DEF r
    <3>8. /\ Cardinality(Counted(m, today)) <= Cardinality(Counted(m, today)')
          /\ Cardinality(Counted(m, today)') <= Cardinality(Counted(m, today)) + Its(w, m)
      BY <3>3, <3>5, <3>7
    <3>9. row.mailbox = rec[r].mailbox /\ row.sent = today
            => Cardinality(Counted(m, today)') = Cardinality(Counted(m, today)) + Its(w, m)
      BY <3>3, <3>6
    <3> QED BY <3>8, <3>9 DEF r
  <2> QED BY <2>1, <2>2
<1>q. \A w \in Workers : rec[job[w].row] \in RowType
  BY <1>m DEF TypeOK, RowType, Dues, Status
\* A follow-up is claimed, or rows are deleted: what they record of today is missed.
<1>g. ASSUME NEW R \in SUBSET Rows, Forget(R), UNCHANGED <<time, job, mailed>>,
             \A v \in Workers : pc'[v] = "mark" <=> pc[v] = "mark",
             \A q \in Rows \ R : rec'[q] = rec[q],
             \A q \in R : rec'[q].status = "sending" \/ rec'[q].mailbox \notin Mailboxes
      PROVE  Ledger'
  <2>1. \A m \in Mailboxes :
             /\ Cardinality(Counted(m, today)') <= Cardinality(Counted(m, today))
             /\ Cardinality(Counted(m, today)) <=
                  Cardinality(Counted(m, today)') + (missed'[m][today] - missed[m][today])
             /\ \A d \in Days : missed'[m][d] \in Nat /\ missed'[m][d] >= missed[m][d]
    BY <1>g, <1>t, Forgotten
  <2>2. \A m \in Mailboxes : Pending(m)' = Pending(m) /\ Unrecorded(m, today)' = Unrecorded(m, today)
    BY <1>g DEF Pending, Unrecorded
  <2>3. \A m \in Mailboxes :
            Cardinality(Counted(m, today)') + Cardinality(Pending(m)')
              <= Cardinality(Counted(m, today)) + Cardinality(Pending(m))
    <3> TAKE m \in Mailboxes
    <3>1. Cardinality(Pending(m)') = Cardinality(Pending(m)) /\ Cardinality(Counted(m, today)') \in Nat
      BY <2>2, FiniteNext
    <3> QED BY <1>0, <2>1, <3>1
  <2>4. \A m \in Mailboxes : Covered(m)'
    BY <1>g, <1>t, <2>3, StillCovered
  <2>5. \A m \in Mailboxes, d \in Days :
           /\ missed'[m][d] >= missed[m][d]
           /\ d # today => mailed'[m][d] = mailed[m][d]
    BY <1>g, <2>1
  <2>6. ASSUME NEW m \in Mailboxes
        PROVE  mailed'[m][today] - mailed[m][today] <=
                   (Cardinality(Counted(m, today)') - Cardinality(Counted(m, today)))
                   + (missed'[m][today] - missed[m][today])
                   + (Cardinality(Unrecorded(m, today)') - Cardinality(Unrecorded(m, today)))
    <3>1. mailed'[m][today] = mailed[m][today]
          /\ Cardinality(Unrecorded(m, today)') = Cardinality(Unrecorded(m, today))
          /\ Cardinality(Counted(m, today)') \in Nat /\ missed'[m][today] \in Nat
      BY <1>0, <1>g, <2>1, <2>2, FiniteNext
    <3>2. Cardinality(Counted(m, today)) <=
                  Cardinality(Counted(m, today)') + (missed'[m][today] - missed[m][today])
      BY <2>1
    <3> QED BY <1>0, <3>1, <3>2
  <2> QED BY <1>g, <1>t, <2>4, <2>5, <2>6, LedgerMoves
<1>4. ASSUME NEW w \in Workers, Claim(w) PROVE Ledger'
  <2> DEFINE r == job[w].row
  <2>0. pc[w] = "claim" /\ UNCHANGED <<time, mailed>>
    BY <1>4 DEF Claim
  <2>1. CASE /\ rec' = [rec EXCEPT ![r].status = "sending", ![r].mailbox = job[w].mailbox]
             /\ pc' = [pc EXCEPT ![w] = "smtp"] /\ job' = job /\ Forget({r})
    <3>1. r \in Rows /\ rec[r] \in RowType
      BY <1>m, <1>q
    <3>2. rec'[r].status = "sending" /\ \A q \in Rows \ {r} : rec'[q] = rec[q]
      BY <2>1, <3>1 DEF TypeOK, RowType
    <3>3. \A v \in Workers : pc'[v] = "mark" <=> pc[v] = "mark"
      BY <2>0, <2>1 DEF TypeOK
    <3>4. {r} \in SUBSET Rows /\ UNCHANGED <<time, job, mailed>> /\ Forget({r})
      BY <2>0, <2>1, <3>1
    <3> HIDE DEF r
    <3>5. \A q \in {r} : rec'[q].status = "sending" \/ rec'[q].mailbox \notin Mailboxes
      BY <3>2
    <3> QED BY <1>g, <3>2, <3>3, <3>4, <3>5
  <2>2. CASE pc' = [pc EXCEPT ![w] = "campaigns"] /\ job' = [job EXCEPT ![w] = NoJob] /\ UNCHANGED <<rec, missed>>
    <3>1. time' = time /\ pc'[w] # "mark" /\ \A v \in Workers \ {w} : pc'[v] = pc[v]
      BY <1>e, <2>0, <2>2
    <3>2. ASSUME NEW m \in Mailboxes
          PROVE  /\ Cardinality(Counted(m, today)') <= Cardinality(Counted(m, today)) + Its(w, m)
                 /\ (mailed'[m][today] - mailed[m][today]) + Held(w, m, today) <=
                     (Cardinality(Counted(m, today)') - Cardinality(Counted(m, today)))
                     + (missed'[m][today] - missed[m][today])
                 /\ \A d \in Days : missed'[m][d] >= missed[m][d] /\ (d # today => mailed'[m][d] = mailed[m][d])
      <4>1. Counted(m, today)' = Counted(m, today)
        BY <2>2 DEF Counted
      <4>2. Cardinality(Counted(m, today)') = Cardinality(Counted(m, today)) /\ Held(w, m, today) = 0
        BY <2>0, <4>1 DEF Held
      <4> QED BY <1>0, <1>i, <2>0, <2>2, <4>2
    <3> QED BY <1>d, <2>2, <3>1, <3>2
  <2> QED BY <1>4, <2>1, <2>2 DEF Claim
<1>6. ASSUME NEW w \in Workers, Mark(w) PROVE Ledger'
  <2> DEFINE r == job[w].row
             row == MarkStepSent(w, rec[r])
  <2>1. /\ pc[w] = "mark" /\ Handling(w) /\ time' = time /\ mailed' = mailed
        /\ rec' = (IF Kept(r) THEN [rec EXCEPT ![r] = row] ELSE rec)
        /\ job' = [job EXCEPT ![w] = NoJob] /\ pc' = [pc EXCEPT ![w] = "campaigns"]
        /\ Kept(r) => missed' = missed
        /\ ~Kept(r) => Miss(w, job[w].day)
    BY <1>6 DEF Mark, Done, Handling
  <2>2. Written(rec[r], row) /\ row.sent = today /\ row.mailbox = rec[r].mailbox
    BY <1>q, <1>t, MarkedToday
  <2> HIDE DEF row
  <2>3. pc'[w] # "mark" /\ \A v \in Workers \ {w} : pc'[v] = pc[v]
    BY <1>e, <2>1
  <2>4. ASSUME NEW m \in Mailboxes
        PROVE  /\ Cardinality(Counted(m, today)') <= Cardinality(Counted(m, today)) + Its(w, m)
               /\ (mailed'[m][today] - mailed[m][today]) + Held(w, m, today) <=
                   (Cardinality(Counted(m, today)') - Cardinality(Counted(m, today)))
                   + (missed'[m][today] - missed[m][today])
               /\ \A d \in Days : missed'[m][d] >= missed[m][d] /\ (d # today => mailed'[m][d] = mailed[m][d])
    <3>1. /\ Cardinality(Counted(m, today)) <= Cardinality(Counted(m, today)')
          /\ Cardinality(Counted(m, today)') <= Cardinality(Counted(m, today)) + Its(w, m)
          /\ Kept(r) => Cardinality(Counted(m, today)') = Cardinality(Counted(m, today)) + Its(w, m)
      BY <1>p, <2>1, <2>2
    <3>2. CASE Kept(r)
      <4>1. missed' = missed /\ mailed' = mailed
            /\ Cardinality(Counted(m, today)') = Cardinality(Counted(m, today)) + Its(w, m)
        BY <2>1, <3>1, <3>2
      <4> QED BY <1>0, <1>i, <4>1
    <3>3. CASE ~Kept(r)
      <4>1. \A d \in Days : missed'[m][d] = missed[m][d] + (IF job[w].mailbox = m /\ d = job[w].day THEN 1 ELSE 0)
        BY <1>m, <1>y, <2>1, <3>3
      <4>2. missed'[m][today] = missed[m][today] + Held(w, m, today)
        BY <1>0, <2>1, <4>1 DEF Held
      <4>3. \A d \in Days : missed'[m][d] >= missed[m][d]
        BY <1>0, <4>1
      <4> QED BY <1>0, <1>i, <1>n, <2>1, <3>1, <4>2, <4>3
    <3> QED BY <3>2, <3>3
  <2> HIDE DEF r
  <2> QED BY <1>d, <2>1, <2>3, <2>4
\* The mail of a worker that ends a sequence or gives its row back was not sent.
<1>7. ASSUME NEW w \in Workers, EndSequence(w) \/ Reject(w) PROVE Ledger'
  <2>1. pc[w] = "smtp" /\ Handling(w) /\ time' = time /\ mailed' = mailed /\ missed' = missed
    BY <1>7 DEF EndSequence, Reject, Handling
  <2>2. PICK row : Done(w, row) /\ Written(rec[job[w].row], row)
    <3> DEFINE old == rec[job[w].row]
               end == [old EXCEPT !.sent = Day(time), !.due = 0, !.status = "sent"]
    <3>1. old \in RowType
      BY <1>q
    <3>2. Written(old, end) /\ \A row \in GiveBack(old) : Written(old, row)
      BY <3>1, MarkedToday, GivenBack
    <3>3. Done(w, end) \/ \E row \in GiveBack(old) : Done(w, row)
      BY <1>7 DEF EndSequence, Reject
    <3> HIDE DEF end
    <3> QED BY <3>2, <3>3
  <2>3. /\ rec' = (IF Kept(job[w].row) THEN [rec EXCEPT ![job[w].row] = row] ELSE rec)
        /\ job' = [job EXCEPT ![w] = NoJob] /\ pc' = [pc EXCEPT ![w] = "campaigns"]
    BY <2>2 DEF Done
  <2>4. ASSUME NEW m \in Mailboxes
        PROVE  /\ Cardinality(Counted(m, today)') <= Cardinality(Counted(m, today)) + Its(w, m)
               /\ (mailed'[m][today] - mailed[m][today]) + Held(w, m, today) <=
                   (Cardinality(Counted(m, today)') - Cardinality(Counted(m, today)))
                   + (missed'[m][today] - missed[m][today])
               /\ \A d \in Days : missed'[m][d] >= missed[m][d] /\ (d # today => mailed'[m][d] = mailed[m][d])
    <3>1. /\ Cardinality(Counted(m, today)) <= Cardinality(Counted(m, today)')
          /\ Cardinality(Counted(m, today)') <= Cardinality(Counted(m, today)) + Its(w, m)
      BY <1>p, <2>1, <2>2, <2>3
    <3>2. Held(w, m, today) = 0
      BY <2>1 DEF Held
    <3> QED BY <1>0, <1>n, <2>1, <3>1, <3>2
  <2>5. pc'[w] # "mark" /\ \A v \in Workers \ {w} : pc'[v] = pc[v]
    BY <1>e, <2>3
  <2> QED BY <1>d, <2>1, <2>3, <2>4, <2>5
<1>9. ASSUME NEW w \in Workers, AcceptAndError(w) PROVE Ledger'
  <2>1. pc[w] = "smtp" /\ Handling(w) /\ time' = time /\ Mailed(w) /\ Miss(w, today)
    BY <1>9, <1>t DEF AcceptAndError, Handling
  <2>2. PICK row : Done(w, row) /\ Written(rec[job[w].row], row)
    <3>1. PICK row \in GiveBack(rec[job[w].row]) : Done(w, row)
      BY <1>9 DEF AcceptAndError
    <3> QED BY <1>q, <3>1, GivenBack
  <2>3. /\ rec' = (IF Kept(job[w].row) THEN [rec EXCEPT ![job[w].row] = row] ELSE rec)
        /\ job' = [job EXCEPT ![w] = NoJob] /\ pc' = [pc EXCEPT ![w] = "campaigns"]
    BY <2>2 DEF Done
  <2>4. ASSUME NEW m \in Mailboxes
        PROVE  /\ Cardinality(Counted(m, today)') <= Cardinality(Counted(m, today)) + Its(w, m)
               /\ (mailed'[m][today] - mailed[m][today]) + Held(w, m, today) <=
                   (Cardinality(Counted(m, today)') - Cardinality(Counted(m, today)))
                   + (missed'[m][today] - missed[m][today])
               /\ \A d \in Days : missed'[m][d] >= missed[m][d] /\ (d # today => mailed'[m][d] = mailed[m][d])
    <3>1. /\ Cardinality(Counted(m, today)) <= Cardinality(Counted(m, today)')
          /\ Cardinality(Counted(m, today)') <= Cardinality(Counted(m, today)) + Its(w, m)
      BY <1>p, <2>1, <2>2, <2>3
    <3>2. /\ mailed'[m][today] = mailed[m][today] + Its(w, m)
          /\ \A d \in Days : d # today => mailed'[m][d] = mailed[m][d]
      BY <1>o, <1>x, <2>1 DEF Its
    <3>3. \A d \in Days : missed'[m][d] = missed[m][d] + (IF job[w].mailbox = m /\ d = today THEN 1 ELSE 0)
      BY <1>0, <1>o, <1>y, <2>1
    <3>4. missed'[m][today] = missed[m][today] + Its(w, m) /\ \A d \in Days : missed'[m][d] >= missed[m][d]
      BY <1>0, <3>3 DEF Its
    <3>5. Held(w, m, today) = 0
      BY <2>1 DEF Held
    <3>6. /\ Cardinality(Counted(m, today)) \in Nat /\ Cardinality(Counted(m, today)') \in Nat
          /\ mailed[m][today] \in Nat /\ missed[m][today] \in Nat /\ Its(w, m) \in {0, 1}
      BY <1>0, <1>i, <1>n
    <3>7. mailed'[m][today] - mailed[m][today] = Its(w, m) /\ missed'[m][today] - missed[m][today] = Its(w, m)
      BY <3>2, <3>4, <3>6
    <3>8. (mailed'[m][today] - mailed[m][today]) + Held(w, m, today) <=
                   (Cardinality(Counted(m, today)') - Cardinality(Counted(m, today)))
                   + (missed'[m][today] - missed[m][today])
      BY <3>1, <3>5, <3>6, <3>7
    <3> QED BY <3>1, <3>2, <3>4, <3>8
  <2>5. pc'[w] # "mark" /\ \A v \in Workers \ {w} : pc'[v] = pc[v]
    BY <1>e, <2>3
  <2> QED BY <1>d, <2>1, <2>3, <2>4, <2>5
<1>10. ASSUME NEW w \in Workers, Restart(w) PROVE Ledger'
  <2> DEFINE r == job[w].row
             row == [rec[r] EXCEPT !.status = "failed"]
  <2>1. /\ rec' = (IF Handling(w) /\ Kept(r) THEN [rec EXCEPT ![r].status = "failed"] ELSE rec)
        /\ pc[w] = "mark" => Miss(w, job[w].day)
        /\ pc[w] # "mark" => missed' = missed
        /\ job' = [job EXCEPT ![w] = NoJob] /\ pc' = [pc EXCEPT ![w] = "idle"]
        /\ time' = time /\ mailed' = mailed
    BY <1>10 DEF Restart, Handling
  <2>2. Written(rec[r], row)
    <3>1. row \in RowType
      <4>1. rec[r] \in RowType /\ "failed" \in Status
        BY <1>q DEF Status
      <4> HIDE DEF r
      <4> QED BY <4>1, RowTypes
    <3>2. row.status = "failed" /\ row.mailbox = rec[r].mailbox
      BY <1>q DEF RowType
    <3> QED BY <3>1, <3>2 DEF Written
  <2>3. [rec EXCEPT ![r].status = "failed"] = [rec EXCEPT ![r] = row]
    OBVIOUS
  <2> HIDE DEF row
  <2>4. ASSUME NEW m \in Mailboxes
        PROVE  /\ Cardinality(Counted(m, today)') <= Cardinality(Counted(m, today)) + Its(w, m)
               /\ (mailed'[m][today] - mailed[m][today]) + Held(w, m, today) <=
                   (Cardinality(Counted(m, today)') - Cardinality(Counted(m, today)))
                   + (missed'[m][today] - missed[m][today])
               /\ \A d \in Days : missed'[m][d] >= missed[m][d] /\ (d # today => mailed'[m][d] = mailed[m][d])
    <3>1. /\ Cardinality(Counted(m, today)) <= Cardinality(Counted(m, today)')
          /\ Cardinality(Counted(m, today)') <= Cardinality(Counted(m, today)) + Its(w, m)
      <4>1. CASE Handling(w)
        BY <1>p, <2>1, <2>2, <2>3, <4>1
      <4>2. CASE ~Handling(w)
        <5>1. Counted(m, today)' = Counted(m, today)
          BY <2>1, <4>2 DEF Counted
        <5>2. Cardinality(Counted(m, today)') = Cardinality(Counted(m, today))
          BY <5>1
        <5> QED BY <1>0, <1>i, <5>2
      <4> QED BY <4>1, <4>2
    <3>2. CASE pc[w] = "mark"
      <4>1. \A d \in Days : missed'[m][d] = missed[m][d] + (IF job[w].mailbox = m /\ d = job[w].day THEN 1 ELSE 0)
        BY <1>m, <1>y, <2>1, <3>2
      <4>2. missed'[m][today] = missed[m][today] + Held(w, m, today)
        BY <1>0, <3>2, <4>1 DEF Held
      <4>3. \A d \in Days : missed'[m][d] >= missed[m][d]
        BY <1>0, <4>1
      <4> QED BY <1>0, <1>i, <1>n, <2>1, <3>1, <4>2, <4>3
    <3>3. CASE pc[w] # "mark"
      <4>1. Held(w, m, today) = 0
        BY <3>3 DEF Held
      <4> QED BY <1>0, <1>n, <2>1, <3>1, <3>3, <4>1
    <3> QED BY <3>2, <3>3
  <2>5. pc'[w] # "mark" /\ \A v \in Workers \ {w} : pc'[v] = pc[v]
    BY <1>e, <2>1
  <2> HIDE DEF r
  <2> QED BY <1>d, <2>1, <2>4, <2>5
<1>12. ASSUME NEW c \in Campaigns, Requeue(c) PROVE Ledger'
  <2>1. /\ UNCHANGED <<time, pc, job, mailed, missed>>
        /\ rec' = [r \in Rows |-> IF CampaignOf[r] = c /\ rec[r].status = "failed"
                                  THEN [rec[r] EXCEPT !.status = "queued"] ELSE rec[r]]
    BY <1>12 DEF Requeue
  <2>2. \A r \in Rows : /\ rec'[r].mailbox = rec[r].mailbox /\ rec'[r].sent = rec[r].sent
                        /\ rec'[r].status = "sending" <=> rec[r].status = "sending"
    <3>1. \A r \in Rows : rec[r] \in RowType
      BY DEF TypeOK, RowType, Dues, Status
    <3> QED BY <2>1, <3>1 DEF RowType
  <2>3. \A m \in Mailboxes : /\ Counted(m, today)' = Counted(m, today) /\ Pending(m)' = Pending(m)
                             /\ Unrecorded(m, today)' = Unrecorded(m, today)
    BY <2>1, <2>2 DEF Counted, Pending, Unrecorded
  <2>4. \A m \in Mailboxes : Cardinality(Pending(m)') <= Cardinality(Pending(m))
    <3> TAKE m \in Mailboxes
    <3>1. Cardinality(Pending(m)') = Cardinality(Pending(m))
      BY <2>3
    <3> QED BY <1>0, <3>1
  <2> QED BY <1>a, <2>1, <2>3, <2>4
<1>13. ASSUME NEW R \in SUBSET Rows, Delete(R) PROVE Ledger'
  <2>1. /\ UNCHANGED <<time, pc, job, mailed>> /\ Forget(R)
        /\ rec' = [r \in Rows |-> IF r \in R THEN Gone ELSE rec[r]]
    BY <1>13 DEF Delete
  <2>2. /\ \A q \in Rows \ R : rec'[q] = rec[q]
        /\ \A q \in R : rec'[q].mailbox \notin Mailboxes
    BY <2>1, GoneType
  <2> QED BY <1>g, <2>1, <2>2
<1>11. CASE UNCHANGED vars
  BY <1>11, <1>b DEF vars
<1> QED BY <1>1, <1>2, <1>3, <1>4, <1>5, <1>6, <1>7, <1>9, <1>10, <1>11, <1>12, <1>13 DEF Next, Worker, Operator

LEMMA BudgetInit == ASSUME Init PROVE BudgetInv
<1>0. time = 0 /\ Day(0) = 0 /\ 0 \in Days /\ Never = -1
  BY DEF Init, Day, Days, Never
<1>1. TypeOK
  <2>1. [step |-> 0, mailbox |-> None, sent |-> Never, due |-> 0, status |-> "queued"] \in RowType
    BY <1>0 DEF RowType, Status, Dues
  <2>2. NoJob \in JobType /\ NoJob.mailbox = None
    BY NoJobType
  <2>3. rec \in [Rows -> RowType] /\ job \in [Workers -> JobType]
    BY <2>1, <2>2 DEF Init
  <2>4. /\ time \in 0..MaxTime /\ tick \in [Workers -> 0..MaxTime] /\ faults \in 0..MaxFaults
        /\ mailed \in [Mailboxes -> [Days -> Nat]] /\ missed \in [Mailboxes -> [Days -> Nat]]
    BY DEF Init
  <2>5. /\ pc \in [Workers -> {"idle", "campaigns", "claim", "smtp", "mark"}]
        /\ todo \in [Workers -> SUBSET Campaigns]
        /\ \A w \in Workers : pc[w] \in {"claim", "smtp", "mark"} <=> job[w].mailbox # None
    BY <2>2 DEF Init
  <2> QED BY <2>3, <2>4, <2>5 DEF TypeOK, RowType, JobType, Status, Dues
<1>2. RowsKept
  BY <1>0 DEF Init, RowsKept, Handling, NoJob
<1>3. Ticks
  BY <1>0, NoJobType DEF Init, Ticks, Allowed
<1>4. NotYet
  BY DEF Init, NotYet
<1>5. ASSUME NEW m \in Mailboxes, NEW d \in Days
      PROVE  /\ mailed[m][d] = 0 /\ missed[m][d] = 0 /\ Budget(m, d) \in Nat /\ Cardinality(Workers) \in Nat
             /\ Cardinality(Workers) >= 1 /\ Cardinality(Counted(m, d)) = 0 /\ Cardinality(Pending(m)) = 0
             /\ Cardinality(Unrecorded(m, d)) \in Nat
  <2>1. Counted(m, d) = {} /\ Pending(m) = {}
    BY <1>0, NoJobType DEF Init, Counted, Pending, Days
  <2>2. mailed[m][d] = 0 /\ missed[m][d] = 0
    BY DEF Init
  <2>3. Budget(m, d) \in Nat /\ Cardinality(Workers) \in Nat /\ Cardinality(Workers) >= 1
        /\ Cardinality(Unrecorded(m, d)) \in Nat
    BY <1>1, Numbers
  <2> QED BY <2>1, <2>2, <2>3, FS_EmptySet
<1>6. BudgetBound
  BY <1>5 DEF BudgetBound
<1>7. \A m \in Mailboxes : Accounted(m) /\ Covered(m)
  BY <1>0, <1>5 DEF Accounted, Covered
<1> QED BY <1>1, <1>2, <1>3, <1>4, <1>6, <1>7 DEF BudgetInv

LEMMA BudgetStep == ASSUME BudgetInv, [Next]_vars PROVE BudgetInv'
<1>1. TypeOK /\ RowsKept /\ Ticks /\ Ledger
  BY DEF BudgetInv, Ledger
<1>2. TypeOK'
  BY <1>1, BudgetTypes
<1>3. RowsKept' /\ Ticks' /\ Ledger'
  BY <1>1, <1>2, RowsStep, TicksStep, LedgerStep
<1> QED BY <1>2, <1>3 DEF BudgetInv, Ledger

\* Rows, jobs and counters keep their types in every reachable state.
THEOREM SendBudgetTyped == Spec => []TypeOK
<1>1. Init => BudgetInv
  BY BudgetInit
<1>2. BudgetInv /\ [Next]_vars => BudgetInv'
  BY BudgetStep
<1>3. BudgetInv => TypeOK
  BY DEF BudgetInv
<1> QED BY <1>1, <1>2, <1>3, PTL DEF Spec

\* BudgetBound holds in every reachable state: on no day does a mailbox send more
\* than the campaigns that share it allow, but for the mails no row records and one
\* for each worker beyond the first.
THEOREM WithinBudget == Spec => []BudgetBound
<1>1. Init => BudgetInv
  BY BudgetInit
<1>2. BudgetInv /\ [Next]_vars => BudgetInv'
  BY BudgetStep
<1>3. BudgetInv => BudgetBound
  BY DEF BudgetInv
<1> QED BY <1>1, <1>2, <1>3, PTL DEF Spec
=============================================================================

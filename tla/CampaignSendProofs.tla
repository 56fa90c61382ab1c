------------------------- MODULE CampaignSendProofs -------------------------
(***************************************************************************)
(* Proofs about CampaignSend, for any number of pods, recipients, steps,   *)
(* attempts and faults.                                                    *)
(***************************************************************************)
EXTENDS CampaignSend, FiniteSetTheorems, TLAPS

-----------------------------------------------------------------------------
(* The inductive invariant. Everything is said of rows the operator has not *)
(* requeued: a requeue may put a row back that a slow worker still holds.   *)

\* Who holds a row holds it alone.
HeldAlone(r) == \A v, w \in Workers : Holds(v, r) /\ Holds(w, r) => v = w

\* A held row is 'sending', or 'failed' once the janitor took it for stale; so
\* it is not in the queue and nobody else can claim it.
HeldIsOut(r) ==
    \A w \in Workers : Holds(w, r) => rec[r].status \in {"sending", "failed"}

\* The row has not moved on under its holder.
HeldIsCurrent(r) ==
    \A w \in Workers : Holds(w, r) => job[w].step = StepToSend(rec[r])

\* What is still to be sent has not been sent.
QueuedIsUnsent(r) ==
    rec[r].status = "queued" =>
        \A s \in Steps : s >= StepToSend(rec[r]) => got[r][s] = 0

HeldIsUnsent(r) ==
    \A w \in Workers : Holds(w, r) =>
        \A s \in Steps :
            s > job[w].step \/ (s = job[w].step /\ pc[w] # "mark") => got[r][s] = 0

SentOnce(r) == \A s \in Steps : got[r][s] <= 1

\* A late mail goes to somebody who is blocked, so nobody claims the row again,
\* and it was the last thing its holder had to send.
LateIsBlocked(r) == late[r] >= 1 => Blocked(r)

LateIsLast(r) ==
    \A w \in Workers :
        Holds(w, r) /\ pc[w] \in {"check", "prepare", "smtp"} => late[r] = 0

RowInv(r) ==
    /\ HeldAlone(r)
    /\ HeldIsOut(r)
    /\ HeldIsCurrent(r)
    /\ r \notin lied => QueuedIsUnsent(r) /\ HeldIsUnsent(r) /\ SentOnce(r)
    /\ late[r] <= 1
    /\ LateIsBlocked(r)
    /\ LateIsLast(r)

IInv == TypeOK /\ \A r \in Recipients \ resent : RowInv(r)

-----------------------------------------------------------------------------
(* Types *)

LEMMA InitType == Init => TypeOK
  BY SendConstants DEF Init, TypeOK, SendConstants, CampaignStatus, Steps, Row, NewRow,
     Job, NoJob, PcValues, Holding, RowStatus, Stops, Handlers

\* The statements return rows.
LEMMA RowType ==
  ASSUME NEW row \in Row
  PROVE  /\ MarkSkipped(row) \in Row
         /\ MarkFailed(row) \in Row
         /\ Requeue(row) \in Row
         /\ RequeueByHand(row) \in Row
         /\ JanitorRow(row) \in Row
         /\ FinalizedRow(row) \in Row
         /\ \A s \in Steps, m \in BOOLEAN : MarkStepSent(row, s, m) \in Row
         /\ StepToSend(row) \in 1..(MaxStep + 1)
<1>1. MarkSkipped(row) \in Row /\ MarkFailed(row) \in Row
  BY DEF Row, RowStatus, MarkSkipped, MarkFailed
<1>2. Tried(row.attempts) \in 0..MaxAttempts
  BY SendConstants DEF SendConstants, Row, Tried
<1>3. Requeue(row) \in Row /\ RequeueByHand(row) \in Row
  <2>1. Requeue(row) \in Row
    BY <1>2 DEF Row, RowStatus, Requeue
  <2>2. 0 \in 0..MaxAttempts
    BY SendConstants DEF SendConstants
  <2>3. RequeueByHand(row) \in Row
    BY <2>2 DEF Row, RowStatus, RequeueByHand
  <2> QED
    BY <2>1, <2>3
<1>4. JanitorRow(row) \in Row
  BY <1>1 DEF JanitorRow
<1>5. FinalizedRow(row) \in Row
  BY DEF Row, RowStatus, FinalizedRow
<1>6. ASSUME NEW s \in Steps, NEW m \in BOOLEAN
      PROVE  MarkStepSent(row, s, m) \in Row
  BY DEF Row, RowStatus, MarkStepSent
<1>7. StepToSend(row) \in 1..(MaxStep + 1)
  BY SendConstants DEF SendConstants, Row, Steps, StepToSend
<1> QED
  BY <1>1, <1>3, <1>4, <1>5, <1>6, <1>7

LEMMA TickType ==
  ASSUME TypeOK, NEW w \in Workers, Tick(w)
  PROVE  TypeOK'
<1>1. CASE TickBegin(w)
  <2>1. rec' \in [Recipients -> Row]
    BY <1>1, RowType DEF TypeOK, TickBegin
  <2>2. overtaken' \subseteq Recipients
    BY <1>1 DEF TypeOK, TickBegin, Stale
  <2>3. pc' \in [Workers -> PcValues] /\ lock' \in Workers \cup {Free, Dead}
    BY <1>1 DEF TypeOK, TickBegin, AcquireOrRenew, PcValues
  <2> QED
    BY <1>1, <2>1, <2>2, <2>3 DEF TypeOK, TickBegin, campaignVars, Holding
<1>2. CASE FinalizeStoppedFollowups(w)
  <2>1. rec' \in [Recipients -> Row]
    BY <1>2, RowType DEF TypeOK, FinalizeStoppedFollowups
  <2> QED
    BY <1>2, <2>1 DEF TypeOK, FinalizeStoppedFollowups, campaignVars, historyVars,
       Holding, PcValues
<1>3. CASE TripBreaker(w)
  BY <1>3 DEF TypeOK, TripBreaker, historyVars, Holding, PcValues, CampaignStatus
<1>4. CASE CountRemaining(w)
  BY <1>4 DEF TypeOK, CountRemaining, campaignVars, historyVars, Holding, PcValues
<1>5. CASE Complete(w)
  BY <1>5 DEF TypeOK, Complete, historyVars, Holding, PcValues, CampaignStatus
<1>6. CASE SkipSend(w)
  BY <1>6 DEF TypeOK, SkipSend, campaignVars, historyVars, Holding, PcValues
<1> QED
  BY <1>1, <1>2, <1>3, <1>4, <1>5, <1>6 DEF Tick

\* What the types say of a worker that holds a recipient.
LEMMA HolderType ==
  ASSUME TypeOK, NEW w \in Workers, pc[w] \in Holding
  PROVE  job[w].row \in Recipients /\ rec[job[w].row] \in Row
  BY DEF TypeOK, Job

LEMMA EndWithType ==
  ASSUME TypeOK, NEW w \in Workers, pc[w] \in Holding, NEW row \in Row,
         EndWith(w, row)
  PROVE  /\ rec' \in [Recipients -> Row]
         /\ pc' \in [Workers -> PcValues]
         /\ job' \in [Workers -> Job]
         /\ \A v \in Workers :
               /\ pc'[v] \in Holding <=> job'[v].row # NoRow
               /\ pc'[v] \in {"smtp", "mark", "fail"} => job'[v].step \in Steps
<1>1. rec' \in [Recipients -> Row]
  BY HolderType DEF EndWith, TypeOK
<1>2. NoJob \in Job
  BY SendConstants DEF SendConstants, NoJob, Job
<1>3. job' \in [Workers -> Job] /\ pc' \in [Workers -> PcValues]
  BY <1>2 DEF EndWith, TypeOK, PcValues
<1>4. ASSUME NEW v \in Workers
      PROVE  /\ pc'[v] \in Holding <=> job'[v].row # NoRow
             /\ pc'[v] \in {"smtp", "mark", "fail"} => job'[v].step \in Steps
  BY DEF EndWith, TypeOK, NoJob, Holding
<1> QED
  BY <1>1, <1>3, <1>4

LEMMA DeliveredType ==
  ASSUME TypeOK, NEW w \in Workers, Delivered(w),
         job[w].row \in Recipients, job[w].step \in Steps
  PROVE  got' \in [Recipients -> [Steps -> 0..2]] /\ late' \in [Recipients -> 0..2]
<1> DEFINE r == job[w].row
           s == job[w].step
<1>0. got[r][s] \in 0..2 /\ late[r] \in 0..2
  BY DEF TypeOK
<1>1. Bump(got[r][s]) \in 0..2 /\ Bump(late[r]) \in 0..2
  BY <1>0 DEF Bump
<1>2. [got[r] EXCEPT ![s] = Bump(got[r][s])] \in [Steps -> 0..2]
  BY <1>1 DEF TypeOK
<1>3. got' = [got EXCEPT ![r] = [got[r] EXCEPT ![s] = Bump(got[r][s])]]
  BY DEF Delivered
<1>4. got' \in [Recipients -> [Steps -> 0..2]]
  BY <1>2, <1>3 DEF TypeOK
<1>5. late' \in [Recipients -> 0..2]
  BY <1>1 DEF Delivered, TypeOK
<1> QED
  BY <1>4, <1>5

LEMMA SendOneType ==
  ASSUME TypeOK, NEW w \in Workers, SendOne(w)
  PROVE  TypeOK'
<1>1. ASSUME NEW r \in Recipients, Claim(w, r)
      PROVE  TypeOK'
  <2>1. rec[r] \in Row /\ rec[r].attempts \in 0..MaxAttempts
    BY DEF TypeOK, Row
  <2>2. rec' \in [Recipients -> Row]
    BY <1>1, <2>1 DEF TypeOK, Claim, Row, RowStatus
  <2>3. StepToSend(rec[r]) \in 1..(MaxStep + 1)
    BY <2>1, RowType
  <2>4. job' \in [Workers -> Job]
    BY <1>1, <2>1, <2>3 DEF TypeOK, Claim, Job
  <2>5. overrun' \in [Workers -> 0..2]
    BY <1>1 DEF TypeOK, Claim, Bump
  <2>6. pc' \in [Workers -> PcValues]
    BY <1>1 DEF TypeOK, Claim, PcValues
  <2>7. ASSUME NEW v \in Workers
        PROVE  /\ pc'[v] \in Holding <=> job'[v].row # NoRow
               /\ pc'[v] \in {"smtp", "mark", "fail"} => job'[v].step \in Steps
    BY <1>1, SendConstants DEF SendConstants, TypeOK, Claim, Holding
  <2> QED
    BY <1>1, <2>2, <2>4, <2>5, <2>6, <2>7 DEF TypeOK, Claim, campaignVars
<1>2. CASE Recheck(w)
  <2>1. CASE EndWith(w, MarkSkipped(rec[job[w].row]))
    <3>1. MarkSkipped(rec[job[w].row]) \in Row /\ pc[w] \in Holding
      BY <1>2, HolderType, RowType DEF Recheck, Holding
    <3>2. faults' \in 0..MaxFaults
      BY <1>2, SendConstants DEF SendConstants, Recheck, Fault, TypeOK
    <3> QED
      BY <1>2, <2>1, <3>1, <3>2, EndWithType DEF TypeOK, Recheck, campaignVars, historyVars
  <2>2. CASE pc' = [pc EXCEPT ![w] = "prepare"] /\ UNCHANGED <<rec, job>>
    <3>1. faults' \in 0..MaxFaults
      BY <1>2, SendConstants DEF SendConstants, Recheck, Fault, TypeOK
    <3> QED
      BY <1>2, <2>2, <3>1 DEF TypeOK, Recheck, campaignVars, historyVars, Holding, PcValues
  <2> QED
    BY <1>2, <2>1, <2>2 DEF Recheck
<1>3. CASE SkipNoMX(w)
  <2>1. MarkSkipped(rec[job[w].row]) \in Row /\ pc[w] \in Holding
    BY <1>3, HolderType, RowType DEF SkipNoMX, Holding
  <2> QED
    BY <1>3, <2>1, EndWithType DEF TypeOK, SkipNoMX, campaignVars, historyVars
<1>4. CASE EndSequence(w)
  <2>1. job[w].step - 1 \in Steps
    BY <1>4, SendConstants DEF SendConstants, EndSequence, TypeOK, Job, Steps
  <2>2. pc[w] \in Holding /\ rec[job[w].row] \in Row
    BY <1>4, HolderType DEF EndSequence, Holding
  <2>3. MarkStepSent(rec[job[w].row], job[w].step - 1, FALSE) \in Row
    BY <2>1, <2>2, RowType
  <2> QED
    BY <1>4, <2>2, <2>3, EndWithType DEF TypeOK, EndSequence, campaignVars, historyVars
<1>5. CASE Compose(w)
  <2>1. job[w] \in Job /\ job[w].step \in Steps
    BY <1>5, SendConstants DEF SendConstants, Compose, TypeOK, Job, Steps
  <2>2. job' \in [Workers -> Job]
    <3>1. [job[w] EXCEPT !.more = (job[w].step < lastStep)] \in Job
      <4>1. ASSUME NEW b \in BOOLEAN, NEW j \in Job
            PROVE  [j EXCEPT !.more = b] \in Job
        BY DEF Job
      <4>2. (job[w].step < lastStep) \in BOOLEAN
        OBVIOUS
      <4> QED
        BY <2>1, <4>1, <4>2
    <3>2. job' = [job EXCEPT ![w] = [job[w] EXCEPT !.more = (job[w].step < lastStep)]]
      BY <1>5 DEF Compose
    <3> QED
      BY <3>1, <3>2 DEF TypeOK
  <2>3. ASSUME NEW v \in Workers
        PROVE  /\ pc'[v] \in Holding <=> job'[v].row # NoRow
               /\ pc'[v] \in {"smtp", "mark", "fail"} => job'[v].step \in Steps
    BY <1>5, <2>1 DEF Compose, TypeOK, Job, Holding
  <2> QED
    BY <1>5, <2>2, <2>3 DEF TypeOK, Compose, campaignVars, historyVars, PcValues
<1>6. CASE SmtpAccept(w)
  <2>1. job[w].row \in Recipients /\ job[w].step \in Steps
    BY <1>6, HolderType DEF SmtpAccept, TypeOK, Holding
  <2>2. got' \in [Recipients -> [Steps -> 0..2]] /\ late' \in [Recipients -> 0..2]
    BY <1>6, <2>1, DeliveredType DEF SmtpAccept
  <2> QED
    BY <1>6, <2>2 DEF TypeOK, SmtpAccept, campaignVars, Holding, PcValues
<1>7. CASE SmtpReject(w)
  BY <1>7 DEF TypeOK, SmtpReject, campaignVars, historyVars, Holding, PcValues
<1>8. CASE MarkSent(w)
  <2>1. pc[w] \in Holding /\ rec[job[w].row] \in Row
    BY <1>8, HolderType DEF MarkSent, Holding
  <2>2. job[w].step \in Steps /\ job[w].more \in BOOLEAN
    BY <1>8 DEF MarkSent, TypeOK, Job
  <2>3. MarkStepSent(rec[job[w].row], job[w].step, job[w].more) \in Row
    BY <2>1, <2>2, RowType
  <2> QED
    BY <1>8, <2>1, <2>3, EndWithType DEF TypeOK, MarkSent, campaignVars, historyVars
<1>9. CASE SendFailed(w)
  <2>1. pc[w] \in Holding /\ rec[job[w].row] \in Row
    BY <1>9, HolderType DEF SendFailed, Holding
  <2>2. MarkFailed(rec[job[w].row]) \in Row /\ Requeue(rec[job[w].row]) \in Row
    BY <2>1, RowType
  <2> QED
    BY <1>9, <2>1, <2>2, EndWithType DEF TypeOK, SendFailed, campaignVars, historyVars
<1> QED
  BY <1>1, <1>2, <1>3, <1>4, <1>5, <1>6, <1>7, <1>8, <1>9 DEF SendOne

LEMMA TroubleType ==
  ASSUME TypeOK, NEW w \in Workers, Trouble(w)
  PROVE  TypeOK'
<1>0. Fault => faults' \in 0..MaxFaults
  BY SendConstants DEF SendConstants, Fault, TypeOK
<1>1. CASE CustomerLookupFailed(w)
  <2>1. MarkFailed(rec[job[w].row]) \in Row /\ pc[w] \in Holding
    BY <1>1, HolderType, RowType DEF CustomerLookupFailed, Holding
  <2> QED
    BY <1>0, <1>1, <2>1, EndWithType
       DEF TypeOK, CustomerLookupFailed, campaignVars, historyVars
<1>2. CASE RequeueTransient(w)
  <2>1. Requeue(rec[job[w].row]) \in Row /\ pc[w] \in Holding
    BY <1>2, HolderType, RowType DEF RequeueTransient, Holding
  <2> QED
    BY <1>0, <1>2, <2>1, EndWithType
       DEF TypeOK, RequeueTransient, campaignVars, historyVars
<1>3. CASE SmtpAcceptAndError(w)
  <2>1. job[w].row \in Recipients /\ job[w].step \in Steps
    BY <1>3, HolderType DEF SmtpAcceptAndError, TypeOK, Holding
  <2>2. got' \in [Recipients -> [Steps -> 0..2]] /\ late' \in [Recipients -> 0..2]
    BY <1>3, <2>1, DeliveredType DEF SmtpAcceptAndError
  <2>3. lied' \subseteq Recipients
    BY <1>3, <2>1 DEF SmtpAcceptAndError, TypeOK
  <2> QED
    BY <1>0, <1>3, <2>2, <2>3
       DEF TypeOK, SmtpAcceptAndError, campaignVars, Holding, PcValues
<1>4. NoJob \in Job /\ NoJob.row = NoRow
  BY SendConstants DEF SendConstants, NoJob, Job
<1>5. CASE LoseWrite(w)
  <2>1. job' \in [Workers -> Job] /\ pc' \in [Workers -> PcValues]
    BY <1>4, <1>5 DEF LoseWrite, TypeOK, PcValues
  <2> QED
    BY <1>0, <1>4, <1>5, <2>1 DEF TypeOK, LoseWrite, campaignVars, historyVars, Holding
<1>6. CASE Crash(w)
  <2>1. job' \in [Workers -> Job] /\ pc' \in [Workers -> PcValues]
    BY <1>4, <1>6 DEF Crash, TypeOK, PcValues
  <2>2. lock' \in Workers \cup {Free, Dead}
    BY <1>6 DEF Crash, TypeOK
  <2> QED
    BY <1>0, <1>4, <1>6, <2>1, <2>2 DEF TypeOK, Crash, campaignVars, historyVars, Holding
<1>7. CASE QueryFails(w)
  <2>1. /\ pc[w] \notin Holding
        /\ \E at \in {"breaker", "drain", "idle"} : pc' = [pc EXCEPT ![w] = at]
    BY <1>7 DEF QueryFails, AfterFailure, Holding
  <2> QED
    BY <1>0, <1>7, <2>1
       DEF TypeOK, QueryFails, campaignVars, historyVars, Holding, PcValues
<1> QED
  BY <1>1, <1>2, <1>3, <1>5, <1>6, <1>7 DEF Trouble

\* LockExpires, time, and everything that comes from outside the worker.
Environment ==
    \/ \E r \in Recipients : ClaimAges(r) \/ FollowupDue(r) \/ Outside(r)
    \/ LockExpires
    \/ RequeueFailedRecipients
    \/ Handler

LEMMA EnvironmentType ==
  ASSUME TypeOK, Environment
  PROVE  TypeOK'
<1>0. Fault => faults' \in 0..MaxFaults
  BY SendConstants DEF SendConstants, Fault, TypeOK
<1>1. ASSUME NEW r \in Recipients, ClaimAges(r)
      PROVE  TypeOK'
  <2>1. rec' \in [Recipients -> Row]
    <3>1. [rec[r] EXCEPT !.stale = TRUE] \in Row
      BY DEF TypeOK, Row
    <3> QED
      BY <1>1, <3>1 DEF ClaimAges, TypeOK
  <2> QED
    BY <1>0, <1>1, <2>1 DEF TypeOK, ClaimAges, campaignVars, historyVars
<1>2. ASSUME NEW r \in Recipients, FollowupDue(r)
      PROVE  TypeOK'
  <2>1. rec' \in [Recipients -> Row]
    <3>1. [rec[r] EXCEPT !.due = TRUE] \in Row
      BY DEF TypeOK, Row
    <3> QED
      BY <1>2, <3>1 DEF FollowupDue, TypeOK
  <2> QED
    BY <1>2, <2>1 DEF TypeOK, FollowupDue, campaignVars, historyVars
<1>3. ASSUME NEW r \in Recipients, NEW k \in {"left", "bounced"}, Stop(r, k)
      PROVE  TypeOK'
  <2>1. rec' \in [Recipients -> Row]
    <3>1. [rec[r] EXCEPT !.stop = k] \in Row
      BY DEF TypeOK, Row, Stops
    <3> QED
      BY <1>3, <3>1 DEF Stop, TypeOK
  <2> QED
    BY <1>3, <2>1 DEF TypeOK, Stop, campaignVars, historyVars
<1>4. ASSUME NEW r \in Recipients, NEW k \in {"manual", "kept"}, Suppress(r, k)
      PROVE  TypeOK'
  BY <1>4 DEF TypeOK, Suppress, campaignVars, historyVars
<1>5. ASSUME NEW r \in Recipients, RemoveSuppression(r)
      PROVE  TypeOK'
  BY <1>5 DEF TypeOK, RemoveSuppression, campaignVars
<1>6. CASE LockExpires
  BY <1>0, <1>6 DEF TypeOK, LockExpires, campaignVars, historyVars
<1>7. CASE RequeueFailedRecipients
  <2>1. rec' \in [Recipients -> Row]
    BY <1>7, RowType DEF RequeueFailedRecipients, TypeOK
  <2>2. resent' \subseteq Recipients
    BY <1>7 DEF RequeueFailedRecipients, FailedRows, TypeOK
  <2> QED
    BY <1>0, <1>7, <2>1, <2>2 DEF TypeOK, RequeueFailedRecipients, campaignVars
<1>8. ASSUME NEW op \in Handlers,
             HandlerReads(op) \/ HandlerWrites(op) \/ HandlerReturns(op)
      PROVE  TypeOK'
  <2>1. CASE HandlerReads(op)
    BY <1>8, <2>1 DEF TypeOK, HandlerReads, historyVars
  <2>2. CASE HandlerWrites(op)
    <3>1. StatusWritten(op) \in CampaignStatus
      BY <2>2 DEF HandlerWrites, StatusWritten, CampaignStatus
    <3>2. overrun' \in [Workers -> 0..2]
      BY <2>2 DEF HandlerWrites, TypeOK
    <3> QED
      BY <2>2, <3>1, <3>2 DEF TypeOK, HandlerWrites
  <2>3. CASE HandlerReturns(op)
    BY <2>3 DEF TypeOK, HandlerReturns, historyVars
  <2> QED
    BY <1>8, <2>1, <2>2, <2>3
<1>9. CASE EditDeletesSteps
  BY <1>9, SendConstants DEF SendConstants, TypeOK, EditDeletesSteps, historyVars, Steps, Handlers
<1>10. CASE EditCreatesStep
  BY <1>10, SendConstants DEF SendConstants, TypeOK, EditCreatesStep, historyVars, Steps
<1> QED
  BY <1>1, <1>2, <1>3, <1>4, <1>5, <1>6, <1>7, <1>8, <1>9, <1>10
     DEF Environment, Outside, Handler

LEMMA NextType == TypeOK /\ [Next]_vars => TypeOK'
<1>1. CASE Next
  BY <1>1, TickType, SendOneType, TroubleType, EnvironmentType DEF Next, Environment
<1>2. CASE UNCHANGED vars
  BY <1>2 DEF vars, TypeOK
<1> QED
  BY <1>1, <1>2

\* Every variable keeps its type (the state of worker.go, of its rows and of
\* the handlers); in particular a worker holds a row exactly between its claim
\* and the end of its tick, and sends only steps that a campaign can have.
THEOREM TypeCorrect == Spec => []TypeOK
<1> QED
  BY InitType, NextType, PTL DEF Spec

-----------------------------------------------------------------------------
(* The invariant of a row *)

Early == {"check", "prepare", "smtp"}

\* A step that sends nothing to r, lets nobody new hold r and does not put r
\* back in the queue keeps the invariant of r.
LEMMA Frame ==
  ASSUME NEW r \in Recipients, RowInv(r),
         StepToSend(rec[r])' = StepToSend(rec[r]),
         Blocked(r) => Blocked(r)',
         got'[r] = got[r], late'[r] = late[r], r \notin lied' => r \notin lied,
         \A w \in Workers : Holds(w, r)' =>
             /\ Holds(w, r)
             /\ job'[w].step = job[w].step
             /\ pc'[w] = "mark" <=> pc[w] = "mark"
             /\ pc'[w] \in Early => pc[w] \in Early
             /\ rec'[r].status \in {rec[r].status, "failed"},
         rec'[r].status = "queued" => rec[r].status = "queued"
  PROVE  RowInv(r)'
<1>1. HeldAlone(r)' /\ HeldIsOut(r)' /\ HeldIsCurrent(r)'
  BY DEF RowInv, HeldAlone, HeldIsOut, HeldIsCurrent
<1>2. ASSUME r \notin lied'
      PROVE  QueuedIsUnsent(r)' /\ HeldIsUnsent(r)' /\ SentOnce(r)'
  BY <1>2 DEF RowInv, QueuedIsUnsent, HeldIsUnsent, SentOnce
<1>3. (late[r] <= 1)' /\ LateIsBlocked(r)' /\ LateIsLast(r)'
  BY DEF RowInv, LateIsBlocked, LateIsLast, Early
<1> QED
  BY <1>1, <1>2, <1>3 DEF RowInv

\* The statements leave what decides the next step and the answers alone.
LEMMA RowKeeps ==
  ASSUME NEW row \in Row
  PROVE  /\ StepToSend(JanitorRow(row)) = StepToSend(row)
         /\ StepToSend(FinalizedRow(row)) = StepToSend(row)
         /\ StepToSend(MarkSkipped(row)) = StepToSend(row)
         /\ StepToSend(MarkFailed(row)) = StepToSend(row)
         /\ StepToSend(Requeue(row)) = StepToSend(row)
         /\ JanitorRow(row).stop = row.stop
         /\ FinalizedRow(row).stop = row.stop
         /\ MarkSkipped(row).stop = row.stop
         /\ MarkFailed(row).stop = row.stop
         /\ Requeue(row).stop = row.stop
         /\ JanitorRow(row).status \in {row.status, "failed"}
         /\ FinalizedRow(row).status # row.status => row.status = "queued"
         /\ FinalizedRow(row).status \in {row.status, "sent"}
         /\ MarkSkipped(row).status = "skipped"
         /\ MarkFailed(row).status = "failed"
         /\ Requeue(row).status = "queued"
  BY DEF Row, StepToSend, JanitorRow, FinalizedRow, MarkSkipped, MarkFailed, Requeue

LEMMA StepSentRow ==
  ASSUME NEW row \in Row, NEW s \in Steps, NEW m \in BOOLEAN
  PROVE  /\ StepToSend(MarkStepSent(row, s, m)) = s + 1
         /\ MarkStepSent(row, s, m).stop = row.stop
         /\ MarkStepSent(row, s, m).status = IF m THEN "queued" ELSE "sent"
  BY DEF Row, StepToSend, MarkStepSent

LEMMA TickRow ==
  ASSUME TypeOK, NEW w \in Workers, Tick(w), NEW r \in Recipients, RowInv(r)
  PROVE  RowInv(r)'
<1>0. rec[r] \in Row
  BY DEF TypeOK
<1>1. CASE TickBegin(w)
  <2>1. rec'[r] = JanitorRow(rec[r])
    BY <1>1 DEF TickBegin
  <2>2. \A v \in Workers : Holds(v, r)' =>
          Holds(v, r) /\ job'[v].step = job[v].step /\ pc'[v] = pc[v]
    BY <1>1 DEF TickBegin, Holds, Holding, TypeOK
  <2>3. Blocked(r)' = Blocked(r)
    BY <1>0, <1>1, <2>1, RowKeeps DEF TickBegin, Blocked
  <2>4. StepToSend(rec[r])' = StepToSend(rec[r])
    BY <1>0, <2>1, RowKeeps
  <2> QED
    BY <1>0, <1>1, <2>1, <2>2, <2>3, <2>4, RowKeeps, Frame DEF TickBegin
<1>2. CASE FinalizeStoppedFollowups(w)
  <2>1. rec'[r] = FinalizedRow(rec[r])
    BY <1>2 DEF FinalizeStoppedFollowups
  <2>2. \A v \in Workers : Holds(v, r)' =>
          /\ Holds(v, r)
          /\ job'[v].step = job[v].step
          /\ pc'[v] = pc[v]
          /\ rec'[r].status = rec[r].status
    BY <1>0, <1>2, <2>1, RowKeeps
       DEF FinalizeStoppedFollowups, Holds, Holding, TypeOK, RowInv, HeldIsOut
  <2>3. Blocked(r)' = Blocked(r)
    BY <1>0, <1>2, <2>1, RowKeeps DEF FinalizeStoppedFollowups, Blocked
  <2>4. StepToSend(rec[r])' = StepToSend(rec[r])
    BY <1>0, <2>1, RowKeeps
  <2> QED
    BY <1>0, <1>2, <2>1, <2>2, <2>3, <2>4, RowKeeps, Frame
       DEF FinalizeStoppedFollowups, historyVars
<1>3. CASE TripBreaker(w) \/ CountRemaining(w) \/ Complete(w) \/ SkipSend(w)
  <2>1. /\ UNCHANGED <<rec, suppressed, job, got, late, lied>>
        /\ \A v \in Workers : pc'[v] = pc[v] \/ pc'[v] \notin Holding
    BY <1>3 DEF TripBreaker, CountRemaining, Complete, SkipSend, historyVars,
       TypeOK, Holding
  <2>2. \A v \in Workers : Holds(v, r)' =>
          Holds(v, r) /\ job'[v].step = job[v].step /\ pc'[v] = pc[v]
    BY <2>1 DEF Holds
  <2>3. Blocked(r)' = Blocked(r) /\ StepToSend(rec[r])' = StepToSend(rec[r])
    BY <2>1 DEF Blocked, StepToSend
  <2> QED
    BY <2>1, <2>2, <2>3, Frame
<1> QED
  BY <1>1, <1>2, <1>3 DEF Tick

\* The end of a tick for a row r that w does not hold.
LEMMA EndWithOther ==
  ASSUME TypeOK, NEW w \in Workers, pc[w] \in Holding, NEW row, EndWith(w, row),
         UNCHANGED <<suppressed, got, late, lied>>,
         NEW r \in Recipients, RowInv(r), job[w].row # r
  PROVE  RowInv(r)'
<1>1. rec'[r] = rec[r]
  BY DEF EndWith, TypeOK
<1>2. \A v \in Workers : Holds(v, r)' =>
        Holds(v, r) /\ job'[v].step = job[v].step /\ pc'[v] = pc[v]
  BY DEF EndWith, TypeOK, Holds, Holding
<1>3. Blocked(r)' = Blocked(r) /\ StepToSend(rec[r])' = StepToSend(rec[r])
  BY <1>1 DEF Blocked, StepToSend
<1> QED
  BY <1>1, <1>2, <1>3, Frame

\* The end of a tick for the row w holds: nobody holds it any more.
LEMMA EndWithOwn ==
  ASSUME TypeOK, NEW w \in Workers, pc[w] \in Holding, NEW row, EndWith(w, row),
         NEW r \in Recipients, RowInv(r), job[w].row = r
  PROVE  rec'[r] = row /\ \A v \in Workers : ~Holds(v, r)'
<1>1. Holds(w, r)
  BY DEF Holds
<1>2. \A v \in Workers : Holds(v, r) => v = w
  BY <1>1 DEF RowInv, HeldAlone
<1> QED
  BY <1>2 DEF EndWith, TypeOK, Holds, Holding

\* ... and a row that is closed keeps the invariant.
LEMMA CloseOwn ==
  ASSUME TypeOK, NEW w \in Workers, pc[w] \in Holding, NEW row, EndWith(w, row),
         UNCHANGED <<suppressed, got, late, lied>>,
         NEW r \in Recipients, RowInv(r), job[w].row = r,
         row.status # "queued", row.stop = rec[r].stop,
         StepToSend(row) = StepToSend(rec[r])
  PROVE  RowInv(r)'
<1>1. rec'[r] = row /\ \A v \in Workers : ~Holds(v, r)'
  BY EndWithOwn
<1>2. (Blocked(r) => Blocked(r)') /\ StepToSend(rec[r])' = StepToSend(rec[r])
  BY <1>1 DEF Blocked
<1> QED
  BY <1>1, <1>2, Frame

\* ... and so does a row that goes back to the queue before anything was sent.
LEMMA RequeueOwn ==
  ASSUME TypeOK, NEW w \in Workers, pc[w] \in Holding, pc[w] # "mark",
         EndWith(w, Requeue(rec[job[w].row])),
         UNCHANGED <<suppressed, got, late, lied>>,
         NEW r \in Recipients, RowInv(r), job[w].row = r
  PROVE  RowInv(r)'
<1>1. rec'[r] = Requeue(rec[r]) /\ \A v \in Workers : ~Holds(v, r)'
  BY EndWithOwn
<1>2. StepToSend(rec[r])' = StepToSend(rec[r]) /\ rec'[r].stop = rec[r].stop
  BY <1>1, RowKeeps DEF TypeOK
<1>3. Blocked(r)' = Blocked(r)
  BY <1>2 DEF Blocked
<1>4. Holds(w, r) /\ job[w].step = StepToSend(rec[r])
  BY DEF Holds, RowInv, HeldIsCurrent
<1>5. HeldAlone(r)' /\ HeldIsOut(r)' /\ HeldIsCurrent(r)' /\ LateIsLast(r)'
  BY <1>1 DEF HeldAlone, HeldIsOut, HeldIsCurrent, LateIsLast
<1>6. ASSUME r \notin lied'
      PROVE  QueuedIsUnsent(r)' /\ HeldIsUnsent(r)' /\ SentOnce(r)'
  <2>1. job[w].step \in 1..(MaxStep + 1)
    BY DEF TypeOK, Job
  <2>2. \A s \in Steps : s >= job[w].step => got[r][s] = 0
    BY <1>4, <1>6, <2>1, SendConstants DEF SendConstants, RowInv, HeldIsUnsent, Steps
  <2>3. QueuedIsUnsent(r)'
    BY <1>2, <1>4, <2>2 DEF QueuedIsUnsent
  <2> QED
    BY <1>1, <1>6, <2>3 DEF RowInv, HeldIsUnsent, SentOnce
<1>7. (late[r] <= 1)' /\ LateIsBlocked(r)'
  BY <1>3 DEF RowInv, LateIsBlocked
<1> QED
  BY <1>5, <1>6, <1>7 DEF RowInv

LEMMA ClaimRow ==
  ASSUME TypeOK, NEW w \in Workers, NEW c \in Recipients, Claim(w, c),
         NEW r \in Recipients, RowInv(r)
  PROVE  RowInv(r)'
<1>1. CASE r # c
  <2>1. rec'[r] = rec[r]
    BY <1>1 DEF Claim, TypeOK
  <2>2. \A v \in Workers : Holds(v, r)' =>
          Holds(v, r) /\ job'[v].step = job[v].step /\ pc'[v] = pc[v]
    BY <1>1 DEF Claim, TypeOK, Holds, Holding
  <2>3. Blocked(r)' = Blocked(r) /\ StepToSend(rec[r])' = StepToSend(rec[r])
    BY <2>1 DEF Blocked, StepToSend, Claim
  <2> QED
    BY <2>1, <2>2, <2>3, Frame DEF Claim
<1>2. CASE r = c
  <2>1. rec[r].status = "queued" /\ ~Blocked(r) /\ rec[r] \in Row
    BY <1>2 DEF Claim, Claimable, TypeOK
  <2>2. \A v \in Workers : ~Holds(v, r)
    BY <2>1 DEF RowInv, HeldIsOut
  <2>3. \A v \in Workers : Holds(v, r)' =>
          v = w /\ pc'[v] = "check" /\ job'[v].step = StepToSend(rec[r])
    BY <1>2, <2>2 DEF Claim, TypeOK, Holds, Holding
  <2>4. rec'[r].status = "sending" /\ rec'[r].stop = rec[r].stop
    BY <1>2, <2>1 DEF Claim, TypeOK, Row
  <2>5. rec'[r].sentAt = rec[r].sentAt /\ rec'[r].step = rec[r].step
    BY <1>2, <2>1 DEF Claim, TypeOK, Row
  <2>6. StepToSend(rec[r])' = StepToSend(rec[r])
    BY <2>5 DEF StepToSend
  <2>7. Blocked(r)' = Blocked(r) /\ got' = got /\ late' = late /\ lied' = lied
    BY <2>4 DEF Blocked, Claim
  <2>8. late[r] = 0
    BY <2>1 DEF RowInv, LateIsBlocked, TypeOK
  <2>9. HeldAlone(r)' /\ HeldIsOut(r)' /\ HeldIsCurrent(r)'
    BY <2>3, <2>4, <2>6 DEF HeldAlone, HeldIsOut, HeldIsCurrent
  <2>10. ASSUME r \notin lied'
         PROVE  QueuedIsUnsent(r)' /\ HeldIsUnsent(r)' /\ SentOnce(r)'
    <3>1. \A s \in Steps : s >= StepToSend(rec[r]) => got[r][s] = 0
      BY <2>1, <2>7, <2>10 DEF RowInv, QueuedIsUnsent
    <3>2. StepToSend(rec[r]) \in 1..(MaxStep + 1)
      BY <2>1, RowType
    <3>3. HeldIsUnsent(r)'
      BY <2>3, <2>7, <3>1, <3>2, SendConstants DEF SendConstants, HeldIsUnsent, Steps
    <3> QED
      BY <2>4, <2>7, <2>10, <3>3 DEF RowInv, QueuedIsUnsent, SentOnce
  <2>11. (late[r] <= 1)' /\ LateIsBlocked(r)' /\ LateIsLast(r)'
    BY <2>7, <2>8 DEF LateIsBlocked, LateIsLast
  <2> QED
    BY <2>9, <2>10, <2>11 DEF RowInv
<1> QED
  BY <1>1, <1>2

\* A mail leaves: w holds its row alone, so it was the first of its step and,
\* if the row is blocked by now, the last of all.
LEMMA DeliveredRow ==
  ASSUME TypeOK, NEW w \in Workers, pc[w] = "smtp", Delivered(w),
         UNCHANGED <<rec, suppressed, job>>,
         NEW x \in {"mark", "fail"}, pc' = [pc EXCEPT ![w] = x],
         lied' = IF x = "mark" THEN lied ELSE lied \cup {job[w].row},
         NEW r \in Recipients, RowInv(r)
  PROVE  RowInv(r)'
<1>1. job[w].row \in Recipients /\ job[w].step \in Steps
  BY HolderType DEF TypeOK, Holding
<1>2. \A v \in Workers : Holds(v, r)' =>
        /\ Holds(v, r)
        /\ job'[v] = job[v]
        /\ pc'[v] = IF v = w THEN x ELSE pc[v]
  BY DEF Holds, Holding, TypeOK
<1>3. Blocked(r)' = Blocked(r) /\ StepToSend(rec[r])' = StepToSend(rec[r])
  BY DEF Blocked, StepToSend
<1>4. CASE job[w].row # r
  <2>1. got'[r] = got[r] /\ late'[r] = late[r]
    BY <1>4, <1>1 DEF Delivered, TypeOK
  <2>2. \A v \in Workers : Holds(v, r)' => v # w
    BY <1>2, <1>4 DEF Holds
  <2> QED
    BY <1>2, <1>3, <2>1, <2>2, Frame
<1>5. CASE job[w].row = r
  <2>1. Holds(w, r) /\ late[r] = 0
    BY <1>5 DEF Holds, Holding, RowInv, LateIsLast
  <2>2. \A v \in Workers : Holds(v, r)' => v = w
    BY <1>2, <2>1 DEF RowInv, HeldAlone
  <2>3. late'[r] <= 1 /\ (late'[r] >= 1 => Blocked(r))
    BY <1>5, <2>1 DEF Delivered, TypeOK, Bump
  <2>4. HeldAlone(r)' /\ HeldIsOut(r)' /\ HeldIsCurrent(r)'
    BY <1>2, <1>3 DEF RowInv, HeldAlone, HeldIsOut, HeldIsCurrent
  <2>5. LateIsBlocked(r)' /\ LateIsLast(r)'
    BY <1>2, <1>3, <2>2, <2>3 DEF LateIsBlocked, LateIsLast
  <2>6. ASSUME r \notin lied'
        PROVE  QueuedIsUnsent(r)' /\ HeldIsUnsent(r)' /\ SentOnce(r)'
    <3>1. x = "mark" /\ r \notin lied
      BY <1>5, <2>6
    <3>2. \A s \in Steps : s >= job[w].step => got[r][s] = 0
      BY <1>1, <2>1, <3>1 DEF RowInv, HeldIsUnsent, Steps
    <3>3. \A s \in Steps :
            got'[r][s] = IF s = job[w].step THEN Bump(got[r][s]) ELSE got[r][s]
      BY <1>1, <1>5 DEF Delivered, TypeOK
    <3>4. got[r][job[w].step] = 0
      BY <1>1, <3>2 DEF Steps
    <3>5. SentOnce(r)'
      BY <3>1, <3>3, <3>4 DEF RowInv, SentOnce, Bump
    <3>6. HeldIsUnsent(r)'
      <4>1. pc'[w] = "mark"
        BY <3>1 DEF TypeOK
      <4>2. ASSUME NEW s \in Steps, s > job[w].step
            PROVE  got'[r][s] = 0
        BY <1>1, <3>2, <3>3, <4>2 DEF Steps
      <4> QED
        BY <1>1, <2>2, <4>1, <4>2 DEF HeldIsUnsent
    <3>7. QueuedIsUnsent(r)'
      BY <2>1 DEF RowInv, HeldIsOut, QueuedIsUnsent
    <3> QED
      BY <3>5, <3>6, <3>7
  <2> QED
    BY <2>3, <2>4, <2>5, <2>6 DEF RowInv
<1> QED
  BY <1>4, <1>5

\* The mail is recorded: what is next to send is what has not been sent.
LEMMA MarkSentRow ==
  ASSUME TypeOK, NEW w \in Workers, MarkSent(w), NEW r \in Recipients, RowInv(r)
  PROVE  RowInv(r)'
<1> DEFINE row == MarkStepSent(rec[job[w].row], job[w].step, job[w].more)
<1>1. /\ pc[w] \in Holding /\ pc[w] = "mark" /\ EndWith(w, row)
      /\ UNCHANGED <<suppressed, got, late, lied>>
      /\ job[w].step \in Steps /\ job[w].more \in BOOLEAN
  BY DEF MarkSent, Holding, historyVars, TypeOK, Job
<1>2. CASE job[w].row # r
  BY <1>1, <1>2, EndWithOther
<1>3. CASE job[w].row = r
  <2>1. rec'[r] = row /\ \A v \in Workers : ~Holds(v, r)'
    BY <1>1, <1>3, EndWithOwn
  <2>2. StepToSend(rec[r])' = job[w].step + 1 /\ rec'[r].stop = rec[r].stop
    BY <1>1, <1>3, <2>1, HolderType, StepSentRow
  <2>3. Blocked(r)' = Blocked(r)
    BY <1>1, <2>2 DEF Blocked
  <2>4. HeldAlone(r)' /\ HeldIsOut(r)' /\ HeldIsCurrent(r)' /\ LateIsLast(r)'
    BY <2>1 DEF HeldAlone, HeldIsOut, HeldIsCurrent, LateIsLast
  <2>5. ASSUME r \notin lied'
        PROVE  QueuedIsUnsent(r)' /\ HeldIsUnsent(r)' /\ SentOnce(r)'
    <3>1. \A s \in Steps : s > job[w].step => got[r][s] = 0
      BY <1>1, <1>3, <2>5 DEF RowInv, HeldIsUnsent, Holds
    <3>2. QueuedIsUnsent(r)'
      BY <1>1, <2>2, <3>1 DEF QueuedIsUnsent, Steps
    <3> QED
      BY <1>1, <2>1, <2>5, <3>2 DEF RowInv, HeldIsUnsent, SentOnce
  <2>6. (late[r] <= 1)' /\ LateIsBlocked(r)'
    BY <1>1, <2>3 DEF RowInv, LateIsBlocked
  <2> QED
    BY <2>4, <2>5, <2>6 DEF RowInv
<1> QED
  BY <1>2, <1>3

LEMMA SendOneRow ==
  ASSUME TypeOK, NEW w \in Workers, SendOne(w), NEW r \in Recipients, RowInv(r)
  PROVE  RowInv(r)'
<1>1. ASSUME NEW c \in Recipients, Claim(w, c)
      PROVE  RowInv(r)'
  BY <1>1, ClaimRow
<1>2. CASE (Recheck(w) \/ SkipNoMX(w)) /\ EndWith(w, MarkSkipped(rec[job[w].row]))
  <2> DEFINE row == MarkSkipped(rec[job[w].row])
  <2>1. pc[w] \in Holding /\ UNCHANGED <<suppressed, got, late, lied>>
    BY <1>2 DEF Recheck, SkipNoMX, Holding, historyVars
  <2>2. /\ row.status # "queued" /\ row.stop = rec[job[w].row].stop
        /\ StepToSend(row) = StepToSend(rec[job[w].row])
    BY <2>1, HolderType, RowKeeps
  <2> QED
    BY <1>2, <2>1, <2>2, EndWithOther, CloseOwn
<1>3. CASE \/ Recheck(w) /\ pc' = [pc EXCEPT ![w] = "prepare"] /\ UNCHANGED <<rec, job>>
           \/ Compose(w) \/ SmtpReject(w)
  <2>1. /\ UNCHANGED <<rec, suppressed, got, late, lied>>
        /\ \A v \in Workers : job'[v].row = job[v].row /\ job'[v].step = job[v].step
    <3>1. CASE Compose(w)
      <4>1. job[w] \in Job
        BY DEF TypeOK
      <4>2. \A b \in BOOLEAN : /\ [job[w] EXCEPT !.more = b].row = job[w].row
                               /\ [job[w] EXCEPT !.more = b].step = job[w].step
        BY <4>1 DEF Job
      <4>3. (job[w].step < lastStep) \in BOOLEAN
        OBVIOUS
      <4>4. \A v \in Workers : v # w => job'[v] = job[v]
        BY <3>1 DEF Compose, TypeOK
      <4>5. job'[w] = [job[w] EXCEPT !.more = (job[w].step < lastStep)]
        BY <3>1 DEF Compose, TypeOK
      <4>6. job'[w].row = job[w].row /\ job'[w].step = job[w].step
        BY <4>2, <4>3, <4>5
      <4>7. UNCHANGED <<rec, suppressed, got, late, lied>>
        BY <3>1 DEF Compose, historyVars
      <4> QED
        BY <4>4, <4>6, <4>7
    <3> QED
      BY <1>3, <3>1 DEF Recheck, SmtpReject, historyVars
  <2>2. \A v \in Workers : \/ pc'[v] = pc[v]
                           \/ (v = w /\ pc[w] \in Early /\ pc'[w] \in {"prepare", "smtp", "fail"})
    BY <1>3 DEF Recheck, Compose, SmtpReject, TypeOK, Early
  <2>3. \A v \in Workers : Holds(v, r)' =>
          /\ Holds(v, r)
          /\ job'[v].step = job[v].step
          /\ pc'[v] = "mark" <=> pc[v] = "mark"
          /\ pc'[v] \in Early => pc[v] \in Early
    BY <2>1, <2>2 DEF Holds, Holding, Early
  <2>4. Blocked(r)' = Blocked(r) /\ StepToSend(rec[r])' = StepToSend(rec[r])
    BY <2>1 DEF Blocked, StepToSend
  <2> QED
    BY <2>1, <2>3, <2>4, Frame
<1>4. CASE EndSequence(w)
  <2> DEFINE row == MarkStepSent(rec[job[w].row], job[w].step - 1, FALSE)
  <2>1. /\ pc[w] \in Holding /\ EndWith(w, row)
        /\ UNCHANGED <<suppressed, got, late, lied>>
    BY <1>4 DEF EndSequence, Holding, historyVars
  <2>2. job[w].step \in 1..(MaxStep + 1) /\ job[w].step - 1 \in Steps
    BY <1>4, SendConstants DEF SendConstants, EndSequence, TypeOK, Job, Steps
  <2>3. /\ row.status # "queued" /\ row.stop = rec[job[w].row].stop
        /\ StepToSend(row) = job[w].step
    <3>1. rec[job[w].row] \in Row
      BY <2>1, HolderType
    <3>2. StepToSend(row) = (job[w].step - 1) + 1 /\ row.stop = rec[job[w].row].stop
      BY <2>2, <3>1, StepSentRow
    <3>3. row.status = "sent"
      BY <2>2, <3>1, StepSentRow
    <3>4. (job[w].step - 1) + 1 = job[w].step
      BY <2>2, SendConstants DEF SendConstants
    <3> QED
      BY <3>2, <3>3, <3>4
  <2>4. job[w].row = r => job[w].step = StepToSend(rec[r])
    BY <2>1 DEF RowInv, HeldIsCurrent, Holds
  <2> QED
    BY <2>1, <2>3, <2>4, EndWithOther, CloseOwn
<1>5. CASE SmtpAccept(w)
  <2>1. /\ pc[w] = "smtp" /\ Delivered(w) /\ UNCHANGED <<rec, suppressed, job>>
        /\ pc' = [pc EXCEPT ![w] = "mark"] /\ lied' = lied
    BY <1>5 DEF SmtpAccept
  <2> QED
    BY <2>1, DeliveredRow
<1>6. CASE MarkSent(w)
  BY <1>6, MarkSentRow
<1>7. CASE SendFailed(w)
  <2>1. /\ pc[w] \in Holding /\ pc[w] # "mark"
        /\ UNCHANGED <<suppressed, got, late, lied>>
    BY <1>7 DEF SendFailed, Holding, historyVars
  <2>2. CASE EndWith(w, MarkFailed(rec[job[w].row]))
    <3> DEFINE row == MarkFailed(rec[job[w].row])
    <3>1. /\ row.status # "queued" /\ row.stop = rec[job[w].row].stop
          /\ StepToSend(row) = StepToSend(rec[job[w].row])
      BY <2>1, HolderType, RowKeeps
    <3> QED
      BY <2>1, <2>2, <3>1, EndWithOther, CloseOwn
  <2>3. CASE EndWith(w, Requeue(rec[job[w].row]))
    BY <2>1, <2>3, EndWithOther, RequeueOwn
  <2> QED
    BY <1>7, <2>2, <2>3 DEF SendFailed
<1> QED
  BY <1>1, <1>2, <1>3, <1>4, <1>5, <1>6, <1>7 DEF SendOne, Recheck, SkipNoMX

LEMMA TroubleRow ==
  ASSUME TypeOK, NEW w \in Workers, Trouble(w), NEW r \in Recipients, RowInv(r)
  PROVE  RowInv(r)'
<1>1. CASE CustomerLookupFailed(w)
  <2> DEFINE row == MarkFailed(rec[job[w].row])
  <2>1. /\ pc[w] \in Holding /\ EndWith(w, row)
        /\ UNCHANGED <<suppressed, got, late, lied>>
    BY <1>1 DEF CustomerLookupFailed, Holding, historyVars
  <2>2. /\ row.status # "queued" /\ row.stop = rec[job[w].row].stop
        /\ StepToSend(row) = StepToSend(rec[job[w].row])
    BY <2>1, HolderType, RowKeeps
  <2> QED
    BY <2>1, <2>2, EndWithOther, CloseOwn
<1>2. CASE RequeueTransient(w)
  <2>1. /\ pc[w] \in Holding /\ pc[w] # "mark"
        /\ EndWith(w, Requeue(rec[job[w].row]))
        /\ UNCHANGED <<suppressed, got, late, lied>>
    BY <1>2 DEF RequeueTransient, Holding, historyVars
  <2> QED
    BY <2>1, EndWithOther, RequeueOwn
<1>3. CASE SmtpAcceptAndError(w)
  <2>1. /\ pc[w] = "smtp" /\ Delivered(w) /\ UNCHANGED <<rec, suppressed, job>>
        /\ pc' = [pc EXCEPT ![w] = "fail"] /\ lied' = lied \cup {job[w].row}
    BY <1>3 DEF SmtpAcceptAndError
  <2> QED
    BY <2>1, DeliveredRow
<1>4. CASE LoseWrite(w) \/ Crash(w)
  <2>1. UNCHANGED <<rec, suppressed, got, late, lied>>
    BY <1>4 DEF LoseWrite, Crash, historyVars
  <2>2. \A v \in Workers : Holds(v, r)' =>
          Holds(v, r) /\ job'[v].step = job[v].step /\ pc'[v] = pc[v]
    BY <1>4 DEF LoseWrite, Crash, TypeOK, Holds, Holding
  <2>3. Blocked(r)' = Blocked(r) /\ StepToSend(rec[r])' = StepToSend(rec[r])
    BY <2>1 DEF Blocked, StepToSend
  <2> QED
    BY <2>1, <2>2, <2>3, Frame
<1>5. CASE QueryFails(w)
  <2>1. /\ UNCHANGED <<rec, suppressed, job, got, late, lied>>
        /\ \E at \in {"breaker", "drain", "idle"} : pc' = [pc EXCEPT ![w] = at]
    BY <1>5 DEF QueryFails, AfterFailure, historyVars
  <2>2. \A v \in Workers : Holds(v, r)' =>
          Holds(v, r) /\ job'[v].step = job[v].step /\ pc'[v] = pc[v]
    BY <2>1 DEF TypeOK, Holds, Holding
  <2>3. Blocked(r)' = Blocked(r) /\ StepToSend(rec[r])' = StepToSend(rec[r])
    BY <2>1 DEF Blocked, StepToSend
  <2> QED
    BY <2>1, <2>2, <2>3, Frame
<1> QED
  BY <1>1, <1>2, <1>3, <1>4, <1>5 DEF Trouble

LEMMA EnvironmentRow ==
  ASSUME TypeOK, Environment, NEW r \in Recipients \ resent', RowInv(r)
  PROVE  RowInv(r)'
<1>0. rec[r] \in Row
  BY DEF TypeOK
<1>1. CASE \E c \in Recipients : ClaimAges(c) \/ FollowupDue(c)
  <2>1. /\ rec'[r].status = rec[r].status /\ rec'[r].stop = rec[r].stop
        /\ rec'[r].sentAt = rec[r].sentAt /\ rec'[r].step = rec[r].step
        /\ UNCHANGED <<suppressed, pc, job, got, late, lied>>
    BY <1>0, <1>1 DEF ClaimAges, FollowupDue, TypeOK, Row, historyVars
  <2>2. Blocked(r)' = Blocked(r) /\ StepToSend(rec[r])' = StepToSend(rec[r])
    BY <2>1 DEF Blocked, StepToSend
  <2> QED
    BY <2>1, <2>2, Frame DEF Holds
<1>2. ASSUME NEW c \in Recipients, NEW k \in {"left", "bounced"}, Stop(c, k)
      PROVE  RowInv(r)'
  <2>1. /\ rec'[r].status = rec[r].status
        /\ rec'[r].stop = rec[r].stop \/ rec'[r].stop # "none"
        /\ rec'[r].sentAt = rec[r].sentAt /\ rec'[r].step = rec[r].step
        /\ UNCHANGED <<suppressed, pc, job, got, late, lied>>
    BY <1>0, <1>2 DEF Stop, TypeOK, Row, historyVars
  <2>2. (Blocked(r) => Blocked(r)') /\ StepToSend(rec[r])' = StepToSend(rec[r])
    BY <2>1 DEF Blocked, StepToSend
  <2> QED
    BY <2>1, <2>2, Frame DEF Holds
<1>3. ASSUME NEW c \in Recipients, NEW k \in {"manual", "kept"}, Suppress(c, k)
      PROVE  RowInv(r)'
  <2>1. UNCHANGED <<rec, pc, job, got, late, lied>>
    BY <1>3 DEF Suppress, historyVars
  <2>2. (Blocked(r) => Blocked(r)') /\ StepToSend(rec[r])' = StepToSend(rec[r])
    BY <1>3, <2>1 DEF Suppress, Blocked, StepToSend, TypeOK
  <2> QED
    BY <2>1, <2>2, Frame DEF Holds
<1>4. ASSUME NEW c \in Recipients, RemoveSuppression(c)
      PROVE  RowInv(r)'
  <2>1. UNCHANGED <<rec, pc, job, got, lied>>
    BY <1>4 DEF RemoveSuppression
  <2>2. StepToSend(rec[r])' = StepToSend(rec[r])
    BY <2>1 DEF StepToSend
  <2>3. CASE c = r /\ rec[r].stop = "none"
    <3>1. late'[r] = 0
      BY <1>4, <2>3 DEF RemoveSuppression, TypeOK
    <3>2. HeldAlone(r)' /\ HeldIsOut(r)' /\ HeldIsCurrent(r)'
      BY <2>1, <2>2 DEF RowInv, HeldAlone, HeldIsOut, HeldIsCurrent, Holds
    <3>3. ASSUME r \notin lied'
          PROVE  QueuedIsUnsent(r)' /\ HeldIsUnsent(r)' /\ SentOnce(r)'
      BY <2>1, <2>2, <3>3 DEF RowInv, QueuedIsUnsent, HeldIsUnsent, SentOnce, Holds
    <3> QED
      BY <3>1, <3>2, <3>3 DEF RowInv, LateIsBlocked, LateIsLast
  <2>4. CASE c # r \/ rec[r].stop # "none"
    <3>1. late'[r] = late[r] /\ (Blocked(r) => Blocked(r)')
      BY <1>4, <2>4 DEF RemoveSuppression, Blocked, TypeOK
    <3> QED
      BY <2>1, <2>2, <3>1, Frame DEF Holds
  <2> QED
    BY <2>3, <2>4
<1>5. CASE RequeueFailedRecipients
  <2>1. rec'[r] = rec[r] /\ UNCHANGED <<suppressed, pc, job, got, late, lied>>
    BY <1>5 DEF RequeueFailedRecipients
  <2>2. Blocked(r)' = Blocked(r) /\ StepToSend(rec[r])' = StepToSend(rec[r])
    BY <2>1 DEF Blocked, StepToSend
  <2> QED
    BY <2>1, <2>2, Frame DEF Holds
<1>6. CASE LockExpires \/ Handler
  <2>1. UNCHANGED <<rec, suppressed, pc, job, got, late, lied>>
    BY <1>6 DEF LockExpires, Handler, HandlerReads, HandlerWrites, HandlerReturns,
       EditDeletesSteps, EditCreatesStep, historyVars
  <2>2. Blocked(r)' = Blocked(r) /\ StepToSend(rec[r])' = StepToSend(rec[r])
    BY <2>1 DEF Blocked, StepToSend
  <2> QED
    BY <2>1, <2>2, Frame DEF Holds
<1> QED
  BY <1>1, <1>2, <1>3, <1>4, <1>5, <1>6 DEF Environment, Outside

-----------------------------------------------------------------------------
(* The theorems *)

LEMMA InitInv == Init => IInv
<1> SUFFICES ASSUME Init
             PROVE  IInv
  OBVIOUS
<1>1. TypeOK
  BY InitType
<1>2. ASSUME NEW r \in Recipients
      PROVE  RowInv(r)
  <2>1. \A w \in Workers : ~Holds(w, r)
    BY DEF Init, Holds, Holding
  <2>2. (\A s \in Steps : got[r][s] = 0) /\ late[r] = 0
    BY DEF Init
  <2> QED
    BY <2>1, <2>2 DEF RowInv, HeldAlone, HeldIsOut, HeldIsCurrent, QueuedIsUnsent,
       HeldIsUnsent, SentOnce, LateIsBlocked, LateIsLast
<1> QED
  BY <1>1, <1>2 DEF IInv

LEMMA ResentGrows == [Next]_vars => resent \subseteq resent'
  BY DEF Next, Tick, SendOne, Trouble, Outside, Handler, TickBegin,
     FinalizeStoppedFollowups, TripBreaker, CountRemaining, Complete, SkipSend, Claim,
     Recheck, SkipNoMX, EndSequence, Compose, SmtpAccept, SmtpReject, MarkSent,
     SendFailed, CustomerLookupFailed, RequeueTransient, SmtpAcceptAndError,
     QueryFails, LoseWrite, Crash, ClaimAges, FollowupDue, Stop, Suppress,
     RemoveSuppression, LockExpires, RequeueFailedRecipients, HandlerReads, HandlerWrites, HandlerReturns,
     EditDeletesSteps, EditCreatesStep, vars, historyVars

LEMMA NextInv == IInv /\ [Next]_vars => IInv'
<1> SUFFICES ASSUME IInv, [Next]_vars
             PROVE  IInv'
  OBVIOUS
<1>1. TypeOK'
  BY NextType DEF IInv
<1>2. ASSUME NEW r \in Recipients \ resent'
      PROVE  RowInv(r)'
  <2>1. TypeOK /\ r \in Recipients /\ RowInv(r)
    BY ResentGrows DEF IInv
  <2>2. CASE Next
    BY <2>1, <2>2, TickRow, SendOneRow, TroubleRow, EnvironmentRow DEF Next, Environment
  <2>3. CASE UNCHANGED vars
    BY <2>1, <2>3 DEF vars, RowInv, HeldAlone, HeldIsOut, HeldIsCurrent,
       QueuedIsUnsent, HeldIsUnsent, SentOnce, LateIsBlocked, LateIsLast, Holds, Blocked
  <2> QED
    BY <2>2, <2>3
<1> QED
  BY <1>1, <1>2 DEF IInv

LEMMA Invariance == Spec => []IInv
  BY InitInv, NextInv, PTL DEF Spec

\* No two pods work on one recipient, however the Redis lock behaves
\* (worker.go:35-37), unless the operator requeued it.
THEOREM OneHolder == Spec => []SingleHolder
<1>1. IInv => SingleHolder
  BY DEF IInv, RowInv, HeldAlone, SingleHolder
<1> QED
  BY <1>1, Invariance, PTL

\* At-most-once delivery of every step, whatever pods crash, writes fail, locks
\* expire and campaigns are edited, unless the operator requeued the row or SMTP
\* misreported an accepted mail.
THEOREM NoDoubleSend == Spec => []AtMostOnce
<1>1. IInv => AtMostOnce
  BY DEF IInv, RowInv, SentOnce, AtMostOnce
<1> QED
  BY <1>1, Invariance, PTL

\* At most one more mail reaches somebody who answered, bounced or was put on
\* the suppression list.
THEOREM FewLateMails == Spec => []LateMailBound
<1>1. IInv => LateMailBound
  BY DEF IInv, RowInv, LateMailBound
<1> QED
  BY <1>1, Invariance, PTL

\* What a worker does to the rows: it claims one from the queue, ends a tick for
\* the one it holds, or leaves them alone.
LEMMA WorkerRows ==
  ASSUME NEW w \in Workers, SendOne(w) \/ Trouble(w)
  PROVE  \/ \E c \in Recipients : Claim(w, c)
         \/ pc[w] \in Holding /\ \E row : EndWith(w, row)
         \/ UNCHANGED rec
<1>1. CASE SendOne(w)
  BY <1>1 DEF SendOne, Recheck, SkipNoMX, EndSequence, Compose, SmtpAccept, SmtpReject,
     MarkSent, SendFailed, Holding
<1>2. CASE Trouble(w)
  BY <1>2 DEF Trouble, CustomerLookupFailed, RequeueTransient, SmtpAcceptAndError,
     QueryFails, LoseWrite, Crash, Holding
<1> QED
  BY <1>1, <1>2

LEMMA ClosedStep ==
  ASSUME IInv, [Next]_vars, NEW r \in Recipients \ resent',
         rec[r].status \in {"sent", "skipped"}
  PROVE  rec'[r].status = rec[r].status
<1>0. TypeOK /\ rec[r] \in Row /\ HeldIsOut(r)
  BY ResentGrows DEF IInv, TypeOK, RowInv
<1>1. ASSUME NEW w \in Workers, Tick(w)
      PROVE  rec'[r].status = rec[r].status
  <2>1. JanitorRow(rec[r]).status = rec[r].status
    BY DEF JanitorRow
  <2>2. FinalizedRow(rec[r]).status = rec[r].status
    BY DEF FinalizedRow
  <2> QED
    BY <1>1, <2>1, <2>2 DEF Tick, TickBegin, FinalizeStoppedFollowups, TripBreaker,
       CountRemaining, Complete, SkipSend
<1>2. ASSUME NEW w \in Workers, SendOne(w) \/ Trouble(w)
      PROVE  rec'[r].status = rec[r].status
  <2>1. ASSUME NEW c \in Recipients, Claim(w, c)
        PROVE  rec'[r] = rec[r]
    BY <1>0, <2>1 DEF Claim, Claimable, TypeOK
  <2>2. ASSUME NEW row, pc[w] \in Holding, EndWith(w, row)
        PROVE  rec'[r] = rec[r]
    <3>1. job[w].row # r
      BY <1>0, <2>2 DEF HeldIsOut, Holds
    <3> QED
      BY <1>0, <2>2, <3>1 DEF EndWith, TypeOK
  <2> QED
    BY <1>2, <2>1, <2>2, WorkerRows
<1>3. CASE Environment
  <2>1. CASE \E c \in Recipients : ClaimAges(c) \/ FollowupDue(c)
    BY <1>0, <2>1 DEF ClaimAges, FollowupDue, TypeOK, Row
  <2>2. CASE \E c \in Recipients : \E k \in {"left", "bounced"} : Stop(c, k)
    BY <1>0, <2>2 DEF Stop, TypeOK, Row
  <2>3. CASE RequeueFailedRecipients
    BY <2>3 DEF RequeueFailedRecipients
  <2>4. CASE \/ LockExpires \/ Handler
             \/ \E c \in Recipients :
                   RemoveSuppression(c) \/ \E k \in {"manual", "kept"} : Suppress(c, k)
    BY <2>4 DEF LockExpires, Handler, HandlerReads, HandlerWrites, HandlerReturns,
       EditDeletesSteps, EditCreatesStep, RemoveSuppression, Suppress
  <2> QED
    BY <1>3, <2>1, <2>2, <2>3, <2>4 DEF Environment, Outside
<1>4. CASE UNCHANGED vars
  BY <1>4 DEF vars
<1> QED
  BY <1>1, <1>2, <1>3, <1>4 DEF Next, Environment

\* A row whose sequence is over stays closed unless the operator requeues it
\* (the claim and the janitor of campaign.sql:118-171).
THEOREM ClosedForGood == Spec => ClosedRowsStayClosed
<1>1. IInv /\ [Next]_vars =>
        [\A r \in Recipients \ resent' :
            rec[r].status \in {"sent", "skipped"} => rec'[r].status = rec[r].status]_vars
  BY ClosedStep
<1> QED
  BY <1>1, Invariance, PTL DEF Spec, ClosedRowsStayClosed

-----------------------------------------------------------------------------
(* The order of the steps. This invariant holds of requeued rows too, whoever *)
(* holds them.                                                               *)

\* Every step before n has been sent to r.
Before(r, n) == \A t \in Steps : t < n => got[r][t] > 0

\* Neither a row nor the worker that holds it is ahead of what was sent, and a
\* worker that is about to record a step has sent it.
OrderInv(r) ==
    /\ Before(r, StepToSend(rec[r]))
    /\ \A w \in Workers : Holds(w, r) => Before(r, job[w].step)
    /\ \A w \in Workers : Holds(w, r) /\ pc[w] = "mark" => got[r][job[w].step] > 0
    /\ \A s \in Steps : s > 1 /\ got[r][s] > 0 => got[r][s - 1] > 0

OInv == TypeOK /\ \A r \in Recipients : OrderInv(r)

LEMMA InitOrder == Init => OInv
<1> SUFFICES ASSUME Init
             PROVE  OInv
  OBVIOUS
<1>1. ASSUME NEW r \in Recipients
      PROVE  OrderInv(r)
  BY SendConstants DEF SendConstants, Init, OrderInv, Before, StepToSend, NewRow, Holds,
     Holding, Steps
<1> QED
  BY <1>1, InitType DEF OInv

\* A step that sends nothing to r and lets nobody new hold it keeps the order,
\* unless it moves the row ahead of what was sent.
LEMMA OrderFrame ==
  ASSUME NEW r \in Recipients, OrderInv(r), got'[r] = got[r],
         Before(r, StepToSend(rec'[r])),
         \A w \in Workers : Holds(w, r)' =>
             /\ Holds(w, r)
             /\ job'[w].step = job[w].step
             /\ pc'[w] = "mark" => pc[w] = "mark"
  PROVE  OrderInv(r)'
  BY DEF OrderInv, Before

LEMMA EndWithOrder ==
  ASSUME TypeOK, NEW w \in Workers, pc[w] \in Holding, NEW row, EndWith(w, row),
         got' = got, NEW r \in Recipients, OrderInv(r),
         job[w].row = r => Before(r, StepToSend(row))
  PROVE  OrderInv(r)'
<1>1. rec'[r] = IF job[w].row = r THEN row ELSE rec[r]
  BY DEF EndWith, TypeOK
<1>2. Before(r, StepToSend(rec'[r]))
  BY <1>1 DEF OrderInv
<1>3. \A v \in Workers : Holds(v, r)' =>
        Holds(v, r) /\ job'[v].step = job[v].step /\ pc'[v] = pc[v]
  BY DEF EndWith, TypeOK, Holds, Holding
<1> QED
  BY <1>2, <1>3, OrderFrame

\* ... in particular when the outcome leaves the step of the row alone.
LEMMA EndWithSameStep ==
  ASSUME TypeOK, NEW w \in Workers, pc[w] \in Holding, got' = got,
         \/ EndWith(w, MarkSkipped(rec[job[w].row]))
         \/ EndWith(w, MarkFailed(rec[job[w].row]))
         \/ EndWith(w, Requeue(rec[job[w].row])),
         NEW r \in Recipients, OrderInv(r)
  PROVE  OrderInv(r)'
<1>1. PICK row \in {MarkSkipped(rec[job[w].row]), MarkFailed(rec[job[w].row]),
                    Requeue(rec[job[w].row])} : EndWith(w, row)
  OBVIOUS
<1>2. StepToSend(row) = StepToSend(rec[job[w].row])
  BY HolderType, RowKeeps
<1> QED
  BY <1>1, <1>2, EndWithOrder DEF OrderInv

\* A mail leaves: everything before its step was sent, and now its step is too.
LEMMA DeliveredOrder ==
  ASSUME TypeOK, NEW w \in Workers, pc[w] = "smtp", Delivered(w),
         UNCHANGED <<rec, job>>,
         NEW x \in {"mark", "fail"}, pc' = [pc EXCEPT ![w] = x],
         NEW r \in Recipients, OrderInv(r)
  PROVE  OrderInv(r)'
<1>1. job[w].row \in Recipients /\ job[w].step \in Steps
  BY HolderType DEF TypeOK, Holding
<1>2. \A v \in Workers : Holds(v, r)' =>
        /\ Holds(v, r)
        /\ job'[v] = job[v]
        /\ pc'[v] = IF v = w THEN x ELSE pc[v]
  BY DEF Holds, Holding, TypeOK
<1>3. CASE job[w].row # r
  <2>1. got'[r] = got[r]
    BY <1>1, <1>3 DEF Delivered, TypeOK
  <2>2. \A v \in Workers : Holds(v, r)' => v # w
    BY <1>2, <1>3 DEF Holds
  <2>3. Before(r, StepToSend(rec'[r]))
    BY DEF OrderInv
  <2> QED
    BY <1>2, <2>1, <2>2, <2>3, OrderFrame
<1>4. CASE job[w].row = r
  <2>1. Holds(w, r)
    BY <1>4 DEF Holds, Holding
  <2>2. \A s \in Steps :
          got'[r][s] = IF s = job[w].step THEN Bump(got[r][s]) ELSE got[r][s]
    BY <1>1, <1>4 DEF Delivered, TypeOK
  <2>3. \A s \in Steps : got[r][s] \in 0..2
    BY DEF TypeOK
  <2>4. got'[r][job[w].step] > 0
    BY <1>1, <2>2, <2>3 DEF Bump
  <2>5. \A s \in Steps : got[r][s] > 0 => got'[r][s] > 0
    BY <2>2, <2>3, <2>4
  <2>6. Before(r, StepToSend(rec[r]))'
    BY <2>5 DEF OrderInv, Before
  <2>7. ASSUME NEW v \in Workers, Holds(v, r)'
        PROVE  Before(r, job[v].step)'
    BY <1>2, <2>5, <2>7 DEF OrderInv, Before
  <2>8. ASSUME NEW v \in Workers, Holds(v, r)', pc'[v] = "mark"
        PROVE  got'[r][job'[v].step] > 0
    <3>1. CASE v = w
      BY <2>4, <3>1
    <3>2. CASE v # w
      <4>1. Holds(v, r) /\ pc[v] = "mark" /\ job'[v].step = job[v].step
        BY <1>2, <2>8, <3>2
      <4>2. got[r][job[v].step] > 0 /\ job[v].step \in Steps
        BY <4>1 DEF OrderInv, TypeOK
      <4> QED
        BY <2>5, <4>1, <4>2
    <3> QED
      BY <3>1, <3>2
  <2>9. ASSUME NEW s \in Steps, s > 1, got'[r][s] > 0
        PROVE  got'[r][s - 1] > 0
    <3>1. s - 1 \in Steps
      BY <2>9, SendConstants DEF SendConstants, Steps
    <3>2. CASE s = job[w].step
      BY <2>1, <2>5, <3>1, <3>2 DEF OrderInv, Before, Steps
    <3>3. CASE s # job[w].step
      BY <2>2, <2>5, <2>9, <3>1, <3>3 DEF OrderInv
    <3> QED
      BY <3>2, <3>3
  <2> QED
    BY <2>6, <2>7, <2>8, <2>9 DEF OrderInv
<1> QED
  BY <1>3, <1>4

LEMMA SendOneOrder ==
  ASSUME TypeOK, NEW w \in Workers, SendOne(w), NEW r \in Recipients, OrderInv(r)
  PROVE  OrderInv(r)'
<1>1. ASSUME NEW c \in Recipients, Claim(w, c)
      PROVE  OrderInv(r)'
  <2>1. /\ rec'[r].sentAt = rec[r].sentAt
        /\ rec'[r].step = rec[r].step
        /\ got' = got
    BY <1>1 DEF Claim, TypeOK, Row
  <2>2. StepToSend(rec'[r]) = StepToSend(rec[r])
    BY <2>1 DEF StepToSend
  <2>3. \A v \in Workers : Holds(v, r)' =>
          \/ Holds(v, r) /\ job'[v].step = job[v].step /\ pc'[v] = pc[v]
          \/ pc'[v] = "check" /\ job'[v].step = StepToSend(rec[r])
    BY <1>1 DEF Claim, TypeOK, Holds, Holding
  <2> QED
    BY <2>1, <2>2, <2>3 DEF OrderInv, Before
<1>2. CASE Recheck(w)
  <2>1. CASE EndWith(w, MarkSkipped(rec[job[w].row]))
    BY <1>2, <2>1, EndWithSameStep DEF Recheck, Holding, historyVars
  <2>2. CASE pc' = [pc EXCEPT ![w] = "prepare"] /\ UNCHANGED <<rec, job>>
    <3>1. \A v \in Workers : Holds(v, r)' =>
            /\ Holds(v, r)
            /\ job'[v].step = job[v].step
            /\ pc'[v] = "mark" => pc[v] = "mark"
      BY <1>2, <2>2 DEF Recheck, Holds, Holding, TypeOK
    <3> QED
      BY <1>2, <2>2, <3>1, OrderFrame DEF Recheck, historyVars, OrderInv
  <2> QED
    BY <1>2, <2>1, <2>2 DEF Recheck
<1>3. CASE SkipNoMX(w)
  BY <1>3, EndWithSameStep DEF SkipNoMX, Holding, historyVars
<1>4. CASE SendFailed(w)
  BY <1>4, EndWithSameStep DEF SendFailed, Holding, historyVars
<1>5. CASE EndSequence(w)
  <2>1. /\ job[w].step \in 1..(MaxStep + 1)
        /\ job[w].step > 1
        /\ pc[w] \in Holding
    BY <1>5 DEF EndSequence, Holding, TypeOK, Job
  <2>2. job[w].step - 1 \in Steps /\ (job[w].step - 1) + 1 = job[w].step
    BY <2>1, SendConstants DEF SendConstants, Steps
  <2>3. StepToSend(MarkStepSent(rec[job[w].row], job[w].step - 1, FALSE)) = job[w].step
    BY <2>1, <2>2, HolderType, StepSentRow
  <2>4. job[w].row = r => Before(r, job[w].step)
    BY <2>1 DEF OrderInv, Holds
  <2> QED
    BY <1>5, <2>1, <2>3, <2>4, EndWithOrder DEF EndSequence, historyVars
<1>6. CASE MarkSent(w)
  <2>1. job[w].step \in Steps /\ job[w].more \in BOOLEAN /\ pc[w] \in Holding
    BY <1>6 DEF MarkSent, TypeOK, Job, Holding
  <2>2. StepToSend(MarkStepSent(rec[job[w].row], job[w].step, job[w].more))
          = job[w].step + 1
    BY <2>1, HolderType, StepSentRow
  <2>3. job[w].row = r => Before(r, job[w].step + 1)
    BY <1>6, <2>1 DEF MarkSent, OrderInv, Before, Holds, Steps
  <2> QED
    BY <1>6, <2>1, <2>2, <2>3, EndWithOrder DEF MarkSent, historyVars
<1>7. CASE SmtpAccept(w)
  BY <1>7, DeliveredOrder DEF SmtpAccept
<1>8. CASE Compose(w) \/ SmtpReject(w)
  <2>1. \A v \in Workers : Holds(v, r)' =>
          /\ Holds(v, r)
          /\ job'[v].step = job[v].step
          /\ pc'[v] = "mark" => pc[v] = "mark"
    BY <1>8 DEF Compose, SmtpReject, Holds, Holding, TypeOK, Job
  <2>2. rec' = rec /\ got' = got
    BY <1>8 DEF Compose, SmtpReject, historyVars
  <2> QED
    BY <2>1, <2>2, OrderFrame DEF OrderInv
<1> QED
  BY <1>1, <1>2, <1>3, <1>4, <1>5, <1>6, <1>7, <1>8 DEF SendOne

LEMMA TroubleOrder ==
  ASSUME TypeOK, NEW w \in Workers, Trouble(w), NEW r \in Recipients, OrderInv(r)
  PROVE  OrderInv(r)'
<1>1. CASE CustomerLookupFailed(w)
  BY <1>1, EndWithSameStep DEF CustomerLookupFailed, Holding, historyVars
<1>2. CASE RequeueTransient(w)
  BY <1>2, EndWithSameStep DEF RequeueTransient, Holding, historyVars
<1>3. CASE SmtpAcceptAndError(w)
  BY <1>3, DeliveredOrder DEF SmtpAcceptAndError
<1>4. CASE LoseWrite(w) \/ Crash(w) \/ QueryFails(w)
  <2>1. rec' = rec /\ got' = got
    BY <1>4 DEF LoseWrite, Crash, QueryFails, historyVars
  <2>2. \A v \in Workers : Holds(v, r)' =>
          Holds(v, r) /\ job'[v].step = job[v].step /\ pc'[v] = pc[v]
    BY <1>4 DEF LoseWrite, Crash, QueryFails, AfterFailure, Holds, Holding, TypeOK
  <2> QED
    BY <2>1, <2>2, OrderFrame DEF OrderInv
<1> QED
  BY <1>1, <1>2, <1>3, <1>4 DEF Trouble

LEMMA TickOrder ==
  ASSUME TypeOK, NEW w \in Workers, Tick(w), NEW r \in Recipients, OrderInv(r)
  PROVE  OrderInv(r)'
<1>1. rec'[r] \in {rec[r], JanitorRow(rec[r]), FinalizedRow(rec[r])} /\ got' = got
  BY DEF Tick, TickBegin, FinalizeStoppedFollowups, TripBreaker, CountRemaining,
     Complete, SkipSend, historyVars
<1>2. StepToSend(rec'[r]) = StepToSend(rec[r])
  BY <1>1, RowKeeps DEF TypeOK
<1>3. \A v \in Workers : Holds(v, r)' =>
        Holds(v, r) /\ job'[v].step = job[v].step /\ pc'[v] = pc[v]
  BY DEF Tick, TickBegin, FinalizeStoppedFollowups, TripBreaker, CountRemaining,
     Complete, SkipSend, Holds, Holding, TypeOK
<1> QED
  BY <1>1, <1>2, <1>3, OrderFrame DEF OrderInv

LEMMA EnvironmentOrder ==
  ASSUME TypeOK, Environment, NEW r \in Recipients, OrderInv(r)
  PROVE  OrderInv(r)'
<1>1. UNCHANGED <<pc, job, got>>
  BY DEF Environment, Outside, ClaimAges, FollowupDue, Stop, Suppress, RemoveSuppression,
     LockExpires, RequeueFailedRecipients, Handler, HandlerReads, HandlerWrites,
     HandlerReturns, EditDeletesSteps, EditCreatesStep, historyVars
<1>2. rec'[r].step = rec[r].step /\ rec'[r].sentAt = rec[r].sentAt
  <2>1. ASSUME NEW c \in Recipients, ClaimAges(c) \/ FollowupDue(c)
        PROVE  rec'[r].step = rec[r].step /\ rec'[r].sentAt = rec[r].sentAt
    <3>1. rec[c] \in Row
      BY DEF TypeOK
    <3>2. CASE ClaimAges(c)
      BY <3>1, <3>2 DEF ClaimAges, TypeOK, Row
    <3>3. CASE FollowupDue(c)
      BY <3>1, <3>3 DEF FollowupDue, TypeOK, Row
    <3> QED
      BY <2>1, <3>2, <3>3
  <2>2. CASE \E c \in Recipients : \E k \in {"left", "bounced"} : Stop(c, k)
    BY <2>2 DEF Stop, TypeOK, Row
  <2>3. CASE RequeueFailedRecipients
    BY <2>3 DEF RequeueFailedRecipients, RequeueByHand, TypeOK, Row
  <2>4. CASE \/ LockExpires \/ Handler
             \/ \E c \in Recipients :
                   RemoveSuppression(c) \/ \E k \in {"manual", "kept"} : Suppress(c, k)
    BY <2>4 DEF LockExpires, Handler, HandlerReads, HandlerWrites, HandlerReturns,
       EditDeletesSteps, EditCreatesStep, RemoveSuppression, Suppress
  <2> QED
    BY <2>1, <2>2, <2>3, <2>4 DEF Environment, Outside
<1>3. StepToSend(rec'[r]) = StepToSend(rec[r])
  BY <1>2 DEF StepToSend
<1> QED
  BY <1>1, <1>3, OrderFrame DEF OrderInv, Holds

LEMMA NextOrder == OInv /\ [Next]_vars => OInv'
<1> SUFFICES ASSUME OInv, [Next]_vars
             PROVE  OInv'
  OBVIOUS
<1>1. ASSUME NEW r \in Recipients
      PROVE  OrderInv(r)'
  <2>1. CASE Next
    BY <2>1, TickOrder, SendOneOrder, TroubleOrder, EnvironmentOrder
       DEF OInv, Next, Environment
  <2>2. CASE UNCHANGED vars
    BY <2>2 DEF OInv, vars, OrderInv, Before, Holds
  <2> QED
    BY <2>1, <2>2
<1> QED
  BY <1>1, NextType DEF OInv

\* Nobody gets a follow-up before the step it follows, whatever is edited,
\* retried, requeued or lost (worker.go:239-246, 331-358).
THEOREM InOrder == Spec => []StepsInOrder
<1>1. OInv => StepsInOrder
  BY DEF OInv, OrderInv, StepsInOrder
<1> QED
  BY <1>1, InitOrder, NextOrder, PTL DEF Spec

-----------------------------------------------------------------------------
(* How much a stopped campaign still sends *)

\* Who has claimed since the campaign stopped is past the point of its tick
\* where it could claim again, and a new tick begins only in a running campaign.
OverrunInv ==
    /\ status = "running" => \A w \in Workers : overrun[w] = 0
    /\ \A w \in Workers :
          /\ overrun[w] <= 1
          /\ overrun[w] > 0 => pc[w] \notin {"finalize", "breaker", "drain", "pick"}

LEMMA NextOverrun ==
  ASSUME TypeOK, OverrunInv, [Next]_vars
  PROVE  OverrunInv'
<1>1. ASSUME NEW w \in Workers, Tick(w)
      PROVE  OverrunInv'
  <2>1. /\ overrun' = overrun
        /\ status' = "running" => status = "running"
        /\ \A v \in Workers : v # w => pc'[v] = pc[v]
    BY <1>1 DEF Tick, TickBegin, FinalizeStoppedFollowups, TripBreaker, CountRemaining,
       Complete, SkipSend, campaignVars, historyVars, TypeOK
  <2>2. overrun[w] > 0 => pc'[w] \notin {"finalize", "breaker", "drain", "pick"}
    BY <1>1 DEF OverrunInv, Tick, TickBegin, FinalizeStoppedFollowups, TripBreaker,
       CountRemaining, Complete, SkipSend, TypeOK
  <2> QED
    BY <2>1, <2>2 DEF OverrunInv
<1>2. ASSUME NEW w \in Workers, NEW c \in Recipients, Claim(w, c)
      PROVE  OverrunInv'
  <2>1. /\ status' = status
        /\ pc[w] = "pick" /\ pc' = [pc EXCEPT ![w] = "check"]
        /\ overrun' = IF status = "running" THEN overrun
                      ELSE [overrun EXCEPT ![w] = Bump(overrun[w])]
    BY <1>2 DEF Claim, campaignVars
  <2>2. overrun[w] = 0
    BY <2>1 DEF OverrunInv, TypeOK
  <2> QED
    BY <2>1, <2>2 DEF OverrunInv, TypeOK, Bump
<1>3. ASSUME NEW w \in Workers, SendOne(w) \/ Trouble(w),
             ~ \E c \in Recipients : Claim(w, c)
      PROVE  OverrunInv'
  <2>1. status' = status /\ overrun' = overrun
    BY <1>3 DEF SendOne, Recheck, SkipNoMX, EndSequence, Compose, SmtpAccept, SmtpReject,
       MarkSent, SendFailed, Trouble, CustomerLookupFailed, RequeueTransient,
       SmtpAcceptAndError, QueryFails, LoseWrite, Crash, campaignVars, historyVars
  <2>2. \A v \in Workers :
          \/ pc'[v] = pc[v]
          \/ pc'[v] \notin {"finalize", "breaker", "drain", "pick"}
          \/ pc[v] \in {"finalize", "breaker"}
    <3>1. CASE SendOne(w)
      BY <1>3, <3>1 DEF SendOne, Recheck, SkipNoMX, EndSequence, Compose, SmtpAccept,
         SmtpReject, MarkSent, SendFailed, EndWith, TypeOK
    <3>2. CASE QueryFails(w)
      BY <3>2 DEF QueryFails, AfterFailure, TypeOK
    <3>3. CASE Trouble(w) /\ ~QueryFails(w)
      BY <3>3 DEF Trouble, CustomerLookupFailed, RequeueTransient, SmtpAcceptAndError,
         LoseWrite, Crash, EndWith, TypeOK
    <3> QED
      BY <1>3, <3>1, <3>2, <3>3
  <2> QED
    BY <2>1, <2>2 DEF OverrunInv
<1>4. CASE Environment
  <2>1. CASE \E op \in Handlers : HandlerWrites(op)
    BY <2>1 DEF HandlerWrites, OverrunInv
  <2>2. CASE ~ \E op \in Handlers : HandlerWrites(op)
    BY <1>4, <2>2 DEF Environment, Outside, ClaimAges, FollowupDue, Stop, Suppress,
       RemoveSuppression, LockExpires, RequeueFailedRecipients, Handler, HandlerReads,
       HandlerReturns, EditDeletesSteps, EditCreatesStep, campaignVars, historyVars,
       OverrunInv
  <2> QED
    BY <2>1, <2>2
<1>5. CASE UNCHANGED vars
  BY <1>5 DEF vars, OverrunInv
<1> QED
  BY <1>1, <1>2, <1>3, <1>4, <1>5 DEF Next, Environment

\* After a campaign stopped running, for whatever reason, each pod takes at most
\* one more recipient from it (tick and sendOne, worker.go).
THEOREM FewOverruns == Spec => []OverrunBound
<1>1. Init => OverrunInv
  BY DEF Init, OverrunInv
<1>2. OverrunInv => OverrunBound
  BY DEF OverrunInv, OverrunBound
<1> QED
  BY <1>1, <1>2, NextOverrun, TypeCorrect, PTL DEF Spec

-----------------------------------------------------------------------------
(* What a completed campaign leaves behind *)

Closed(r) == rec[r].status \in {"sent", "failed", "skipped"}

\* Rows that neither the operator nor a hasty janitor interfered with.
Undisturbed == Recipients \ (resent \cup overtaken)

\* Such a row is let go by its worker before it is closed; and once a worker has
\* found nothing left to send there is nothing left.
DrainInv ==
    \A r \in Undisturbed :
        /\ Closed(r) => \A w \in Workers : ~Holds(w, r)
        /\ status = "completed" \/ (\E w \in Workers : pc[w] = "complete") => Closed(r)

LEMMA DisturbedGrows ==
  ASSUME TypeOK, [Next]_vars
  PROVE  Undisturbed' \subseteq Undisturbed
<1>1. resent \subseteq resent' /\ overtaken \subseteq overtaken'
  <2>1. ASSUME NEW w \in Workers, Tick(w) \/ SendOne(w) \/ Trouble(w)
        PROVE  resent \subseteq resent' /\ overtaken \subseteq overtaken'
    BY <2>1 DEF Tick, TickBegin, FinalizeStoppedFollowups, TripBreaker, CountRemaining,
       Complete, SkipSend, SendOne, Claim, Recheck, SkipNoMX, EndSequence, Compose,
       SmtpAccept, SmtpReject, MarkSent, SendFailed, Trouble, CustomerLookupFailed,
       RequeueTransient, SmtpAcceptAndError, QueryFails, LoseWrite, Crash, historyVars
  <2>2. CASE Environment
    BY <2>2 DEF Environment, Outside, ClaimAges, FollowupDue, Stop, Suppress,
       RemoveSuppression, LockExpires, RequeueFailedRecipients, Handler, HandlerReads,
       HandlerWrites, HandlerReturns, EditDeletesSteps, EditCreatesStep, historyVars
  <2>3. CASE UNCHANGED vars
    BY <2>3 DEF vars
  <2> QED
    BY <2>1, <2>2, <2>3 DEF Next, Environment
<1> QED
  BY <1>1 DEF Undisturbed

\* An undisturbed row that is closed stays closed, and nobody holds it.
LEMMA ClosedAndFree ==
  ASSUME IInv, DrainInv, [Next]_vars, NEW r \in Undisturbed'
  PROVE  /\ Closed(r) => Closed(r)'
         /\ Closed(r)' => \A w \in Workers : ~Holds(w, r)'
<1>0. /\ TypeOK /\ r \in Recipients /\ rec[r] \in Row
      /\ RowInv(r) /\ HeldIsOut(r)
      /\ Closed(r) => \A w \in Workers : ~Holds(w, r)
  BY DisturbedGrows DEF IInv, TypeOK, Undisturbed, RowInv, DrainInv
<1>1. ASSUME NEW w \in Workers, Tick(w)
      PROVE  /\ Closed(r) => Closed(r)'
             /\ Closed(r)' => \A v \in Workers : ~Holds(v, r)'
  <2>1. \A v \in Workers : Holds(v, r)' => Holds(v, r)
    BY <1>0, <1>1 DEF Tick, TickBegin, FinalizeStoppedFollowups, TripBreaker,
       CountRemaining, Complete, SkipSend, Holds, Holding, TypeOK
  <2>2. CASE TickBegin(w)
    <3>1. rec'[r] = JanitorRow(rec[r])
      BY <1>0, <2>2 DEF TickBegin
    <3>2. r \in Stale => \A v \in Workers : ~Holds(v, r)
      BY <1>0, <2>2 DEF TickBegin, Undisturbed
    <3>3. r \notin Stale => rec'[r] = rec[r]
      BY <1>0, <3>1 DEF JanitorRow, Stale
    <3> QED
      BY <1>0, <2>1, <3>1, <3>2, <3>3, RowKeeps DEF Closed
  <2>3. CASE FinalizeStoppedFollowups(w)
    <3>1. rec'[r] = FinalizedRow(rec[r])
      BY <1>0, <2>3 DEF FinalizeStoppedFollowups
    <3>2. rec[r].status = "queued" => \A v \in Workers : ~Holds(v, r)
      BY <1>0 DEF HeldIsOut
    <3> QED
      BY <1>0, <2>1, <3>1, <3>2, RowKeeps DEF Closed
  <2>4. CASE TripBreaker(w) \/ CountRemaining(w) \/ Complete(w) \/ SkipSend(w)
    BY <1>0, <2>1, <2>4 DEF TripBreaker, CountRemaining, Complete, SkipSend, Closed
  <2> QED
    BY <1>1, <2>2, <2>3, <2>4 DEF Tick
<1>2. ASSUME NEW w \in Workers, NEW c \in Recipients, Claim(w, c)
      PROVE  /\ Closed(r) => Closed(r)'
             /\ Closed(r)' => \A v \in Workers : ~Holds(v, r)'
  <2>1. CASE c = r
    BY <1>0, <1>2, <2>1 DEF Claim, Claimable, Closed, TypeOK, Row
  <2>2. CASE c # r
    BY <1>0, <1>2, <2>2 DEF Claim, Closed, TypeOK, Holds, Holding
  <2> QED
    BY <2>1, <2>2
<1>3. ASSUME NEW w \in Workers, NEW row, pc[w] \in Holding, EndWith(w, row)
      PROVE  /\ Closed(r) => Closed(r)'
             /\ Closed(r)' => \A v \in Workers : ~Holds(v, r)'
  <2>1. CASE job[w].row = r
    BY <1>0, <1>3, <2>1, EndWithOwn DEF Holds
  <2>2. CASE job[w].row # r
    BY <1>0, <1>3, <2>2 DEF EndWith, Closed, TypeOK, Holds, Holding
  <2> QED
    BY <2>1, <2>2
<1>4. ASSUME NEW w \in Workers, SendOne(w) \/ Trouble(w), UNCHANGED rec,
             ~ \E c \in Recipients : Claim(w, c)
      PROVE  /\ Closed(r) => Closed(r)'
             /\ Closed(r)' => \A v \in Workers : ~Holds(v, r)'
  <2>1. CASE \E row : EndWith(w, row) /\ pc[w] \in Holding
    BY <1>3, <2>1
  <2>2. CASE SendOne(w) /\ ~ \E row : EndWith(w, row) /\ pc[w] \in Holding
    <3>1. \A v \in Workers : Holds(v, r)' => Holds(v, r)
      <4>1. Recheck(w) \/ Compose(w) \/ SmtpAccept(w) \/ SmtpReject(w)
        BY <1>4, <2>2 DEF SendOne, SkipNoMX, EndSequence, MarkSent, SendFailed, Holding
      <4>2. CASE Recheck(w)
        BY <1>0, <2>2, <4>2 DEF Recheck, Holds, Holding, TypeOK
      <4>3. CASE Compose(w)
        BY <1>0, <4>3 DEF Compose, Holds, Holding, TypeOK, Job
      <4>4. CASE SmtpAccept(w) \/ SmtpReject(w)
        BY <1>0, <4>4 DEF SmtpAccept, SmtpReject, Holds, Holding, TypeOK
      <4> QED
        BY <4>1, <4>2, <4>3, <4>4
    <3> QED
      BY <1>0, <1>4, <3>1 DEF Closed
  <2>3. CASE Trouble(w) /\ ~ \E row : EndWith(w, row) /\ pc[w] \in Holding
    <3>1. \A v \in Workers : Holds(v, r)' => Holds(v, r)
      <4>1. SmtpAcceptAndError(w) \/ LoseWrite(w) \/ Crash(w) \/ QueryFails(w)
        BY <2>3 DEF Trouble, CustomerLookupFailed, RequeueTransient, Holding
      <4>2. CASE QueryFails(w)
        BY <1>0, <4>2 DEF QueryFails, AfterFailure, Holds, Holding, TypeOK
      <4>3. CASE LoseWrite(w) \/ Crash(w)
        BY <1>0, <4>3 DEF LoseWrite, Crash, Holds, Holding, TypeOK
      <4>4. CASE SmtpAcceptAndError(w)
        BY <1>0, <4>4 DEF SmtpAcceptAndError, Holds, Holding, TypeOK
      <4> QED
        BY <4>1, <4>2, <4>3, <4>4
    <3> QED
      BY <1>0, <1>4, <3>1 DEF Closed
  <2> QED
    BY <1>4, <2>1, <2>2, <2>3
<1>5. CASE Environment
  <2>1. UNCHANGED <<pc, job>>
    BY <1>5 DEF Environment, Outside, ClaimAges, FollowupDue, Stop, Suppress,
       RemoveSuppression, LockExpires, RequeueFailedRecipients, Handler, HandlerReads,
       HandlerWrites, HandlerReturns, EditDeletesSteps, EditCreatesStep
  <2>2. rec'[r].status = rec[r].status
    <3>1. ASSUME NEW c \in Recipients, ClaimAges(c) \/ FollowupDue(c)
          PROVE  rec'[r].status = rec[r].status
      <4>1. rec[c] \in Row
        BY <1>0 DEF TypeOK
      <4>2. CASE ClaimAges(c)
        BY <1>0, <4>1, <4>2 DEF ClaimAges, TypeOK, Row
      <4>3. CASE FollowupDue(c)
        BY <1>0, <4>1, <4>3 DEF FollowupDue, TypeOK, Row
      <4> QED
        BY <3>1, <4>2, <4>3
    <3>2. CASE \E c \in Recipients : \E k \in {"left", "bounced"} : Stop(c, k)
      BY <1>0, <3>2 DEF Stop, TypeOK, Row
    <3>3. CASE RequeueFailedRecipients
      BY <1>0, <3>3 DEF RequeueFailedRecipients, Undisturbed
    <3>4. CASE \/ LockExpires \/ Handler
               \/ \E c \in Recipients :
                     RemoveSuppression(c) \/ \E k \in {"manual", "kept"} : Suppress(c, k)
      BY <3>4 DEF LockExpires, Handler, HandlerReads, HandlerWrites, HandlerReturns,
         EditDeletesSteps, EditCreatesStep, RemoveSuppression, Suppress
    <3> QED
      BY <1>5, <3>1, <3>2, <3>3, <3>4 DEF Environment, Outside
  <2> QED
    BY <1>0, <2>1, <2>2 DEF Closed, Holds
<1>6. CASE UNCHANGED vars
  BY <1>0, <1>6 DEF vars, Closed, Holds
<1> QED
  BY <1>1, <1>2, <1>3, <1>4, <1>5, <1>6, WorkerRows DEF Next, Environment

\* Only CountRemaining sets out to complete a campaign, and only Complete does.
LEMMA WhoCompletes ==
  ASSUME TypeOK, [Next]_vars,
         status' = "completed" \/ \E w \in Workers : pc'[w] = "complete"
  PROVE  \/ status = "completed" \/ \E w \in Workers : pc[w] = "complete"
         \/ Remaining = {} /\ UNCHANGED rec
<1>1. ASSUME NEW w \in Workers, Tick(w)
      PROVE  \/ status = "completed" \/ \E v \in Workers : pc[v] = "complete"
             \/ Remaining = {} /\ UNCHANGED rec
  <2>1. CASE CountRemaining(w)
    BY <2>1 DEF CountRemaining, campaignVars, TypeOK
  <2>2. CASE \/ TickBegin(w) \/ FinalizeStoppedFollowups(w) \/ TripBreaker(w)
             \/ Complete(w) \/ SkipSend(w)
    BY <2>2 DEF TickBegin, FinalizeStoppedFollowups, TripBreaker, Complete, SkipSend,
       campaignVars, TypeOK
  <2> QED
    BY <1>1, <2>1, <2>2 DEF Tick
<1>2. ASSUME NEW w \in Workers, SendOne(w) \/ Trouble(w)
      PROVE  status = "completed" \/ \E v \in Workers : pc[v] = "complete"
  <2>1. status' = status
    BY <1>2 DEF SendOne, Claim, Recheck, SkipNoMX, EndSequence, Compose, SmtpAccept,
       SmtpReject, MarkSent, SendFailed, Trouble, CustomerLookupFailed,
       RequeueTransient, SmtpAcceptAndError, QueryFails, LoseWrite, Crash, campaignVars
  <2>2. \A v \in Workers : pc'[v] = "complete" => pc[v] = "complete"
    <3>1. CASE SendOne(w)
      BY <3>1 DEF SendOne, Claim, Recheck, SkipNoMX, EndSequence, Compose, SmtpAccept,
         SmtpReject, MarkSent, SendFailed, EndWith, TypeOK
    <3>2. CASE QueryFails(w)
      BY <3>2 DEF QueryFails, AfterFailure, TypeOK
    <3>3. CASE Trouble(w) /\ ~QueryFails(w)
      BY <3>3 DEF Trouble, CustomerLookupFailed, RequeueTransient, SmtpAcceptAndError,
         LoseWrite, Crash, EndWith, TypeOK
    <3> QED
      BY <1>2, <3>1, <3>2, <3>3
  <2> QED
    BY <2>1, <2>2
<1>3. CASE Environment
  <2>1. UNCHANGED pc /\ (status' = "completed" => status = "completed")
    BY <1>3 DEF Environment, Outside, ClaimAges, FollowupDue, Stop, Suppress,
       RemoveSuppression, LockExpires, RequeueFailedRecipients, Handler, HandlerReads,
       HandlerWrites, StatusWritten, HandlerReturns, EditDeletesSteps, EditCreatesStep,
       campaignVars
  <2> QED
    BY <2>1
<1>4. CASE UNCHANGED vars
  BY <1>4 DEF vars
<1> QED
  BY <1>1, <1>2, <1>3, <1>4 DEF Next, Environment

LEMMA NextDrain == IInv /\ DrainInv /\ [Next]_vars => DrainInv'
<1> SUFFICES ASSUME IInv, DrainInv, [Next]_vars, NEW r \in Undisturbed'
             PROVE  /\ Closed(r)' => \A w \in Workers : ~Holds(w, r)'
                    /\ (status' = "completed" \/ \E w \in Workers : pc'[w] = "complete")
                         => Closed(r)'
  BY DEF DrainInv
<1>1. r \in Undisturbed /\ r \in Recipients /\ rec[r] \in Row /\ TypeOK
  BY DisturbedGrows DEF IInv, TypeOK, Undisturbed
<1>2. ASSUME Remaining = {}
      PROVE  Closed(r)
  BY <1>1, <1>2 DEF Remaining, Closed, Row, RowStatus
<1> QED
  BY <1>1, <1>2, ClosedAndFree, WhoCompletes DEF DrainInv

\* A completed campaign has sent, skipped or given up every row, except those the
\* operator requeued and those the janitor failed under a live worker
\* (completeIfDrained, worker.go:193).
THEOREM CompletedMeansDrained == Spec => []CompletedIsDrained
<1>1. Init => DrainInv
  BY DEF Init, DrainInv, Undisturbed, Closed, NewRow
<1>2. DrainInv => CompletedIsDrained
  BY DEF DrainInv, CompletedIsDrained, Undisturbed, Closed
<1> QED
  BY <1>1, <1>2, NextDrain, Invariance, PTL DEF Spec

-----------------------------------------------------------------------------
(* CampaignSend implements DripPromise. *)

PhaseOf == [r \in Recipients |-> Phase(r)]
MailsOf == [r \in Recipients |-> Cardinality({s \in Steps : got[r][s] > 0})]
Barred  == {r \in Recipients : Blocked(r)}

\* The phase of a row that somebody holds, and of one that nobody holds.
LEMMA PhaseHeld ==
  ASSUME NEW r \in Recipients, HeldAlone(r), NEW w \in Workers, Holds(w, r)
  PROVE  Phase(r) = IF pc[w] = "mark" THEN "out" ELSE "taken"
  BY DEF HeldAlone, Phase

LEMMA PhaseFree ==
  ASSUME NEW r \in Recipients, \A w \in Workers : ~Holds(w, r)
  PROVE  Phase(r) = IF rec[r].status = "queued" THEN "open" ELSE "closed"
  BY DEF Phase

\* What a step must leave alone for the phase of r to stay as it is.
LEMMA SamePhase ==
  ASSUME NEW r \in Recipients,
         \A w \in Workers : /\ Holds(w, r)' <=> Holds(w, r)
                            /\ Holds(w, r) => (pc'[w] = "mark" <=> pc[w] = "mark"),
         \/ \E w \in Workers : Holds(w, r)
         \/ rec'[r].status = "queued" <=> rec[r].status = "queued"
  PROVE  Phase(r)' = Phase(r)
  BY DEF Phase

LEMMA NoPhaseMoves ==
  ASSUME got' = got, \A r \in Recipients : Phase(r)' = Phase(r)
  PROVE  Promise!Next
<1>1. PhaseOf' = PhaseOf /\ MailsOf' = MailsOf
  BY DEF PhaseOf, MailsOf
<1>2. Barred' \in SUBSET Recipients
  BY DEF Barred
<1>3. Promise!SetBarred(Barred')
  BY <1>1 DEF Promise!SetBarred, PhaseOf, MailsOf, Barred
<1> QED
  BY <1>2, <1>3 DEF Promise!Next

LEMMA OnePhaseMoves ==
  ASSUME NEW c \in Recipients,
         \A r \in Recipients : r # c => Phase(r)' = Phase(r),
         got' = got, \A r \in Recipients : Blocked(r)' = Blocked(r),
         \/ Phase(c) = "open" /\ Phase(c)' = "taken" /\ ~Blocked(c)
         \/ Phase(c) = "taken" /\ Phase(c)' = "open"
         \/ Phase(c) = "out" /\ Phase(c)' = "open"
         \/ Phase(c) # "closed" /\ Phase(c)' = "closed"
  PROVE  Promise!Next
<1>1. MailsOf' = MailsOf /\ Barred' = Barred
  BY DEF MailsOf, Barred
<1>2. PhaseOf' = [PhaseOf EXCEPT ![c] = Phase(c)']
  BY DEF PhaseOf
<1>3. CASE Phase(c) = "open" /\ Phase(c)' = "taken" /\ ~Blocked(c)
  <2>1. Promise!Take(c)
    BY <1>1, <1>2, <1>3 DEF Promise!Take, PhaseOf, MailsOf, Barred
  <2> QED
    BY <2>1 DEF Promise!Next
<1>4. CASE Phase(c) = "taken" /\ Phase(c)' = "open"
  <2>1. Promise!GiveBack(c)
    BY <1>1, <1>2, <1>4 DEF Promise!GiveBack, PhaseOf, MailsOf, Barred
  <2> QED
    BY <2>1 DEF Promise!Next
<1>5. CASE Phase(c) = "out" /\ Phase(c)' = "open"
  <2>1. Promise!GoOn(c)
    BY <1>1, <1>2, <1>5 DEF Promise!GoOn, PhaseOf, MailsOf, Barred
  <2> QED
    BY <2>1 DEF Promise!Next
<1>6. CASE Phase(c) # "closed" /\ Phase(c)' = "closed"
  <2>1. Promise!Close({c})
    BY <1>1, <1>2, <1>6 DEF Promise!Close, PhaseOf, MailsOf, Barred
  <2> QED
    BY <2>1 DEF Promise!Next
<1> QED
  BY <1>3, <1>4, <1>5, <1>6

\* Neither a lie nor a requeue has happened.
HonestInv == IInv /\ lied = {} /\ resent = {}

LEMMA HonestRows ==
  ASSUME HonestInv
  PROVE  /\ TypeOK
         /\ \A r \in Recipients : RowInv(r) /\ HeldAlone(r) /\ HeldIsOut(r) /\ HeldIsUnsent(r)
  BY DEF HonestInv, IInv, RowInv

LEMMA TickPromise ==
  ASSUME HonestInv, NEW w \in Workers, Tick(w)
  PROVE  Promise!Next
<1>0. TypeOK /\ \A r \in Recipients : HeldIsOut(r)
  BY HonestRows
<1>1. /\ got' = got
      /\ \A r \in Recipients : \A v \in Workers :
            /\ Holds(v, r)' <=> Holds(v, r)
            /\ Holds(v, r) => (pc'[v] = "mark" <=> pc[v] = "mark")
  BY <1>0 DEF Tick, TickBegin, FinalizeStoppedFollowups, TripBreaker, CountRemaining,
     Complete, SkipSend, Holds, Holding, TypeOK, historyVars
<1>2. CASE TickBegin(w)
  <2>1. ASSUME NEW r \in Recipients
        PROVE  Phase(r)' = Phase(r)
    <3>1. rec'[r] = JanitorRow(rec[r]) /\ rec[r] \in Row
      BY <1>0, <1>2 DEF TickBegin, TypeOK
    <3>2. rec'[r].status = "queued" <=> rec[r].status = "queued"
      BY <3>1 DEF JanitorRow, MarkFailed, Row
    <3> QED
      BY <1>1, <3>2, SamePhase
  <2> QED
    BY <1>1, <2>1, NoPhaseMoves
<1>3. CASE TripBreaker(w) \/ CountRemaining(w) \/ Complete(w) \/ SkipSend(w)
  <2>1. rec' = rec
    BY <1>3 DEF TripBreaker, CountRemaining, Complete, SkipSend
  <2> QED
    BY <1>1, <2>1, SamePhase, NoPhaseMoves
<1>4. CASE FinalizeStoppedFollowups(w)
  <2> DEFINE R == {r \in Recipients : FinalizedRow(rec[r]) # rec[r]}
  <2>1. ASSUME NEW r \in Recipients
        PROVE  /\ rec'[r] = FinalizedRow(rec[r])
               /\ r \in R => rec[r].status = "queued" /\ rec'[r].status = "sent"
               /\ rec'[r].stop = rec[r].stop
    <3>1. rec'[r] = FinalizedRow(rec[r]) /\ rec[r] \in Row
      BY <1>0, <1>4 DEF FinalizeStoppedFollowups, TypeOK
    <3>2. r \in R => rec[r].status = "queued" /\ FinalizedRow(rec[r]).status = "sent"
      BY <3>1 DEF FinalizedRow, Row
    <3>3. FinalizedRow(rec[r]).stop = rec[r].stop
      BY <3>1, RowKeeps
    <3> QED
      BY <3>1, <3>2, <3>3
  <2>2. ASSUME NEW r \in R
        PROVE  Phase(r) = "open" /\ Phase(r)' = "closed"
    <3>1. \A v \in Workers : ~Holds(v, r) /\ ~Holds(v, r)'
      BY <1>0, <1>1, <2>1 DEF HeldIsOut
    <3> QED
      BY <2>1, <3>1, PhaseFree DEF Phase
  <2>3. ASSUME NEW r \in Recipients \ R
        PROVE  Phase(r)' = Phase(r)
    BY <1>1, <2>1, SamePhase
  <2>4. CASE R = {}
    BY <1>1, <2>3, <2>4, NoPhaseMoves
  <2>5. CASE R # {}
    <3>1. PhaseOf' = [r \in Recipients |-> IF r \in R THEN "closed" ELSE PhaseOf[r]]
      BY <2>2, <2>3 DEF PhaseOf
    <3>2. \A r \in Recipients : Blocked(r)' = Blocked(r)
      BY <1>4, <2>1 DEF Blocked, FinalizeStoppedFollowups
    <3>3. MailsOf' = MailsOf /\ Barred' = Barred
      BY <1>1, <3>2 DEF MailsOf, Barred
    <3>4. \A r \in R : PhaseOf[r] # "closed"
      BY <2>2 DEF PhaseOf
    <3>5. Promise!Close(R)
      BY <2>5, <3>1, <3>3, <3>4 DEF Promise!Close, PhaseOf, MailsOf, Barred
    <3> QED
      BY <3>5 DEF Promise!Next
  <2> QED
    BY <2>4, <2>5
<1> QED
  BY <1>2, <1>3, <1>4 DEF Tick

LEMMA ClaimPromise ==
  ASSUME HonestInv, NEW w \in Workers, NEW c \in Recipients, Claim(w, c)
  PROVE  Promise!Next
<1>0. TypeOK /\ \A r \in Recipients : HeldIsOut(r)
  BY HonestRows
<1>1. /\ rec[c] \in Row /\ rec[c].status = "queued" /\ ~Blocked(c)
      /\ \A v \in Workers : ~Holds(v, c)
  BY <1>0 DEF Claim, Claimable, TypeOK, HeldIsOut
<1>2. /\ rec'[c].status = "sending" /\ rec'[c].stop = rec[c].stop
      /\ \A r \in Recipients : r # c => rec'[r] = rec[r]
  BY <1>0, <1>1 DEF Claim, TypeOK, Row
<1>3. Holds(w, c)' /\ pc'[w] = "check" /\ \A v \in Workers : Holds(v, c)' => v = w
  BY <1>0, <1>1 DEF Claim, Holds, Holding, TypeOK
<1>4. Phase(c) = "open" /\ Phase(c)' = "taken"
  <2>1. Phase(c) = "open"
    BY <1>1, PhaseFree
  <2>2. Phase(c)' = "taken"
    BY <1>3 DEF Phase
  <2> QED
    BY <2>1, <2>2
<1>5. ASSUME NEW r \in Recipients, r # c
      PROVE  Phase(r)' = Phase(r)
  <2>1. \A v \in Workers : /\ Holds(v, r)' <=> Holds(v, r)
                           /\ Holds(v, r) => (pc'[v] = "mark" <=> pc[v] = "mark")
    BY <1>0, <1>5 DEF Claim, Holds, Holding, TypeOK
  <2> QED
    BY <1>2, <1>5, <2>1, SamePhase
<1>6. got' = got /\ \A r \in Recipients : Blocked(r)' = Blocked(r)
  BY <1>2 DEF Claim, Blocked
<1> QED
  BY <1>1, <1>4, <1>5, <1>6, OnePhaseMoves

\* A worker lets its row go: it is open again or closed.
LEMMA LetGoPromise ==
  ASSUME HonestInv, NEW w \in Workers, pc[w] \in Holding,
         NEW c \in Recipients, job[w].row = c,
         job' = [job EXCEPT ![w] = NoJob], pc' = [pc EXCEPT ![w] = "idle"],
         \A r \in Recipients : r # c => rec'[r] = rec[r],
         rec'[c].stop = rec[c].stop,
         UNCHANGED <<got, suppressed>>
  PROVE  Promise!Next
<1>0. TypeOK /\ \A r \in Recipients : HeldAlone(r)
  BY HonestRows
<1>1. Holds(w, c)
  BY DEF Holds
<1>2. \A v \in Workers : ~Holds(v, c)'
  BY <1>0, <1>1 DEF HeldAlone, Holds, Holding, TypeOK
<1>3. Phase(c) \in {"taken", "out"} /\ Phase(c)' \in {"open", "closed"}
  <2>1. Phase(c) \in {"taken", "out"}
    BY <1>0, <1>1, PhaseHeld
  <2>2. Phase(c)' \in {"open", "closed"}
    BY <1>2 DEF Phase
  <2> QED
    BY <2>1, <2>2
<1>4. ASSUME NEW r \in Recipients, r # c
      PROVE  Phase(r)' = Phase(r)
  <2>1. \A v \in Workers : /\ Holds(v, r)' <=> Holds(v, r)
                           /\ Holds(v, r) => (pc'[v] = "mark" <=> pc[v] = "mark")
    BY <1>0, <1>4 DEF Holds, Holding, TypeOK
  <2> QED
    BY <1>4, <2>1, SamePhase
<1>5. \A r \in Recipients : Blocked(r)' = Blocked(r)
  BY DEF Blocked
<1> QED
  BY <1>3, <1>4, <1>5, OnePhaseMoves

LEMMA EndWithPromise ==
  ASSUME HonestInv, NEW w \in Workers, pc[w] \in Holding, NEW row, EndWith(w, row),
         row.stop = rec[job[w].row].stop, UNCHANGED <<got, suppressed>>
  PROVE  Promise!Next
<1>1. PICK c \in Recipients : job[w].row = c
  BY HonestRows, HolderType
<1>2. rec'[c] = row /\ \A r \in Recipients : r # c => rec'[r] = rec[r]
  BY <1>1, HonestRows DEF EndWith, TypeOK
<1> QED
  BY <1>1, <1>2, LetGoPromise DEF EndWith

LEMMA EndWithStatement ==
  ASSUME HonestInv, NEW w \in Workers, pc[w] \in Holding, UNCHANGED <<got, suppressed>>,
         \/ EndWith(w, MarkSkipped(rec[job[w].row]))
         \/ EndWith(w, MarkFailed(rec[job[w].row]))
         \/ EndWith(w, Requeue(rec[job[w].row]))
         \/ \E s \in Steps, m \in BOOLEAN :
               EndWith(w, MarkStepSent(rec[job[w].row], s, m))
  PROVE  Promise!Next
<1>1. rec[job[w].row] \in Row
  BY HonestRows, HolderType
<1>2. \A s \in Steps, m \in BOOLEAN :
        MarkStepSent(rec[job[w].row], s, m).stop = rec[job[w].row].stop
  BY <1>1, StepSentRow
<1> QED
  BY <1>1, <1>2, RowKeeps, EndWithPromise

\* The mail of w leaves: the step is a new one, so one more mail has left.
LEMMA DeliveredPromise ==
  ASSUME HonestInv, NEW w \in Workers, SmtpAccept(w)
  PROVE  Promise!Next
<1>0. TypeOK /\ \A r \in Recipients : HeldAlone(r) /\ HeldIsUnsent(r)
  BY HonestRows
<1>1. PICK c \in Recipients : job[w].row = c
  BY <1>0, HolderType DEF SmtpAccept, Holding
<1>2. PICK s \in Steps : job[w].step = s
  BY <1>0 DEF SmtpAccept, TypeOK
<1>3. Holds(w, c) /\ pc[w] = "smtp"
  BY <1>1 DEF SmtpAccept, Holds, Holding
<1>4. Holds(w, c)' /\ pc'[w] = "mark"
  BY <1>0, <1>1, <1>3 DEF SmtpAccept, Holds, Holding, TypeOK
<1>5. Phase(c) = "taken" /\ Phase(c)' = "out"
  <2>1. Phase(c) = "taken"
    BY <1>0, <1>3, PhaseHeld
  <2>2. Phase(c)' = "out"
    BY <1>4 DEF Phase
  <2> QED
    BY <2>1, <2>2
<1>6. ASSUME NEW r \in Recipients, r # c
      PROVE  Phase(r)' = Phase(r)
  <2>1. \A v \in Workers : /\ Holds(v, r)' <=> Holds(v, r)
                           /\ Holds(v, r) => (pc'[v] = "mark" <=> pc[v] = "mark")
    BY <1>0, <1>1, <1>6 DEF SmtpAccept, Holds, Holding, TypeOK
  <2> QED
    BY <2>1, SamePhase DEF SmtpAccept
<1> DEFINE Sent(r) == {t \in Steps : got[r][t] > 0}
<1>7. Sent(c)' = Sent(c) \cup {s} /\ s \notin Sent(c)
  <2>1. got[c][s] = 0
    BY <1>0, <1>2, <1>3 DEF HeldIsUnsent
  <2>2. \A t \in Steps : got'[c][t] = IF t = s THEN 1 ELSE got[c][t]
    BY <1>0, <1>1, <1>2, <2>1 DEF SmtpAccept, Delivered, TypeOK, Bump
  <2> QED
    BY <2>1, <2>2
<1>8. \A r \in Recipients : r # c => got'[r] = got[r]
  BY <1>0, <1>1 DEF SmtpAccept, Delivered, TypeOK
<1>9. /\ Cardinality(Sent(c)') = Cardinality(Sent(c)) + 1
      /\ Cardinality(Sent(c)) < MaxStep
  <2>1. IsFiniteSet(Steps) /\ Cardinality(Steps) = MaxStep
    BY SendConstants, FS_Interval DEF SendConstants, Steps
  <2>2. Sent(c) \in SUBSET Steps /\ Sent(c)' \in SUBSET Steps
    OBVIOUS
  <2>3. IsFiniteSet(Sent(c))
    BY <2>1, <2>2, FS_Subset
  <2> HIDE DEF Sent
  <2>4. Cardinality(Sent(c)') = Cardinality(Sent(c)) + 1
    BY <1>7, <2>3, FS_AddElement
  <2>5. Cardinality(Sent(c)') <= MaxStep
    BY <2>1, <2>2, FS_Subset
  <2>6. Cardinality(Sent(c)) \in Nat
    BY <2>3, FS_CardinalityType
  <2> QED
    BY <2>4, <2>5, <2>6, SendConstants DEF SendConstants
<1>10. Promise!Send(c)
  <2>1. PhaseOf[c] = "taken" /\ PhaseOf' = [PhaseOf EXCEPT ![c] = "out"]
    BY <1>5, <1>6 DEF PhaseOf
  <2>2. MailsOf[c] < MaxStep /\ MailsOf' = [MailsOf EXCEPT ![c] = MailsOf[c] + 1]
    BY <1>8, <1>9 DEF MailsOf
  <2>3. Barred' = Barred
    BY DEF SmtpAccept, Barred, Blocked
  <2> QED
    BY <2>1, <2>2, <2>3 DEF Promise!Send, PhaseOf, MailsOf, Barred
<1> QED
  BY <1>10 DEF Promise!Next

LEMMA SendOnePromise ==
  ASSUME HonestInv, NEW w \in Workers, SendOne(w)
  PROVE  Promise!Next
<1>0. TypeOK
  BY HonestRows
<1>1. CASE \E c \in Recipients : Claim(w, c)
  BY <1>1, ClaimPromise
<1>2. CASE \/ SkipNoMX(w) \/ SendFailed(w)
           \/ Recheck(w) /\ EndWith(w, MarkSkipped(rec[job[w].row]))
  BY <1>2, EndWithStatement DEF SkipNoMX, SendFailed, Recheck, Holding, historyVars
<1>3. CASE EndSequence(w)
  <2>1. job[w].step - 1 \in Steps
    BY <1>0, <1>3, SendConstants DEF SendConstants, EndSequence, TypeOK, Holding, Job, Steps
  <2> QED
    BY <1>3, <2>1, EndWithStatement DEF EndSequence, Holding, historyVars
<1>4. CASE MarkSent(w)
  <2>1. job[w].step \in Steps /\ job[w].more \in BOOLEAN
    BY <1>0, <1>4 DEF MarkSent, TypeOK, Job
  <2> QED
    BY <1>4, <2>1, EndWithStatement DEF MarkSent, Holding, historyVars
<1>5. CASE SmtpAccept(w)
  BY <1>5, DeliveredPromise
<1>6. CASE \/ Compose(w) \/ SmtpReject(w)
           \/ Recheck(w) /\ ~EndWith(w, MarkSkipped(rec[job[w].row]))
  <2>1. rec' = rec /\ got' = got
    BY <1>6 DEF Compose, SmtpReject, Recheck, historyVars
  <2>2. \A r \in Recipients : \A v \in Workers :
          /\ Holds(v, r)' <=> Holds(v, r)
          /\ Holds(v, r) => (pc'[v] = "mark" <=> pc[v] = "mark")
    <3>1. CASE Compose(w)
      BY <1>0, <3>1 DEF Compose, Holds, Holding, TypeOK, Job
    <3>2. CASE SmtpReject(w)
      BY <1>0, <3>2 DEF SmtpReject, Holds, Holding, TypeOK
    <3>3. CASE Recheck(w) /\ ~EndWith(w, MarkSkipped(rec[job[w].row]))
      BY <1>0, <3>3 DEF Recheck, Holds, Holding, TypeOK
    <3> QED
      BY <1>6, <3>1, <3>2, <3>3
  <2> QED
    BY <2>1, <2>2, SamePhase, NoPhaseMoves
<1> QED
  BY <1>1, <1>2, <1>3, <1>4, <1>5, <1>6 DEF SendOne

LEMMA TroublePromise ==
  ASSUME HonestInv, "lie" \notin Operations, NEW w \in Workers, Trouble(w)
  PROVE  Promise!Next
<1>0. TypeOK
  BY HonestRows
<1>1. CASE CustomerLookupFailed(w) \/ RequeueTransient(w)
  BY <1>1, EndWithStatement DEF CustomerLookupFailed, RequeueTransient, Holding, historyVars
<1>2. CASE (LoseWrite(w) \/ Crash(w)) /\ pc[w] \in Holding
  <2>1. PICK c \in Recipients : job[w].row = c
    BY <1>0, <1>2, HolderType
  <2> QED
    BY <1>2, <2>1, LetGoPromise DEF LoseWrite, Crash, historyVars
<1>3. CASE QueryFails(w) \/ ((LoseWrite(w) \/ Crash(w)) /\ pc[w] \notin Holding)
  <2>1. rec' = rec /\ got' = got
    BY <1>3 DEF QueryFails, LoseWrite, Crash, historyVars
  <2>2. \A r \in Recipients : \A v \in Workers :
          /\ Holds(v, r)' <=> Holds(v, r)
          /\ Holds(v, r) => (pc'[v] = "mark" <=> pc[v] = "mark")
    <3>1. CASE QueryFails(w)
      BY <1>0, <3>1 DEF QueryFails, AfterFailure, Holds, Holding, TypeOK
    <3>2. CASE Crash(w) /\ pc[w] \notin Holding
      BY <1>0, <3>2 DEF Crash, Holds, Holding, TypeOK
    <3> QED
      BY <1>3, <3>1, <3>2 DEF LoseWrite
  <2> QED
    BY <2>1, <2>2, SamePhase, NoPhaseMoves
<1> QED
  BY <1>1, <1>2, <1>3 DEF Trouble, SmtpAcceptAndError

LEMMA EnvironmentPromise ==
  ASSUME HonestInv, "requeue" \notin Operations, Environment
  PROVE  Promise!Next
<1>0. TypeOK
  BY HonestRows
<1>1. UNCHANGED <<pc, job, got>>
  BY DEF Environment, Outside, ClaimAges, FollowupDue, Stop, Suppress, RemoveSuppression,
     LockExpires, RequeueFailedRecipients, Handler, HandlerReads, HandlerWrites,
     HandlerReturns, EditDeletesSteps, EditCreatesStep, historyVars
<1>2. ASSUME NEW r \in Recipients
      PROVE  rec'[r].status = rec[r].status
  <2>1. ASSUME NEW c \in Recipients, ClaimAges(c) \/ FollowupDue(c)
        PROVE  rec'[r].status = rec[r].status
    <3>1. rec[c] \in Row
      BY <1>0 DEF TypeOK
    <3>2. CASE ClaimAges(c)
      BY <1>0, <3>1, <3>2 DEF ClaimAges, TypeOK, Row
    <3>3. CASE FollowupDue(c)
      BY <1>0, <3>1, <3>3 DEF FollowupDue, TypeOK, Row
    <3> QED
      BY <2>1, <3>2, <3>3
  <2>2. CASE \E c \in Recipients : \E k \in {"left", "bounced"} : Stop(c, k)
    BY <1>0, <2>2 DEF Stop, TypeOK, Row
  <2>3. CASE \/ LockExpires \/ Handler
             \/ \E c \in Recipients :
                   RemoveSuppression(c) \/ \E k \in {"manual", "kept"} : Suppress(c, k)
    BY <2>3 DEF LockExpires, Handler, HandlerReads, HandlerWrites, HandlerReturns,
       EditDeletesSteps, EditCreatesStep, RemoveSuppression, Suppress
  <2> QED
    BY <2>1, <2>2, <2>3 DEF Environment, Outside, RequeueFailedRecipients
<1> QED
  BY <1>1, <1>2, SamePhase, NoPhaseMoves DEF Holds

LEMMA InitPromise == Init => Promise!Init
<1> SUFFICES ASSUME Init
             PROVE  Promise!Init
  OBVIOUS
<1>1. \A r \in Recipients : Phase(r) = "open" /\ ~Blocked(r)
  BY DEF Init, Phase, Holds, Holding, NewRow, Blocked
<1>2. \A r \in Recipients : Cardinality({s \in Steps : got[r][s] > 0}) = 0
  <2>1. \A r \in Recipients : {s \in Steps : got[r][s] > 0} = {}
    BY DEF Init
  <2> QED
    BY <2>1, FS_EmptySet
<1> QED
  BY <1>1, <1>2 DEF Promise!Init

\* Without the operator's requeue button and without an SMTP server whose
\* answers get lost, the worker keeps the promise of a drip campaign for any
\* number of pods, recipients, steps and faults: one mail at a time, each at most
\* once, none begun for somebody barred, and closed means closed.
THEOREM PromiseKept ==
  ASSUME "lie" \notin Operations, "requeue" \notin Operations
  PROVE  Spec => KeepsPromise
<1>1. Init => HonestInv
  BY InitInv DEF Init, HonestInv
<1>2. ASSUME HonestInv, [Next]_vars
      PROVE  lied' = {} /\ resent' = {}
  BY <1>2 DEF HonestInv, Next, Tick, SendOne, Trouble, Outside, Handler, TickBegin,
     FinalizeStoppedFollowups, TripBreaker, CountRemaining, Complete, SkipSend, Claim,
     Recheck, SkipNoMX, EndSequence, Compose, SmtpAccept, SmtpReject, MarkSent,
     SendFailed, CustomerLookupFailed, RequeueTransient, SmtpAcceptAndError,
     QueryFails, LoseWrite, Crash, ClaimAges, FollowupDue, Stop, Suppress,
     RemoveSuppression, LockExpires, RequeueFailedRecipients, HandlerReads,
     HandlerWrites, HandlerReturns, EditDeletesSteps, EditCreatesStep, vars, historyVars
<1>3. HonestInv /\ [Next]_vars => HonestInv'
  BY <1>2, NextInv DEF HonestInv
<1>4. HonestInv /\ [Next]_vars => [Promise!Next]_(Promise!pvars)
  <2> SUFFICES ASSUME HonestInv, [Next]_vars
               PROVE  [Promise!Next]_(Promise!pvars)
    OBVIOUS
  <2>1. CASE Next
    BY <2>1, TickPromise, SendOnePromise, TroublePromise, EnvironmentPromise
       DEF Next, Environment
  <2>2. CASE UNCHANGED vars
    BY <2>2, SamePhase, NoPhaseMoves DEF vars, Holds
  <2> QED
    BY <2>1, <2>2
<1> QED
  BY <1>1, <1>3, <1>4, InitPromise, PTL DEF Spec, KeepsPromise, Promise!Spec
=============================================================================

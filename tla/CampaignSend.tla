---------------------------- MODULE CampaignSend ----------------------------
(***************************************************************************)
(* The campaign send worker (internal/campaign/worker.go, lock.go), the    *)
(* statements it runs against CampaignRecipient (db/query/campaign.sql),   *)
(* and what reaches the same rows from outside while a tick is under way:  *)
(* the lifecycle and edit handlers of internal/service/campaign, the       *)
(* suppression list, replies, bounces and unsubscriptions, and the         *)
(* operator's "requeue failed" button.                                     *)
(*                                                                         *)
(* One campaign and its recipients. Every pod runs one worker goroutine;   *)
(* between two of its database calls the other pods, the handlers and the  *)
(* crash of the pod itself may come in, so one action is one statement (or *)
(* one statement and the reads whose result nobody else can change before  *)
(* it). Mail that the SMTP server accepted is recorded in history          *)
(* variables the program does not have.                                    *)
(***************************************************************************)
EXTENDS Naturals, FiniteSets

CONSTANTS
    Workers,        \* the pods that run the send worker
    Recipients,     \* the rows of CampaignRecipient of the campaign
    MaxStep,        \* bound: the highest step number a sequence may have
    MaxAttempts,    \* maxAttempts of worker.go
    MinSamples,     \* minSamplesForBreaker of worker.go
    PauseThreshold, \* bounce_pause_threshold in percent, 0 = breaker off
    MaxFaults,      \* bound: infrastructure faults and operator requeues
    Operations,     \* which outside operations the instance includes, and "lie":
                    \* SMTP may report an error for a mail it took
    Free, Dead,     \* lock values: no key in Redis, key of a pod that is gone
    NoRow           \* job.row of a worker that holds no recipient

ASSUME SendConstants ==
    /\ MaxStep \in Nat \ {0}
    /\ MaxAttempts \in Nat \ {0}
    /\ MinSamples \in Nat
    /\ PauseThreshold \in Nat
    /\ MaxFaults \in Nat
    /\ IsFiniteSet(Recipients)
    /\ NoRow \notin Recipients
    /\ Free \notin Workers
    /\ Dead \notin Workers
    /\ Free # Dead

VARIABLES
    status,      \* Campaign.status
    lastStep,    \* 1 + number of CampaignStep rows (steps are 2..lastStep)
    pending,     \* handlers that passed their status check and have not written
    rec,         \* the CampaignRecipient rows
    suppressed,  \* the Suppression row of each recipient's address
    lock,        \* the Redis key phox:campaign:sender:lock
    pc,          \* where each worker is in its tick
    job,         \* the recipient a worker claimed and what it read of it
    faults,      \* faults so far, at most MaxFaults
    got,         \* history: mails of step s accepted for r (2 = two or more)
    late,        \* history: mails accepted for r after r was blocked
    overrun,     \* history: claims by w since the campaign left 'running'
    resent,      \* history: rows the operator requeued
    lied,        \* history: rows SMTP reported an error for after accepting
    overtaken    \* history: rows the janitor failed under a live worker

campaignVars == <<status, lastStep, pending>>
historyVars  == <<got, late, overrun, resent, lied, overtaken>>
vars == <<status, lastStep, pending, rec, suppressed, lock, pc, job, faults,
          got, late, overrun, resent, lied, overtaken>>

-----------------------------------------------------------------------------
(* Types and initial state *)

CampaignStatus == {"draft", "running", "paused", "completed", "cancelled"}
RowStatus      == {"queued", "sending", "sent", "failed", "skipped"}
Stops          == {"none", "left", "bounced"}
Handlers       == {"start", "pause", "cancel", "edit", "editing"}
Steps          == 1..MaxStep

\* "left" is replied_at or unsubscribed_at, "bounced" is bounced_at; due is
\* next_step_at IS NULL OR next_step_at <= now(); stale is locked_at older
\* than staleClaimAfter.
Row == [status : RowStatus, step : Steps, sentAt : BOOLEAN, due : BOOLEAN,
        attempts : 0..MaxAttempts, stop : Stops, stale : BOOLEAN]

NewRow == [status |-> "queued", step |-> 1, sentAt |-> FALSE, due |-> TRUE,
           attempts |-> 0, stop |-> "none", stale |-> FALSE]

Job == [row : Recipients \cup {NoRow}, step : 1..(MaxStep + 1),
        more : BOOLEAN, attempts : 0..MaxAttempts]

NoJob == [row |-> NoRow, step |-> 1, more |-> FALSE, attempts |-> 0]

PcValues == {"idle", "finalize", "breaker", "drain", "complete", "pick",
             "check", "prepare", "smtp", "mark", "fail"}

\* The worker holds a recipient it claimed.
Holding == {"check", "prepare", "smtp", "mark", "fail"}
Holds(w, r) == pc[w] \in Holding /\ job[w].row = r

Init ==
    /\ status = "draft"
    /\ lastStep \in Steps
    /\ pending = {}
    /\ rec = [r \in Recipients |-> NewRow]
    /\ suppressed = [r \in Recipients |-> "no"]
    /\ lock = Free
    /\ pc = [w \in Workers |-> "idle"]
    /\ job = [w \in Workers |-> NoJob]
    /\ faults = 0
    /\ got = [r \in Recipients |-> [s \in Steps |-> 0]]
    /\ late = [r \in Recipients |-> 0]
    /\ overrun = [w \in Workers |-> 0]
    /\ resent = {}
    /\ lied = {}
    /\ overtaken = {}

-----------------------------------------------------------------------------
(* The SQL statements, as functions of one row *)

\* A counter of histories: 0, 1, 2 = two or more.
Bump(n) == IF n < 2 THEN n + 1 ELSE 2

\* attempts only matters up to MaxAttempts, so it saturates there.
Tried(n) == IF n < MaxAttempts THEN n + 1 ELSE n

Blocked(r) == rec[r].stop # "none" \/ suppressed[r] # "no"

\* Faulty: current_step is taken for the last step sent, also before the first.
StepAfterCurrent(row) == row.step + 1

StepToSend(row) == IF row.sentAt THEN row.step + 1 ELSE 1

\* Faulty: the claim forgets the suppression list.
ClaimableUnsuppressed(r) ==
    rec[r].status = "queued" /\ rec[r].due /\ rec[r].stop = "none"

\* Faulty: a stale 'sending' row may be claimed again.
ClaimableStale(r) ==
    /\ rec[r].status = "queued" \/ (rec[r].status = "sending" /\ rec[r].stale)
    /\ rec[r].due
    /\ ~Blocked(r)

Claimable(r) ==
    /\ rec[r].status = "queued"
    /\ rec[r].due
    /\ ~Blocked(r)

MarkSkipped(row)   == [row EXCEPT !.status = "skipped", !.stale = FALSE]
MarkFailed(row)    == [row EXCEPT !.status = "failed", !.stale = FALSE]
Requeue(row)       == [row EXCEPT !.status = "queued", !.stale = FALSE,
                                  !.attempts = Tried(row.attempts)]
RequeueByHand(row) == [row EXCEPT !.status = "queued", !.stale = FALSE,
                                  !.attempts = 0]

\* Faulty: current_step is set to the step that comes next.
MarkStepSentAhead(row, step, more) ==
    [row EXCEPT !.status = IF more THEN "queued" ELSE "sent",
                !.sentAt = TRUE, !.step = step + 1, !.due = ~more, !.stale = FALSE]

MarkStepSent(row, step, more) ==
    [row EXCEPT !.status = IF more THEN "queued" ELSE "sent",
                !.sentAt = TRUE, !.step = step, !.due = ~more, !.stale = FALSE]

FinalizedRow(row) ==
    IF row.status = "queued" /\ row.sentAt /\ row.stop # "none"
    THEN [row EXCEPT !.status = "sent", !.due = TRUE, !.stale = FALSE]
    ELSE row

-----------------------------------------------------------------------------
(* The worker: Run, tick and sendOne *)

Fault == faults < MaxFaults /\ faults' = faults + 1

\* tryAcquireOrRenew: SET NX, else extend the TTL of one's own key. A pod that
\* restarted has a new value, so it does not recognise its old key (Dead).
AcquireOrRenew(w) == lock \in {Free, w} /\ lock' = w

\* Faulty: the janitor puts a stale row back in the queue.
JanitorRowRequeues(row) ==
    IF row.status = "sending" /\ row.stale THEN Requeue(row) ELSE row

JanitorRow(row) ==
    IF row.status = "sending" /\ row.stale THEN MarkFailed(row) ELSE row

Stale == {r \in Recipients : rec[r].status = "sending" /\ rec[r].stale}

\* Leadership, FailStaleSendingRecipients and ListRunningCampaigns. The list
\* reads no recipient and the janitor no campaign, so they are one step.
TickBegin(w) ==
    /\ pc[w] = "idle"
    /\ AcquireOrRenew(w)
    /\ rec' = [r \in Recipients |-> JanitorRow(rec[r])]
    /\ overtaken' = overtaken \cup {r \in Stale : \E v \in Workers : Holds(v, r)}
    /\ pc' = [pc EXCEPT ![w] = IF status = "running" THEN "finalize" ELSE "idle"]
    /\ UNCHANGED <<campaignVars, suppressed, job, faults, got, late, overrun,
                   resent, lied>>

FinalizeStoppedFollowups(w) ==
    /\ pc[w] = "finalize"
    /\ rec' = [r \in Recipients |-> FinalizedRow(rec[r])]
    /\ pc' = [pc EXCEPT ![w] = "breaker"]
    /\ UNCHANGED <<campaignVars, suppressed, lock, job, faults, historyVars>>

SentCount    == Cardinality({r \in Recipients : rec[r].sentAt})
BouncedCount == Cardinality({r \in Recipients : rec[r].stop = "bounced"})

Unhealthy ==
    /\ PauseThreshold > 0
    /\ SentCount >= MinSamples
    /\ BouncedCount * 100 > PauseThreshold * SentCount

\* PauseCampaignForHealth writes only WHERE status = 'running'.
TripBreaker(w) ==
    /\ pc[w] = "breaker"
    /\ IF Unhealthy
       THEN /\ status' = IF status = "running" THEN "paused" ELSE status
            /\ pc' = [pc EXCEPT ![w] = "idle"]
       ELSE /\ status' = status
            /\ pc' = [pc EXCEPT ![w] = "drain"]
    /\ UNCHANGED <<lastStep, pending, rec, suppressed, lock, job, faults,
                   historyVars>>

\* Faulty: rows in flight are not counted as remaining.
RemainingQueuedOnly == {r \in Recipients : rec[r].status = "queued"}

\* CountQueuedRecipients
Remaining == {r \in Recipients : rec[r].status \in {"queued", "sending"}}

CountRemaining(w) ==
    /\ pc[w] = "drain"
    /\ pc' = [pc EXCEPT ![w] = IF Remaining = {} THEN "complete" ELSE "pick"]
    /\ UNCHANGED <<campaignVars, rec, suppressed, lock, job, faults, historyVars>>

\* SetCampaignStatus writes whatever the status has become since the list.
Complete(w) ==
    /\ pc[w] = "complete"
    /\ status' = "completed"
    /\ pc' = [pc EXCEPT ![w] = "idle"]
    /\ UNCHANGED <<lastStep, pending, rec, suppressed, lock, job, faults,
                   historyVars>>

\* Outside the send window, no mailbox with budget, nothing to claim, or a
\* failed query: the tick is over for this campaign.
SkipSend(w) ==
    /\ pc[w] = "pick"
    /\ pc' = [pc EXCEPT ![w] = "idle"]
    /\ UNCHANGED <<campaignVars, rec, suppressed, lock, job, faults, historyVars>>

\* ClaimCampaignRecipient. ORDER BY chooses among the claimable rows, and SKIP
\* LOCKED may pass over any of them, so the choice is left open.
Claim(w, r) ==
    /\ pc[w] = "pick"
    /\ Claimable(r)
    /\ rec' = [rec EXCEPT ![r].status = "sending", ![r].stale = FALSE]
    /\ job' = [job EXCEPT ![w] = [row |-> r, step |-> StepToSend(rec[r]),
                                  more |-> FALSE, attempts |-> rec[r].attempts]]
    /\ pc' = [pc EXCEPT ![w] = "check"]
    /\ overrun' = IF status = "running" THEN overrun
                  ELSE [overrun EXCEPT ![w] = Bump(@)]
    /\ UNCHANGED <<campaignVars, suppressed, lock, faults, got, late, resent,
                   lied, overtaken>>

\* The tick ends for worker w, whose row becomes row.
EndWith(w, row) ==
    /\ rec' = [rec EXCEPT ![job[w].row] = row]
    /\ job' = [job EXCEPT ![w] = NoJob]
    /\ pc' = [pc EXCEPT ![w] = "idle"]

\* GetSuppressionByEmail right before sending; an error of the query lets the
\* mail through.
Recheck(w) ==
    /\ pc[w] = "check"
    /\ \/ /\ suppressed[job[w].row] # "no"
          /\ EndWith(w, MarkSkipped(rec[job[w].row]))
          /\ UNCHANGED faults
       \/ /\ IF suppressed[job[w].row] # "no" THEN Fault ELSE UNCHANGED faults
          /\ pc' = [pc EXCEPT ![w] = "prepare"]
          /\ UNCHANGED <<rec, job>>
    /\ UNCHANGED <<campaignVars, suppressed, lock, historyVars>>

\* mxChecker finds no MX record for the domain.
SkipNoMX(w) ==
    /\ pc[w] = "prepare"
    /\ EndWith(w, MarkSkipped(rec[job[w].row]))
    /\ UNCHANGED <<campaignVars, suppressed, lock, faults, historyVars>>

\* GetCustomer fails.
CustomerLookupFailed(w) ==
    /\ pc[w] = "prepare"
    /\ Fault
    /\ EndWith(w, MarkFailed(rec[job[w].row]))
    /\ UNCHANGED <<campaignVars, suppressed, lock, historyVars>>

\* The mailbox password cannot be decrypted, or ListCampaignSteps fails: the
\* row is requeued whatever its number of attempts.
RequeueTransient(w) ==
    /\ pc[w] = "prepare"
    /\ Fault
    /\ EndWith(w, Requeue(rec[job[w].row]))
    /\ UNCHANGED <<campaignVars, suppressed, lock, historyVars>>

\* The follow-up was deleted since the row was queued for it: the sequence is
\* closed by MarkRecipientStepSent with the old step number.
EndSequence(w) ==
    /\ pc[w] = "prepare"
    /\ job[w].step > lastStep
    /\ job[w].step > 1
    /\ EndWith(w, MarkStepSent(rec[job[w].row], job[w].step - 1, FALSE))
    /\ UNCHANGED <<campaignVars, suppressed, lock, faults, historyVars>>

\* ListCampaignSteps decides what is sent and whether a step follows.
Compose(w) ==
    /\ pc[w] = "prepare"
    /\ job[w].step <= lastStep
    /\ job' = [job EXCEPT ![w] = [job[w] EXCEPT !.more = (job[w].step < lastStep)]]
    /\ pc' = [pc EXCEPT ![w] = "smtp"]
    /\ UNCHANGED <<campaignVars, rec, suppressed, lock, faults, historyVars>>

\* The SMTP server took the mail of worker w.
Delivered(w) ==
    LET r == job[w].row
        s == job[w].step
    IN  /\ got' = [got EXCEPT ![r] = [got[r] EXCEPT ![s] = Bump(got[r][s])]]
        /\ late' = IF Blocked(r) THEN [late EXCEPT ![r] = Bump(@)] ELSE late

SmtpAccept(w) ==
    /\ pc[w] = "smtp"
    /\ Delivered(w)
    /\ pc' = [pc EXCEPT ![w] = "mark"]
    /\ UNCHANGED <<campaignVars, rec, suppressed, lock, job, faults, overrun,
                   resent, lied, overtaken>>

SmtpReject(w) ==
    /\ pc[w] = "smtp"
    /\ pc' = [pc EXCEPT ![w] = "fail"]
    /\ UNCHANGED <<campaignVars, rec, suppressed, lock, job, faults, historyVars>>

\* The server took the mail, but the client saw an error (connection lost
\* after DATA, timeout on the reply).
SmtpAcceptAndError(w) ==
    /\ pc[w] = "smtp"
    /\ "lie" \in Operations
    /\ Fault
    /\ Delivered(w)
    /\ lied' = lied \cup {job[w].row}
    /\ pc' = [pc EXCEPT ![w] = "fail"]
    /\ UNCHANGED <<campaignVars, rec, suppressed, lock, job, overrun, resent,
                   overtaken>>

\* Faulty: the worker goes on to the next recipient in the same tick.
MarkSentAndGoOn(w) ==
    /\ pc[w] = "mark"
    /\ rec' = [rec EXCEPT ![job[w].row] = MarkStepSent(@, job[w].step, job[w].more)]
    /\ job' = [job EXCEPT ![w] = NoJob]
    /\ pc' = [pc EXCEPT ![w] = "pick"]
    /\ UNCHANGED <<campaignVars, suppressed, lock, faults, historyVars>>

MarkSent(w) ==
    /\ pc[w] = "mark"
    /\ EndWith(w, MarkStepSent(rec[job[w].row], job[w].step, job[w].more))
    /\ UNCHANGED <<campaignVars, suppressed, lock, faults, historyVars>>

\* Faulty: the retries are not counted.
SendFailedForever(w) ==
    /\ pc[w] = "fail"
    /\ EndWith(w, [Requeue(rec[job[w].row]) EXCEPT !.attempts = 0])
    /\ UNCHANGED <<campaignVars, suppressed, lock, faults, historyVars>>

\* The attempt number is the one read at the claim.
SendFailed(w) ==
    /\ pc[w] = "fail"
    /\ EndWith(w, IF job[w].attempts + 1 >= MaxAttempts
                  THEN MarkFailed(rec[job[w].row])
                  ELSE Requeue(rec[job[w].row]))
    /\ UNCHANGED <<campaignVars, suppressed, lock, faults, historyVars>>

\* What a tick does when the statement it is at fails: without the list of
\* campaigns or the count it is over, the other two are passed over.
AfterFailure(at) ==
    CASE at = "finalize" -> {"breaker", "idle"}
      [] at = "breaker"  -> {"drain"}
      [] at \in {"drain", "complete"} -> {"idle"}

\* A failure of the janitor is the same as a claim that ages later.
QueryFails(w) ==
    /\ pc[w] \in {"finalize", "breaker", "drain", "complete"}
    /\ Fault
    /\ \E at \in AfterFailure(pc[w]) : pc' = [pc EXCEPT ![w] = at]
    /\ UNCHANGED <<campaignVars, rec, suppressed, lock, job, historyVars>>

\* The statement that should record the outcome fails: the row stays 'sending'.
LoseWrite(w) ==
    /\ pc[w] \in Holding
    /\ Fault
    /\ pc' = [pc EXCEPT ![w] = "idle"]
    /\ job' = [job EXCEPT ![w] = NoJob]
    /\ UNCHANGED <<campaignVars, rec, suppressed, lock, historyVars>>

\* The pod dies or is replaced. A graceful shutdown deletes the key, a crash
\* leaves it to its TTL.
Crash(w) ==
    /\ pc[w] # "idle" \/ lock = w
    /\ Fault
    /\ pc' = [pc EXCEPT ![w] = "idle"]
    /\ job' = [job EXCEPT ![w] = NoJob]
    /\ lock' \in IF lock = w THEN {Free, Dead} ELSE {lock}
    /\ UNCHANGED <<campaignVars, rec, suppressed, historyVars>>

\* The TTL runs out. For a live leader that takes a tick longer than the TTL
\* or the loss of the key in Redis, and then two pods tick at once.
LockExpires ==
    /\ lock # Free
    /\ IF lock = Dead THEN UNCHANGED faults ELSE Fault
    /\ lock' = Free
    /\ UNCHANGED <<campaignVars, rec, suppressed, pc, job, historyVars>>

\* staleClaimAfter goes by; under a live worker that is a fault.
ClaimAges(r) ==
    /\ rec[r].status = "sending"
    /\ ~rec[r].stale
    /\ IF \E w \in Workers : Holds(w, r) THEN Fault ELSE UNCHANGED faults
    /\ rec' = [rec EXCEPT ![r].stale = TRUE]
    /\ UNCHANGED <<campaignVars, suppressed, lock, pc, job, historyVars>>

\* wait_days go by.
FollowupDue(r) ==
    /\ rec[r].status = "queued"
    /\ ~rec[r].due
    /\ rec' = [rec EXCEPT ![r].due = TRUE]
    /\ UNCHANGED <<campaignVars, suppressed, lock, pc, job, faults, historyVars>>

-----------------------------------------------------------------------------
(* What reaches the rows from outside *)

\* MarkRecipientReplied, -Unsubscribed and -Bounced: only somebody who got a
\* mail can answer it.
Stop(r, kind) ==
    /\ "stop" \in Operations
    /\ \E s \in Steps : got[r][s] > 0
    /\ kind \in {"left", "bounced"}
    /\ rec[r].stop \notin {kind, "bounced"}
    /\ rec' = [rec EXCEPT ![r].stop = kind]
    /\ UNCHANGED <<campaignVars, suppressed, lock, pc, job, faults, historyVars>>

\* CreateSuppression ON CONFLICT DO NOTHING: by hand, or "kept" (an
\* unsubscription or a hard bounce, here or in another campaign).
Suppress(r, reason) ==
    /\ "suppress" \in Operations
    /\ reason \in {"manual", "kept"}
    /\ suppressed[r] = "no"
    /\ suppressed' = [suppressed EXCEPT ![r] = reason]
    /\ UNCHANGED <<campaignVars, rec, lock, pc, job, faults, historyVars>>

\* RemoveSuppression takes back only reason = 'manual'.
RemoveSuppression(r) ==
    /\ suppressed[r] = "manual"
    /\ suppressed' = [suppressed EXCEPT ![r] = "no"]
    /\ late' = IF rec[r].stop = "none" THEN [late EXCEPT ![r] = 0] ELSE late
    /\ UNCHANGED <<campaignVars, rec, lock, pc, job, faults, got, overrun, resent,
                   lied, overtaken>>

FailedRows == {r \in Recipients : rec[r].status = "failed"}

\* The operator's button, in any status of the campaign.
RequeueFailedRecipients ==
    /\ "requeue" \in Operations
    /\ FailedRows # {}
    /\ Fault
    /\ rec' = [r \in Recipients |->
                  IF r \in FailedRows THEN RequeueByHand(rec[r]) ELSE rec[r]]
    /\ resent' = resent \cup FailedRows
    /\ UNCHANGED <<campaignVars, suppressed, lock, pc, job, got, late, overrun,
                   lied, overtaken>>

\* getCampaignScoped and the status check of a handler, before it writes.
StatusAllows(op) ==
    CASE op = "start"  -> status \in {"draft", "paused"}
      [] op = "pause"  -> status = "running"
      [] op = "cancel" -> status \notin {"completed", "cancelled"}
      [] op = "edit"   -> status \in {"draft", "paused"}

HandlerReads(op) ==
    /\ op \in Operations \cap {"start", "pause", "cancel", "edit"}
    /\ op \notin pending
    /\ StatusAllows(op)
    /\ pending' = pending \cup {op}
    /\ UNCHANGED <<status, lastStep, rec, suppressed, lock, pc, job, faults,
                   historyVars>>

StatusWritten(op) ==
    CASE op = "start"  -> "running"
      [] op = "pause"  -> "paused"
      [] op = "cancel" -> "cancelled"

\* SetCampaignStatus WHERE id = $1, whatever the status is by now. overrun
\* counts from the moment the campaign is no longer running.
HandlerWrites(op) ==
    /\ op \in pending \cap {"start", "pause", "cancel"}
    /\ status' = StatusWritten(op)
    /\ pending' = pending \ {op}
    /\ overrun' = IF status' = "running" THEN [w \in Workers |-> 0] ELSE overrun
    /\ UNCHANGED <<lastStep, rec, suppressed, lock, pc, job, faults, got, late,
                   resent, lied, overtaken>>

\* UpdateCampaign replaces the follow-ups without a transaction: first
\* DeleteCampaignSteps, then one CreateCampaignStep for each.
EditDeletesSteps ==
    /\ "edit" \in pending
    /\ lastStep' = 1
    /\ pending' = (pending \ {"edit"}) \cup {"editing"}
    /\ UNCHANGED <<status, rec, suppressed, lock, pc, job, faults, historyVars>>

EditCreatesStep ==
    /\ "editing" \in pending
    /\ lastStep < MaxStep
    /\ lastStep' = lastStep + 1
    /\ UNCHANGED <<status, pending, rec, suppressed, lock, pc, job, faults,
                   historyVars>>

\* The handler returns, after its last write or on an error in between.
HandlerReturns(op) ==
    /\ op \in pending
    /\ pending' = pending \ {op}
    /\ UNCHANGED <<status, lastStep, rec, suppressed, lock, pc, job, faults,
                   historyVars>>

-----------------------------------------------------------------------------
SendOne(w) ==
    \/ \E r \in Recipients : Claim(w, r)
    \/ Recheck(w) \/ SkipNoMX(w) \/ EndSequence(w) \/ Compose(w)
    \/ SmtpAccept(w) \/ SmtpReject(w) \/ MarkSent(w) \/ SendFailed(w)

Tick(w) ==
    \/ TickBegin(w) \/ FinalizeStoppedFollowups(w) \/ TripBreaker(w)
    \/ CountRemaining(w) \/ Complete(w) \/ SkipSend(w)

Trouble(w) ==
    \/ CustomerLookupFailed(w) \/ RequeueTransient(w) \/ SmtpAcceptAndError(w)
    \/ QueryFails(w) \/ LoseWrite(w) \/ Crash(w)

Outside(r) ==
    \/ \E kind \in {"left", "bounced"} : Stop(r, kind)
    \/ \E reason \in {"manual", "kept"} : Suppress(r, reason)
    \/ RemoveSuppression(r)

Handler ==
    \/ \E op \in Handlers :
          HandlerReads(op) \/ HandlerWrites(op) \/ HandlerReturns(op)
    \/ EditDeletesSteps \/ EditCreatesStep

Next ==
    \/ \E w \in Workers : Tick(w) \/ SendOne(w) \/ Trouble(w)
    \/ \E r \in Recipients : ClaimAges(r) \/ FollowupDue(r) \/ Outside(r)
    \/ LockExpires
    \/ RequeueFailedRecipients
    \/ Handler

Spec == Init /\ [][Next]_vars

\* A ticker keeps every worker going; a key whose pod is gone expires; days go
\* by; and a worker that gets as far as picking a mailbox again and again finds
\* the window open and a mailbox with budget at some point.
Fairness ==
    /\ \A w \in Workers : WF_vars(Tick(w) \/ SendOne(w))
    /\ \A w \in Workers : SF_vars(\E r \in Recipients : Claim(w, r))
    /\ WF_vars(lock = Dead /\ LockExpires)
    /\ \A r \in Recipients : WF_vars(FollowupDue(r))
    /\ \A r \in Recipients : WF_vars(ClaimAges(r))

FairSpec == Spec /\ Fairness
-----------------------------------------------------------------------------
(* Properties *)

TypeOK ==
    /\ status \in CampaignStatus
    /\ lastStep \in Steps
    /\ pending \subseteq Handlers
    /\ rec \in [Recipients -> Row]
    /\ suppressed \in [Recipients -> {"no", "manual", "kept"}]
    /\ lock \in Workers \cup {Free, Dead}
    /\ pc \in [Workers -> PcValues]
    /\ job \in [Workers -> Job]
    /\ \A w \in Workers :
          /\ pc[w] \in Holding <=> job[w].row # NoRow
          /\ pc[w] \in {"smtp", "mark", "fail"} => job[w].step \in Steps
    /\ faults \in 0..MaxFaults
    /\ got \in [Recipients -> [Steps -> 0..2]]
    /\ late \in [Recipients -> 0..2]
    /\ overrun \in [Workers -> 0..2]
    /\ resent \subseteq Recipients
    /\ lied \subseteq Recipients
    /\ overtaken \subseteq Recipients

\* At most one worker works on a recipient, whatever becomes of the Redis lock,
\* as long as the operator did not requeue the row (worker.go:35-37).
SingleHolder ==
    \A r \in Recipients \ resent : \A v, w \in Workers :
        Holds(v, r) /\ Holds(w, r) => v = w

\* At-most-once: no recipient gets the same step twice, unless the operator
\* requeued the row or SMTP reported an error for a mail it had accepted.
AtMostOnce ==
    \A r \in Recipients \ (resent \cup lied) : \A s \in Steps : got[r][s] <= 1

\* A follow-up never goes out before the step it follows, over deletions and
\* additions of steps, retries, crashes and requeues.
StepsInOrder ==
    \A r \in Recipients : \A s \in Steps :
        s > 1 /\ got[r][s] > 0 => got[r][s - 1] > 0

\* After a reply, an unsubscription, a bounce or a suppression of the address,
\* at most the mail that was already being sent still goes out.
LateMailBound == \A r \in Recipients \ resent : late[r] <= 1

\* After the campaign was paused, cancelled or completed each worker claims at
\* most one more recipient: the tick that is under way sends one mail.
OverrunBound == \A w \in Workers : overrun[w] <= 1

\* A completed campaign has no row left to send, except rows the operator
\* requeued and rows the janitor failed while their worker was alive.
CompletedIsDrained ==
    status = "completed" =>
        \A r \in Recipients \ (resent \cup overtaken) :
            rec[r].status \in {"sent", "failed", "skipped"}

\* A row whose sequence is over is never taken up again without the operator.
ClosedRowsStayClosed ==
    [][\A r \in Recipients \ resent' :
          rec[r].status \in {"sent", "skipped"} => rec'[r].status = rec[r].status]_vars

\* DripPromise is kept, step by step: a recipient is open while its row is
\* queued, taken while a worker holds it, out once the mail is accepted, and
\* closed from then on unless the mail is recorded - also when the pod dies,
\* since the janitor fails the row and never requeues it. (Instances without
\* "lie" and "requeue", the two ways a mail may leave twice.)
Phase(r) ==
    IF \E w \in Workers : Holds(w, r)
    THEN IF \E w \in Workers : Holds(w, r) /\ pc[w] = "mark" THEN "out" ELSE "taken"
    ELSE IF rec[r].status = "queued" THEN "open" ELSE "closed"

Promise == INSTANCE DripPromise WITH
    phase  <- [r \in Recipients |-> Phase(r)],
    mails  <- [r \in Recipients |-> Cardinality({s \in Steps : got[r][s] > 0})],
    barred <- {r \in Recipients : Blocked(r)}

KeepsPromise == Promise!Spec

\* A row that can neither be claimed nor is finalised: it still waits for a mail
\* although its address is suppressed, or for its first mail after an answer.
Blocking ==
    \E r \in Recipients :
        /\ rec[r].status = "queued"
        /\ suppressed[r] # "no" \/ (rec[r].stop # "none" /\ ~rec[r].sentAt)

\* A campaign that keeps running is drained and completed, unless such a row is
\* in the way.
DrainsUnlessBlocked == []<>(status # "running" \/ Blocking)

\* Nothing is left that the worker could ever send: every row is closed or
\* belongs to an address that may not be written to.
NothingLeftToSend ==
    \A r \in Recipients :
        \/ rec[r].status \in {"sent", "failed", "skipped"}
        \/ rec[r].status = "queued" /\ suppressed[r] = "kept"

\* completeIfDrained "marks the campaign completed when nothing is left to
\* send" (worker.go:193).
CompletesWhenNothingLeft ==
    (status = "running" /\ NothingLeftToSend) ~> (status # "running")

\* CancelCampaign "終了状態、再開不可": a cancelled campaign stays cancelled
\* (lifecycle.go:85).
CancelledIsFinal == [][status = "cancelled" => status' = "cancelled"]_vars
=============================================================================

----------------------------- MODULE SendBudget -----------------------------
(***************************************************************************)
(* The sending budget of a mailbox: pickMailbox and effectiveCap of        *)
(* internal/campaign/worker.go, the count they read from CampaignRecipient *)
(* (CountSentSinceByMailbox), and the statements that write the mailbox    *)
(* and the sending time of a row or take it away.                          *)
(*                                                                         *)
(* Several campaigns may share a mailbox. A tick takes the campaigns one   *)
(* after the other with the time it began at. The clock runs in half days: *)
(* the cap counts from midnight in Japan, the warm-up in periods of 24     *)
(* hours from the start of the campaign, which may lie in the afternoon.   *)
(***************************************************************************)
EXTENDS Integers, FiniteSets, FiniteSetsExt

CONSTANTS
    Workers,     \* pods that tick; more than one when the Redis lock was lost
    Campaigns,
    Mailboxes,
    Rows,        \* recipients of all campaigns
    CampaignOf,  \* campaign of each row
    Pool,        \* CampaignMailbox: the mailboxes of each campaign
    Cap,         \* daily_cap_per_mailbox of each campaign
    Warm,        \* campaigns with warmup_enabled
    StartedAt,   \* half day at which each campaign was started
    WarmBase,    \* 20 in effectiveCap
    WarmStep,    \* 10 in effectiveCap
    LastStep,    \* 1 + number of follow-ups of each campaign
    WaitDays,    \* wait_days of the follow-ups
    MaxTime,     \* bound: last half day
    MaxFaults,   \* bound: faults, and requests of the operator
    None         \* mailbox_id NULL

ASSUME BudgetConstants ==
    /\ IsFiniteSet(Workers) /\ Workers # {}
    /\ IsFiniteSet(Campaigns)
    /\ IsFiniteSet(Rows) /\ Rows # {}
    /\ CampaignOf \in [Rows -> Campaigns]
    /\ Pool \in [Campaigns -> SUBSET Mailboxes]
    /\ Cap \in [Campaigns -> Nat \ {0}]
    /\ Warm \subseteq Campaigns
    /\ StartedAt \in [Campaigns -> Nat]
    /\ WarmBase \in Nat /\ WarmStep \in Nat
    /\ LastStep \in [Campaigns -> Nat \ {0}]
    /\ WaitDays \in Nat \ {0}
    /\ MaxTime \in Nat /\ MaxFaults \in Nat
    /\ None \notin Mailboxes

VARIABLES
    time,     \* half days
    rec,      \* the rows: step reached, mailbox_id, sent_at, next_step_at, status
    pc,       \* where each worker is
    tick,     \* time.Now() at the begin of the tick of each worker; 0 between ticks
    todo,     \* campaigns its tick has still to visit
    job,      \* row and mailbox it is sending with, day the mail went out
    faults,   \* faults and requests so far
    mailed,   \* history: mails accepted per mailbox and day
    missed    \* history: those of them no row records, or records no longer

vars == <<time, rec, pc, tick, todo, job, faults, mailed, missed>>

-----------------------------------------------------------------------------
Days    == 0 .. (MaxTime \div 2)
Never   == -1

\* Faulty: midnight of another time zone.
DayElsewhere(t) == (t + 1) \div 2

\* JSTMidnight
Day(t) == t \div 2

NoJob   == [row |-> CHOOSE r \in Rows : TRUE, mailbox |-> None, day |-> 0]

Gone    == [step |-> 0, mailbox |-> None, sent |-> Never, due |-> 0, status |-> "gone"]

Init ==
    /\ time = 0
    /\ rec = [r \in Rows |-> [step |-> 0, mailbox |-> None, sent |-> Never,
                              due |-> 0, status |-> "queued"]]
    /\ pc = [w \in Workers |-> "idle"]
    /\ tick = [w \in Workers |-> 0]
    /\ todo = [w \in Workers |-> {}]
    /\ job = [w \in Workers |-> NoJob]
    /\ faults = 0
    /\ mailed = [m \in Mailboxes |-> [d \in Days |-> 0]]
    /\ missed = [m \in Mailboxes |-> [d \in Days |-> 0]]

Fault == faults < MaxFaults /\ faults' = faults + 1

-----------------------------------------------------------------------------
(* The budget *)

\* Faulty: only rows whose sequence is over are counted.
SentSinceClosedOnly(m, d) ==
    Cardinality({r \in Rows : rec[r].mailbox = m /\ rec[r].sent >= d
                              /\ rec[r].status = "sent"})

\* CountSentSinceByMailbox, over all campaigns.
SentSince(m, d) ==
    Cardinality({r \in Rows : rec[r].mailbox = m /\ rec[r].sent >= d})

\* effectiveCap; hours since the start, divided by 24 and cut off.
EffectiveCap(c, t) ==
    LET ramp == WarmBase + WarmStep * ((t - StartedAt[c]) \div 2)
    IN  IF c \in Warm /\ ramp < Cap[c] THEN ramp ELSE Cap[c]

\* pickMailbox; which of these it takes is left open. A mailbox rests for minutes
\* after a mail (nextAllowed) and after an error (cooldownUntil): as long as it
\* does, the campaign is skipped.
Usable(w, c) ==
    {m \in Pool[c] : SentSince(m, Day(tick[w])) < EffectiveCap(c, tick[w])}

\* next_step_at <= now(), or NULL (0).
Due(r) == rec[r].due <= time

\* A row that was not taken away with its campaign or its customer.
Kept(r) == rec[r].status # "gone"

\* ListRunningCampaigns; a campaign without rows has nothing to send.
Running == {c \in Campaigns : StartedAt[c] <= time /\ \E r \in Rows : CampaignOf[r] = c /\ Kept(r)}

\* The rows of R that record a mail of today record it no longer.
Forget(R) ==
    missed' = [m \in Mailboxes |-> [missed[m] EXCEPT ![Day(time)] = @ + Cardinality(
                 {r \in R : /\ rec[r].mailbox = m /\ rec[r].sent = Day(time)
                            /\ rec[r].status # "sending"})]]

-----------------------------------------------------------------------------
(* The worker *)

TickBegin(w) ==
    /\ pc[w] = "idle"
    /\ pc' = [pc EXCEPT ![w] = "campaigns"]
    /\ tick' = [tick EXCEPT ![w] = time]
    /\ todo' = [todo EXCEPT ![w] = Running]
    /\ UNCHANGED <<time, rec, job, faults, mailed, missed>>

\* pickMailbox finds no mailbox, or the claim no row.
Skip(w, c) ==
    /\ pc[w] = "campaigns"
    /\ c \in todo[w]
    /\ todo' = [todo EXCEPT ![w] = @ \ {c}]
    /\ UNCHANGED <<time, rec, pc, tick, job, faults, mailed, missed>>

TickEnd(w) ==
    /\ pc[w] = "campaigns"
    /\ todo[w] = {}
    /\ pc' = [pc EXCEPT ![w] = "idle"]
    /\ tick' = [tick EXCEPT ![w] = 0]
    /\ UNCHANGED <<time, rec, todo, job, faults, mailed, missed>>

Pick(w, c, m) ==
    /\ pc[w] = "campaigns"
    /\ c \in todo[w] \cap Running
    /\ m \in Usable(w, c)
    /\ todo' = [todo EXCEPT ![w] = @ \ {c}]
    /\ \E r \in Rows :
          /\ CampaignOf[r] = c
          /\ job' = [job EXCEPT ![w] = [row |-> r, mailbox |-> m, day |-> 0]]
    /\ pc' = [pc EXCEPT ![w] = "claim"]
    /\ UNCHANGED <<time, rec, tick, faults, mailed, missed>>

\* ClaimCampaignRecipient writes mailbox_id; sent_at stays as it was, but will
\* be overwritten: a follow-up may be due on the day of the mail before it. When
\* the row is gone the worker goes on to the next campaign.
Claim(w) ==
    LET r == job[w].row
    IN  /\ pc[w] = "claim"
        /\ IF rec[r].status = "queued" /\ Due(r)
           THEN /\ rec' = [rec EXCEPT ![r].status = "sending",
                                      ![r].mailbox = job[w].mailbox]
                /\ Forget({r})
                /\ pc' = [pc EXCEPT ![w] = "smtp"]
                /\ UNCHANGED job
           ELSE /\ pc' = [pc EXCEPT ![w] = "campaigns"]
                /\ job' = [job EXCEPT ![w] = NoJob]
                /\ UNCHANGED <<rec, missed>>
        /\ UNCHANGED <<time, tick, todo, faults, mailed>>

Mailed(w) ==
    mailed' = [mailed EXCEPT ![job[w].mailbox][Day(time)] = @ + 1]

Accept(w) ==
    /\ pc[w] = "smtp"
    /\ Mailed(w)
    /\ job' = [job EXCEPT ![w].day = Day(time)]
    /\ pc' = [pc EXCEPT ![w] = "mark"]
    /\ UNCHANGED <<time, rec, tick, todo, faults, missed>>

\* The worker is done with its row, which a deletion may have taken away.
Done(w, row) ==
    /\ rec' = IF Kept(job[w].row) THEN [rec EXCEPT ![job[w].row] = row] ELSE rec
    /\ job' = [job EXCEPT ![w] = NoJob]
    /\ pc' = [pc EXCEPT ![w] = "campaigns"]

Miss(w, d) ==
    missed' = [missed EXCEPT ![job[w].mailbox][d] = @ + 1]

\* MarkRecipientStepSent: sent_at is the time of the statement, next_step_at
\* counts from the time the tick began at.
MarkStepSent(w, row) ==
    IF row.step + 1 < LastStep[CampaignOf[job[w].row]]
    THEN [row EXCEPT !.step = row.step + 1, !.sent = Day(time),
                     !.due = tick[w] + 2 * WaitDays, !.status = "queued"]
    ELSE [row EXCEPT !.step = row.step + 1, !.sent = Day(time), !.due = 0, !.status = "sent"]

Mark(w) ==
    /\ pc[w] = "mark"
    /\ Done(w, MarkStepSent(w, rec[job[w].row]))
    /\ IF Kept(job[w].row) THEN UNCHANGED missed ELSE Miss(w, job[w].day)
    /\ UNCHANGED <<time, tick, todo, faults, mailed>>

\* The follow-up is gone: MarkRecipientStepSent without a mail.
EndSequence(w) ==
    /\ pc[w] = "smtp"
    /\ rec[job[w].row].step > 0
    /\ Done(w, [rec[job[w].row] EXCEPT !.sent = Day(time), !.due = 0, !.status = "sent"])
    /\ UNCHANGED <<time, tick, todo, faults, mailed, missed>>

\* RequeueRecipient clears mailbox_id; MarkRecipientFailed and -Skipped keep it.
GiveBack(row) ==
    {[row EXCEPT !.status = "queued", !.mailbox = None],
     [row EXCEPT !.status = "failed"], [row EXCEPT !.status = "skipped"]}

Reject(w) ==
    /\ pc[w] = "smtp"
    /\ \E row \in GiveBack(rec[job[w].row]) : Done(w, row)
    /\ UNCHANGED <<time, tick, todo, faults, mailed, missed>>

\* The server took the mail but the client saw an error.
AcceptAndError(w) ==
    /\ pc[w] = "smtp"
    /\ Fault
    /\ Mailed(w)
    /\ Miss(w, Day(time))
    /\ \E row \in GiveBack(rec[job[w].row]) : Done(w, row)
    /\ UNCHANGED <<time, tick, todo>>

\* The pod restarts, perhaps between the mail and its record; what it had in
\* memory is gone. The janitor fails the row later.
Restart(w) ==
    /\ pc[w] # "idle"
    /\ Fault
    /\ IF pc[w] = "mark" THEN Miss(w, job[w].day) ELSE UNCHANGED missed
    /\ rec' = IF pc[w] \in {"smtp", "mark"} /\ Kept(job[w].row)
              THEN [rec EXCEPT ![job[w].row].status = "failed"] ELSE rec
    /\ pc' = [pc EXCEPT ![w] = "idle"]
    /\ job' = [job EXCEPT ![w] = NoJob]
    /\ todo' = [todo EXCEPT ![w] = {}]
    /\ tick' = [tick EXCEPT ![w] = 0]
    /\ UNCHANGED <<time, mailed>>

-----------------------------------------------------------------------------
(* The operator *)

\* RequeueFailedRecipients: mailbox_id, sent_at and next_step_at stay.
Requeue(c) ==
    /\ \E r \in Rows : CampaignOf[r] = c /\ rec[r].status = "failed"
    /\ Fault
    /\ rec' = [r \in Rows |-> IF CampaignOf[r] = c /\ rec[r].status = "failed"
                             THEN [rec[r] EXCEPT !.status = "queued"] ELSE rec[r]]
    /\ UNCHANGED <<time, pc, tick, todo, job, mailed, missed>>

\* The rows go by ON DELETE CASCADE, those being sent too: with their campaign,
\* once it is cancelled (DeleteCampaign), or with their customer.
Delete(R) ==
    /\ \E r \in R : Kept(r)
    /\ Fault
    /\ Forget(R)
    /\ rec' = [r \in Rows |-> IF r \in R THEN Gone ELSE rec[r]]
    /\ UNCHANGED <<time, pc, tick, todo, job, mailed>>

Operator ==
    \/ \E c \in Campaigns : Requeue(c) \/ Delete({r \in Rows : CampaignOf[r] = c})
    \/ \E r \in Rows : Delete({r})

-----------------------------------------------------------------------------
\* Half a day goes by, also while a tick is under way.
HalfDay ==
    /\ time < MaxTime
    /\ time' = time + 1
    /\ UNCHANGED <<rec, pc, tick, todo, job, faults, mailed, missed>>

-----------------------------------------------------------------------------
Worker(w) ==
    \/ TickBegin(w) \/ TickEnd(w) \/ Claim(w) \/ Accept(w) \/ Mark(w)
    \/ EndSequence(w) \/ Reject(w) \/ AcceptAndError(w) \/ Restart(w)
    \/ \E c \in Campaigns : Skip(w, c) \/ \E m \in Mailboxes : Pick(w, c, m)

Next == HalfDay \/ Operator \/ \E w \in Workers : Worker(w)

Spec == Init /\ [][Next]_vars

-----------------------------------------------------------------------------
(* Properties *)

TypeOK ==
    /\ time \in 0..MaxTime
    /\ rec \in [Rows -> [step : Nat, mailbox : Mailboxes \cup {None},
                         sent : Days \cup {Never}, due : 0..MaxTime + 2 * WaitDays,
                         status : {"queued", "sending", "sent", "failed", "skipped", "gone"}]]
    /\ pc \in [Workers -> {"idle", "campaigns", "claim", "smtp", "mark"}]
    /\ tick \in [Workers -> 0..MaxTime]
    /\ todo \in [Workers -> SUBSET Campaigns]
    /\ job \in [Workers -> [row : Rows, mailbox : Mailboxes \cup {None}, day : Days]]
    /\ \A w \in Workers : pc[w] \in {"claim", "smtp", "mark"} <=> job[w].mailbox # None
    /\ faults \in 0..MaxFaults
    /\ mailed \in [Mailboxes -> [Days -> Nat]]
    /\ missed \in [Mailboxes -> [Days -> Nat]]

\* What the campaigns that use a mailbox allow it on a day: the most any of
\* them does, at the end of that day.
Budget(m, d) ==
    Max({0} \cup {EffectiveCap(c, 2 * d + 1) :
                    c \in {c \in Campaigns : m \in Pool[c] /\ StartedAt[c] <= 2 * d + 1}})

\* A mailbox sends no more on a day than the campaigns that share it allow,
\* follow-ups included, plus one for each worker beyond the first (rows that are
\* being sent are not in the count) and plus the mails no row records: since the
\* record failed, since a follow-up of the same day overwrote it, which takes a
\* tick that lasts over midnight, or since the row was deleted.
BudgetBound ==
    \A m \in Mailboxes : \A d \in Days :
        mailed[m][d] <= Budget(m, d) + missed[m][d] + Cardinality(Workers) - 1
=============================================================================

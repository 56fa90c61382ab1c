-------------------------- MODULE CampaignResponse --------------------------
(***************************************************************************)
(* What recipients of campaign mail do and how it is recorded: the public  *)
(* endpoints of internal/campaign/tracking.go (unsubscribe, open, click),  *)
(* the attribution of received mail in internal/mail/                      *)
(* campaign_attribution.go (reply, bounce), and the suppression list with  *)
(* its two handlers (internal/service/campaign/suppression.go).            *)
(*                                                                         *)
(* Every handler reads the recipient, stamps a column, may add the address *)
(* to the suppression list, and writes the event and the notification if   *)
(* the row it read was not stamped yet. The requests of two mail clients,  *)
(* a client that repeats a request, and the two pods that ingest the same  *)
(* mail run these steps side by side; each step is one statement.          *)
(***************************************************************************)
EXTENDS Naturals

CONSTANTS
    Calls,      \* slots for handlers that run at the same time
    Rows,       \* CampaignRecipient rows that were sent to
    Addresses,
    Companies,
    AddressOf,  \* email of each row
    CompanyOf,  \* company of the campaign of each row
    SentAt,     \* order of sent_at of the rows
    Signals,    \* the signals the instance includes, of SignalKinds
    Manual,     \* the operator edits the suppression list
    MaxFaults   \* bound: failed statements and crashes

SignalKinds == {"unsubscribe", "open", "click", "reply", "hard", "soft"}
EventKinds  == {"unsubscribe", "open", "click", "reply", "bounce"}

ASSUME ResponseConstants ==
    /\ Rows # {}
    /\ AddressOf \in [Rows -> Addresses]
    /\ CompanyOf \in [Rows -> Companies]
    /\ SentAt \in [Rows -> Nat]
    /\ \A r, s \in Rows : SentAt[r] = SentAt[s] => r = s
    /\ Signals \subseteq SignalKinds
    /\ Manual \in BOOLEAN
    /\ MaxFaults \in Nat

VARIABLES
    waiting,      \* rows that are 'queued' for a follow-up; the others are 'sent'
    stamped,      \* the time columns that are set, per row
    events,       \* CampaignEvent rows per row and kind (2 = two or more)
    notified,     \* notifications per row and kind (2 = two or more)
    suppression,  \* reason of the Suppression row, per company and address
    call,         \* the handler in each slot
    faults,       \* faults so far
    promised,     \* history: rows whose sender was told that no mail follows
    torn,         \* history: <<row, kind>> of a handler that failed half-way
    unlisted,     \* history: rows whose CreateSuppression failed
    freed         \* history: rows whose address the operator took off the list

vars == <<waiting, stamped, events, notified, suppression, call, faults,
          promised, torn, unlisted, freed>>

-----------------------------------------------------------------------------
Reasons == {"no", "manual", "unsubscribe", "hard_bounce"}

\* Where a handler is, the signal it handles, the row it read, and whether the
\* column was set when it read the row.
Call == [at : {"idle", "mark", "suppress", "event", "notify"},
         signal : SignalKinds, row : Rows, already : BOOLEAN]

NoCall == [at |-> "idle", signal |-> "open", row |-> CHOOSE r \in Rows : TRUE,
           already |-> FALSE]

Idle(c) == call[c].at = "idle"

\* The event kind of a signal, which is also its column: unsubscribed_at,
\* first_opened_at, first_clicked_at, replied_at, bounced_at.
EventKind(signal) == IF signal \in {"hard", "soft"} THEN "bounce" ELSE signal

Init ==
    /\ waiting \in SUBSET Rows
    /\ stamped = [r \in Rows |-> {}]
    /\ events = [r \in Rows |-> [k \in EventKinds |-> 0]]
    /\ notified = [r \in Rows |-> [k \in EventKinds |-> 0]]
    /\ suppression = [k \in Companies |-> [a \in Addresses |-> "no"]]
    /\ call = [c \in Calls |-> NoCall]
    /\ faults = 0
    /\ promised = {}
    /\ torn = {}
    /\ unlisted = {}
    /\ freed = {}

Bump(n) == IF n < 2 THEN n + 1 ELSE 2

OneMore(f, r, k) == [f EXCEPT ![r] = [f[r] EXCEPT ![k] = Bump(f[r][k])]]

Fault == faults < MaxFaults /\ faults' = faults + 1

Goto(c, at) ==
    call' = [call EXCEPT ![c] = IF at = "idle" THEN NoCall ELSE [@ EXCEPT !.at = at]]

Tear(c) == torn' = torn \cup {<<call[c].row, EventKind(call[c].signal)>>}

-----------------------------------------------------------------------------
(* The beginning of a handler: which row is meant, and what it says *)

\* The row as it was before this signal; already decides what is reported.
Read(c, signal, r) ==
    call' = [call EXCEPT ![c] =
        [at |-> "mark", signal |-> signal, row |-> r,
         already |-> EventKind(signal) \in stamped[r]]]

\* A token names its row; so do In-Reply-To, References and the original
\* Message-ID of a DSN (cmp-{recipient}).
Arrives(c, signal, r) ==
    /\ Idle(c)
    /\ signal \in Signals
    /\ Read(c, signal, r)
    /\ UNCHANGED <<waiting, stamped, events, notified, suppression, faults,
                   promised, torn, unlisted, freed>>

\* FindSentRecipientByFromAddr: status = 'sent', any company.
SentTo(a) == {r \in Rows \ waiting : AddressOf[r] = a}

\* A mail without those headers goes to the row that was sent to last; if there
\* is none nothing happens.
ArrivesByAddress(c, signal, a) ==
    /\ Idle(c)
    /\ signal \in Signals \cap {"reply", "hard", "soft"}
    /\ \E r \in SentTo(a) :
          /\ \A s \in SentTo(a) : SentAt[s] <= SentAt[r]
          /\ Read(c, signal, r)
    /\ UNCHANGED <<waiting, stamped, events, notified, suppression, faults,
                   promised, torn, unlisted, freed>>

-----------------------------------------------------------------------------
(* The steps of a handler *)

\* What follows the stamp: opens and clicks write an event each time, the
\* others only for the first.
AfterMark(c) ==
    CASE call[c].signal \in {"unsubscribe", "hard"}       -> "suppress"
      [] call[c].signal \in {"open", "click"}             -> "event"
      [] call[c].signal \in {"reply", "soft"}
           -> IF call[c].already THEN "idle" ELSE "event"

\* Faulty: already is taken from the row that MarkRecipient... returns.
MarkAndReadBack(c) ==
    /\ call[c].at = "mark"
    /\ stamped' = [stamped EXCEPT ![call[c].row] = @ \cup {EventKind(call[c].signal)}]
    /\ call' = [call EXCEPT ![c].already = TRUE,
                            ![c].at = IF call[c].signal = "reply" THEN "idle" ELSE AfterMark(c)]
    /\ UNCHANGED <<waiting, events, notified, suppression, faults, promised,
                   torn, unlisted, freed>>

\* MarkRecipientUnsubscribed, -Opened, -Clicked, -Replied and -Bounced keep the
\* first time. A soft bounce stamps nothing.
Mark(c) ==
    /\ call[c].at = "mark"
    /\ stamped' = IF call[c].signal = "soft" THEN stamped
                  ELSE [stamped EXCEPT ![call[c].row] =
                           @ \cup {EventKind(call[c].signal)}]
    /\ Goto(c, AfterMark(c))
    /\ UNCHANGED <<waiting, events, notified, suppression, faults, promised,
                   torn, unlisted, freed>>

\* Faulty: an unsubscription goes on although the column was not set.
MarkFailsQuietly(c) ==
    /\ call[c].at = "mark"
    /\ call[c].signal # "soft"
    /\ Fault
    /\ Tear(c)
    /\ Goto(c, AfterMark(c))
    /\ UNCHANGED <<waiting, stamped, events, notified, suppression, promised,
                   unlisted, freed>>

\* The UPDATE fails: an unsubscription and a reply give up, the others go on.
MarkFails(c) ==
    /\ call[c].at = "mark"
    /\ call[c].signal # "soft"
    /\ Fault
    /\ Tear(c)
    /\ Goto(c, IF call[c].signal \in {"unsubscribe", "reply"} THEN "idle"
               ELSE AfterMark(c))
    /\ UNCHANGED <<waiting, stamped, events, notified, suppression, promised,
                   unlisted, freed>>

Listed(r) == suppression[CompanyOf[r]][AddressOf[r]] # "no"

Enter(k, a, reason) ==
    suppression' = [suppression EXCEPT ![k] = [suppression[k] EXCEPT ![a] = reason]]

Reason(signal) == IF signal = "hard" THEN "hard_bounce" ELSE signal

\* The handler of an unsubscription answers when it is through; a bounce has
\* nobody to answer to.
Answers(c, at) ==
    promised' = IF at = "idle" /\ call[c].signal = "unsubscribe"
                THEN promised \cup {call[c].row} ELSE promised

AfterSuppress(c) == IF call[c].already THEN "idle" ELSE "event"

\* CreateSuppression, ON CONFLICT DO NOTHING: the first reason stays.
Suppress(c) ==
    LET r == call[c].row
    IN  /\ call[c].at = "suppress"
        /\ IF Listed(r) THEN UNCHANGED suppression
           ELSE Enter(CompanyOf[r], AddressOf[r], Reason(call[c].signal))
        /\ Goto(c, AfterSuppress(c))
        /\ Answers(c, AfterSuppress(c))
        /\ UNCHANGED <<waiting, stamped, events, notified, faults, torn, unlisted, freed>>

\* It fails, which is logged.
SuppressFails(c) ==
    /\ call[c].at = "suppress"
    /\ Fault
    /\ unlisted' = unlisted \cup {call[c].row}
    /\ Goto(c, AfterSuppress(c))
    /\ Answers(c, AfterSuppress(c))
    /\ UNCHANGED <<waiting, stamped, events, notified, suppression, torn, freed>>

\* CreateCampaignEvent; when it fails the handler logs it and goes on. An open
\* or a click that is not the first ends here.
Event(c) ==
    LET r == call[c].row
        k == EventKind(call[c].signal)
    IN  /\ call[c].at = "event"
        /\ \/ /\ events' = OneMore(events, r, k)
              /\ UNCHANGED <<faults, torn>>
           \/ Fault /\ Tear(c) /\ UNCHANGED events
        /\ Goto(c, IF call[c].already THEN "idle" ELSE "notify")
        /\ UNCHANGED <<waiting, stamped, notified, suppression, promised, unlisted, freed>>

\* notifyEvent and notifyCampaignEvent; they need the campaign, whose lookup
\* may fail except for an unsubscription, which has it already.
Notify(c) ==
    LET r == call[c].row
        k == EventKind(call[c].signal)
    IN  /\ call[c].at = "notify"
        /\ \/ /\ notified' = OneMore(notified, r, k)
              /\ UNCHANGED <<faults, torn>>
           \/ /\ call[c].signal # "unsubscribe"
              /\ Fault /\ Tear(c) /\ UNCHANGED notified
        /\ Goto(c, "idle")
        /\ Answers(c, "idle")
        /\ UNCHANGED <<waiting, stamped, events, suppression, unlisted, freed>>

\* The pod dies under the handler.
Crash(c) ==
    /\ ~Idle(c)
    /\ Fault
    /\ Tear(c)
    /\ Goto(c, "idle")
    /\ UNCHANGED <<waiting, stamped, events, notified, suppression, promised,
                   unlisted, freed>>

-----------------------------------------------------------------------------
(* What goes on beside the handlers *)

\* The send worker ends the sequence of a row.
SequenceEnds(r) ==
    /\ r \in waiting
    /\ waiting' = waiting \ {r}
    /\ UNCHANGED <<stamped, events, notified, suppression, call, faults,
                   promised, torn, unlisted, freed>>

AddSuppression(k, a) ==
    /\ Manual
    /\ suppression[k][a] = "no"
    /\ Enter(k, a, "manual")
    /\ UNCHANGED <<waiting, stamped, events, notified, call, faults, promised,
                   torn, unlisted, freed>>

\* Only what was added by hand may be taken back.
RemoveSuppression(k, a) ==
    /\ suppression[k][a] = "manual"
    /\ Enter(k, a, "no")
    /\ freed' = freed \cup {r \in Rows : CompanyOf[r] = k /\ AddressOf[r] = a}
    /\ UNCHANGED <<waiting, stamped, events, notified, call, faults, promised,
                   torn, unlisted>>

-----------------------------------------------------------------------------
Handler(c) ==
    \/ \E signal \in Signals : \E r \in Rows : Arrives(c, signal, r)
    \/ \E signal \in Signals : \E a \in Addresses : ArrivesByAddress(c, signal, a)
    \/ Mark(c) \/ MarkFails(c) \/ Suppress(c) \/ SuppressFails(c)
    \/ Event(c) \/ Notify(c) \/ Crash(c)

Next ==
    \/ \E c \in Calls : Handler(c)
    \/ \E r \in Rows : SequenceEnds(r)
    \/ \E k \in Companies : \E a \in Addresses :
          AddSuppression(k, a) \/ RemoveSuppression(k, a)

Spec == Init /\ [][Next]_vars

-----------------------------------------------------------------------------
(* Properties *)

TypeOK ==
    /\ waiting \subseteq Rows
    /\ stamped \in [Rows -> SUBSET EventKinds]
    /\ events \in [Rows -> [EventKinds -> 0..2]]
    /\ notified \in [Rows -> [EventKinds -> 0..2]]
    /\ suppression \in [Companies -> [Addresses -> Reasons]]
    /\ call \in [Calls -> Call]
    /\ faults \in 0..MaxFaults
    /\ promised \subseteq Rows
    /\ torn \subseteq Rows \X EventKinds
    /\ unlisted \subseteq Rows
    /\ freed \subseteq Rows

\* A handler for this row and kind is under way.
InFlight(r, k) ==
    \E c \in Calls : ~Idle(c) /\ call[c].row = r /\ EventKind(call[c].signal) = k

\* Whatever the order of concurrent handlers, a stamped column has its event
\* and its notification once they are through: no signal is lost because each
\* of two handlers left it to the other (tracking.go:89-115,
\* campaign_attribution.go:65-85).
FirstIsReported ==
    \A r \in Rows : \A k \in stamped[r] :
        InFlight(r, k) \/ <<r, k>> \in torn \/ (events[r][k] > 0 /\ notified[r][k] > 0)

\* Who was told that no mail follows is out of this campaign for good, and he
\* and every address that bounced are on the list of the company, for all its
\* campaigns: except where the list could not be written, a handler died, or
\* the operator took back an entry of his own (tracking.go:90-102,
\* campaign_attribution.go:153-172).
OptOutRecorded ==
    /\ \A r \in promised :
          "unsubscribe" \in stamped[r] /\ (Listed(r) \/ r \in unlisted \cup freed)
    /\ \A r \in Rows : \A k \in stamped[r] \cap {"unsubscribe", "bounce"} :
          \/ Listed(r) \/ r \in unlisted \cup freed
          \/ InFlight(r, k) \/ <<r, k>> \in torn
=============================================================================

--------------------------- MODULE OfferDeadline ----------------------------
(***************************************************************************)
(* The date of an offer (internal/campaign/offer_deadline.go)              *)
(* is decided when the first mail goes to a customer, kept in the custom    *)
(* field offer_deadline, and printed by every later mail of every campaign  *)
(* that has the customer.                                                   *)
(*                                                                         *)
(* A worker reads the customer, may decide, and sends; other workers and    *)
(* the customer form, which replaces all custom fields, come between.       *)
(***************************************************************************)
EXTENDS Naturals, FiniteSets

CONSTANTS
    Rows,        \* rows of one customer, each of a campaign that prints the field
    Days,        \* CAMPAIGN_OFFER_DEADLINE_DAYS
    Holidays,    \* the table jpHolidays
    LastTabled,  \* the last day of jpHolidayLastYear
    LastDay,     \* bound: the day after which nothing is sent; day 0 is a Sunday
    MaxTries,    \* bound: attempts per row
    MaxSlips     \* bound: failed statements and edits by hand

NoDate == 0

VARIABLES
    today,     \* the day in Japan
    deadline,  \* custom_fields.offer_deadline
    send,      \* each row: where its worker is, step, attempts, day and vars it holds
    form,      \* the customer form somebody has open: what it shows, or closed
    decided,   \* history: day of the mail for which the stored date was decided
    printed,   \* history: the mails that went out
    strayed    \* history: what may make two mails differ; how often

vars == <<today, deadline, send, form, decided, printed, strayed>>

Closed == LastDay + Days + 100

Init ==
    /\ today = 1
    /\ deadline = NoDate
    /\ \E started \in SUBSET Rows :   \* their first mail went out before there was the field
          send = [r \in Rows |-> [at |-> "queued", old |-> r \in started,
                                  step |-> IF r \in started THEN 2 ELSE 1,
                                  tries |-> 0, now |-> 0, date |-> NoDate]]
    /\ form = Closed
    /\ decided = 0
    /\ printed = {}
    /\ strayed = [why |-> {}, times |-> 0]

Stray(what) ==
    /\ strayed.times < MaxSlips
    /\ strayed' = [why |-> strayed.why \cup {what}, times |-> strayed.times + 1]

-----------------------------------------------------------------------------
Weekend(d)   == d % 7 \in {0, 6}
JpHoliday(d) == d <= LastTabled /\ d \in Holidays

OfferDeadlineDate(sent) ==
    LET from[d \in Nat] == IF Weekend(d) \/ JpHoliday(d) THEN from[d + 1] ELSE d
    IN  from[sent + Days]

\* GetCustomer and AddFieldVars; now is the time of the tick.
LoadVars(r) ==
    /\ send[r].at = "queued" /\ send[r].tries < MaxTries
    /\ send' = [send EXCEPT ![r] = [send[r] EXCEPT !.at = "loaded", !.now = today, !.date = deadline,
                                                   !.tries = @ + 1]]
    /\ UNCHANGED <<today, deadline, form, decided, printed, strayed>>

Composed(r, d) == send' = [send EXCEPT ![r] = [send[r] EXCEPT !.at = "composed", !.date = d]]

\* ensureOfferDeadline decides for a first mail only.
Decides(r) == send[r].date = NoDate /\ send[r].step = 1

KeepVars(r) ==
    /\ send[r].at = "loaded" /\ ~Decides(r)
    /\ Composed(r, send[r].date)
    /\ UNCHANGED <<today, deadline, form, decided, printed, strayed>>

\* Faulty: the mail prints the date its worker has computed.
PrintOwnDate(r) ==
    /\ send[r].at = "loaded" /\ Decides(r)
    /\ LET own == OfferDeadlineDate(send[r].now)
       IN  /\ deadline' = IF deadline = NoDate THEN own ELSE deadline
           /\ decided' = IF deadline = NoDate THEN send[r].now ELSE decided
           /\ Composed(r, own)
    /\ UNCHANGED <<today, form, printed, strayed>>

\* SetCustomerCustomFieldIfAbsent answers with what is stored.
SetIfAbsent(r) ==
    /\ send[r].at = "loaded" /\ Decides(r)
    /\ LET own == OfferDeadlineDate(send[r].now)
       IN  /\ deadline' = IF deadline = NoDate THEN own ELSE deadline
           /\ decided' = IF deadline = NoDate THEN send[r].now ELSE decided
           /\ Composed(r, deadline')
    /\ UNCHANGED <<today, form, printed, strayed>>

\* It fails, with the field written or not; the mail goes with its own date.
SetFails(r) ==
    /\ send[r].at = "loaded" /\ Decides(r)
    /\ Stray("unsaved")
    /\ LET own == OfferDeadlineDate(send[r].now)
       IN  /\ deadline' \in {deadline, IF deadline = NoDate THEN own ELSE deadline}
           /\ Composed(r, own)
    /\ UNCHANGED <<today, form, decided, printed>>

\* The mail goes out, or it is refused or its worker dies, and it is composed anew.
Send(r) ==
    /\ send[r].at = "composed"
    /\ \/ /\ printed' = printed \cup {[row |-> r, step |-> send[r].step, date |-> send[r].date]}
          /\ send' = [send EXCEPT ![r] = [send[r] EXCEPT !.at = IF send[r].step = 2 THEN "done" ELSE "queued",
                                                         !.step = 2, !.now = 0, !.date = NoDate]]
       \/ /\ send' = [send EXCEPT ![r] = [send[r] EXCEPT !.at = "queued", !.now = 0, !.date = NoDate]]
          /\ UNCHANGED printed
    /\ UNCHANGED <<today, deadline, form, decided, strayed>>

-----------------------------------------------------------------------------
Midnight ==
    /\ today < LastDay
    /\ today' = today + 1
    /\ UNCHANGED <<deadline, send, form, decided, printed, strayed>>

OpenForm ==
    /\ form = Closed
    /\ form' = deadline
    /\ UNCHANGED <<today, deadline, send, decided, printed, strayed>>

\* UpdateCustomer replaces every custom field by what the form had.
UpdateCustomer ==
    /\ form # Closed
    /\ IF form = deadline THEN UNCHANGED strayed ELSE Stray("overwritten")
    /\ deadline' = form
    /\ form' = Closed
    /\ UNCHANGED <<today, send, decided, printed>>

Next ==
    \/ \E r \in Rows : LoadVars(r) \/ KeepVars(r) \/ SetIfAbsent(r) \/ SetFails(r) \/ Send(r)
    \/ Midnight \/ OpenForm \/ UpdateCustomer

Spec == Init /\ [][Next]_vars

-----------------------------------------------------------------------------
(* Properties                                                              *)

Dates == {NoDate} \cup 1..(LastDay + Days + 14)

TypeOK ==
    /\ today \in 1..LastDay
    /\ deadline \in Dates
    /\ send \in [Rows -> [at : {"queued", "loaded", "composed", "done"}, old : BOOLEAN, step : 1..2,
                          tries : 0..MaxTries, now : 0..LastDay, date : Dates]]
    /\ form \in Dates \cup {Closed}
    /\ decided \in 0..LastDay
    /\ printed \subseteq [row : Rows, step : 1..2, date : Dates]
    /\ strayed \in [why : SUBSET {"unsaved", "overwritten"}, times : 0..MaxSlips]

\* The next day that is neither Saturday nor Sunday nor a holiday of the table.
WorkingDayFrom(d) ==
    CHOOSE w \in d..(d + 14) :
        /\ ~Weekend(w) /\ ~JpHoliday(w)
        /\ \A v \in d..(w - 1) : Weekend(v) \/ JpHoliday(v)

\* Every mail of every campaign tells the customer the same date, which is the
\* working day that is due Days after the day the first mail was composed
\* ("全通で同じ日付でなければならない", offer_deadline.go:18-23), whatever
\* midnight, other campaigns, refused mails and the customer form bring
\* between. A follow-up without a date belongs to a row whose first mail went
\* out before. Not after the date could not be saved, or after a form that was
\* opened before the date was decided wrote its custom fields back.
OneDeadline ==
    strayed.why = {} =>
        \A m \in printed :
            \/ m.date = WorkingDayFrom(decided + Days) /\ decided # 0
            \/ m.date = NoDate /\ m.step = 2 /\ send[m.row].old
=============================================================================

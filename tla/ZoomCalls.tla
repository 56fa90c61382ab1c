----------------------------- MODULE ZoomCalls ------------------------------
(***************************************************************************)
(* How a phone call becomes an Activity row (internal/zoom).               *)
(*                                                                         *)
(* Zoom reports the end of a call and its recordings by webhook, once: an  *)
(* event that is not handled is not sent again, and events come in any     *)
(* order, more than once or never. ActivityHandler files them. Beside it   *)
(* every pod runs the ReconcileWorker, which lists the calls and the       *)
(* recordings of the last day each hour and files through the Backfiller   *)
(* what is missing. Nothing keeps the two, or two pods, apart but the      *)
(* unique index on Activity.zoom_call_id.                                  *)
(*                                                                         *)
(* A recording is downloaded and put into S3 under a key made of the call, *)
(* and only then linked to the row.                                        *)
(***************************************************************************)
EXTENDS Integers, Sequences, FiniteSets

CONSTANTS
    Handlers,       \* webhook requests that may be under way at one time
    Pods,           \* pods, each with a ReconcileWorker
    Calls,          \* calls
    Customers,      \* customers and contacts that may be registered
    Staff,          \* numbers of the Zoom Phone users of the company
    Caller, Callee, \* the parties of each call
    Direction,      \* which webhook Zoom sends: caller_* or callee_*
    Phone,          \* the number of each customer
    LastContact,    \* activity of each customer before the calls, 0: none in 30 days
    Parts,          \* recordings a call may have
    Window,         \* hours a call stays in the list (24 in the code)
    MaxDeliveries,  \* bound: webhook deliveries
    MaxFaults       \* bound: failed calls and restarts

Number == Seq(0..9)   \* the digits of a number with its country code

ASSUME CallConstants ==
    /\ Caller \in [Calls -> Number] /\ Callee \in [Calls -> Number]
    /\ Direction \in [Calls -> {"inbound", "outbound"}]
    /\ Phone \in [Customers -> Number]
    /\ LastContact \in [Customers -> Nat]
    /\ Parts \subseteq Nat \ {0}
    /\ Window \in Nat /\ MaxDeliveries \in Nat /\ MaxFaults \in Nat
    /\ Handlers \cap Pods = {}

\* Numbers of Japan, country code 81: nine more digits for a line at a place and for
\* freephones, ten, with a 0 in the second place, for mobile and IP phones.
InJapan(n) == Len(n) >= 2 /\ n[1] = 8 /\ n[2] = 1
JapaneseNumber(n) ==
    /\ InJapan(n)
    /\ n[3] # 0
    /\ Len(n) = 11 \/ (Len(n) = 12 /\ n[4] = 0)

\* Numbers are those of Japan or of other countries. A call has one party in the
\* company, and the webhook is of the side that has it.
ASSUME PartyConstants ==
    /\ \A k \in Customers : InJapan(Phone[k]) => JapaneseNumber(Phone[k])
    /\ \A c \in Calls : /\ \A n \in {Caller[c], Callee[c]} : InJapan(n) => JapaneseNumber(n)
                       /\ IF Direction[c] = "inbound"
                          THEN Callee[c] \in Staff /\ Caller[c] \notin Staff
                          ELSE Caller[c] \in Staff /\ Callee[c] \notin Staff

Workers == Handlers \cup Pods
None == "none"

VARIABLES
    mode,       \* Company.call_log_mode
    customers,  \* customers that are registered
    rows,       \* Activity rows that have a zoom_call_id
    store,      \* S3: the part under the key of each call, 0 = no object
    age,        \* hours since each call ended, -1 = has not ended
    ready,      \* parts of each call that Zoom has recorded
    job,        \* local variables of each worker
    ticked,     \* pods that have run in this hour
    deliveries, \* webhook deliveries so far
    faults      \* faults so far

vars == <<mode, customers, rows, store, age, ready, job, ticked, deliveries, faults>>

-----------------------------------------------------------------------------
(* Numbers. Zoom reports them with the country code; people keep a 0 in its place
   in a number of Japan and write the others in full. *)

Local(n) == IF InJapan(n) THEN <<0>> \o SubSeq(n, 3, Len(n)) ELSE n

\* Faulty: nine digits, so that landlines are found as well.
LastNineDigits(s) == IF Len(s) < 10 THEN <<>> ELSE SubSeq(s, Len(s) - 8, Len(s))

\* The last ten digits; a shorter string is no number.
PhoneToDigits(s) == IF Len(s) < 10 THEN <<>> ELSE SubSeq(s, Len(s) - 9, Len(s))

FindCustomersByPhoneDigits(d) ==
    IF d = <<>> THEN {} ELSE {k \in customers : PhoneToDigits(Local(Phone[k])) = d}

\* The number that is not ours, by the staff numbers that are cached; if they
\* do not decide, by the direction.
PickCustomerSide(c, known) ==
    IF (Caller[c] \in known) # (Callee[c] \in known)
    THEN IF Caller[c] \in known THEN Callee[c] ELSE Caller[c]
    ELSE IF Direction[c] = "inbound" THEN Caller[c] ELSE Callee[c]

\* The customer with that number who was in contact last; any of them if none was.
MatchCustomer(n) ==
    LET found == FindCustomersByPhoneDigits(PhoneToDigits(n))
    IN  {k \in found : \A j \in found : LastContact[j] <= LastContact[k]}

-----------------------------------------------------------------------------
Idle == [at |-> "idle", call |-> None, part |-> 0, match |-> None,
         logs |-> {}, recs |-> {}]

Job == [at : {"idle", "lookup", "match", "insert", "find", "archive", "link", "logs", "recs"},
        call : Calls \cup {None}, part : Parts \cup {0}, match : Customers \cup {None},
        logs : SUBSET Calls, recs : SUBSET (Calls \X Parts)]

Row == [call : Calls, customer : Customers, by : Workers, recording : BOOLEAN]

Init ==
    /\ mode \in {"click", "zoom"}
    /\ customers \in SUBSET Customers
    /\ rows = {}
    /\ store = [c \in Calls |-> 0]
    /\ age = [c \in Calls |-> -1]
    /\ ready = [c \in Calls |-> {}]
    /\ job = [w \in Workers |-> Idle]
    /\ ticked = {}
    /\ deliveries = 0
    /\ faults = 0

GetActivityByZoomCallID(c) == {r \in rows : r.call = c}

Go(w, j) == job' = [job EXCEPT ![w] = j]

\* The item is done. A webhook request ends; a reconciliation goes on with
\* the next call, or, when it was at a recording, with the next recording.
Done(w) ==
    Go(w, IF w \in Handlers THEN Idle
          ELSE [job[w] EXCEPT !.at = IF job[w].part = 0 THEN "logs" ELSE "recs",
                              !.call = None, !.part = 0, !.match = None])

Fault == faults < MaxFaults /\ faults' = faults + 1

-----------------------------------------------------------------------------
(* Steps that the webhook and the Backfiller share                         *)

Lookup(w) ==
    /\ job[w].at = "lookup"
    /\ \/ /\ GetActivityByZoomCallID(job[w].call) # {}
          /\ Done(w)
          /\ UNCHANGED faults
       \/ /\ GetActivityByZoomCallID(job[w].call) = {}
          /\ Go(w, [job[w] EXCEPT !.at = "match"])
          /\ UNCHANGED faults
       \/ /\ Fault   \* the webhook goes on without an answer, the Backfiller does not
          /\ IF w \in Handlers THEN Go(w, [job[w] EXCEPT !.at = "match"]) ELSE Done(w)
    /\ UNCHANGED <<mode, customers, rows, store, age, ready, ticked, deliveries>>

\* Faulty: a number nobody has is filed under no customer.
MatchAnyway(w) ==
    /\ job[w].at = "match"
    /\ \E k \in MatchCustomer(PickCustomerSide(job[w].call, Staff)) \cup {None} :
         Go(w, [job[w] EXCEPT !.at = "insert", !.match = k])
    /\ UNCHANGED <<mode, customers, rows, store, age, ready, ticked, deliveries, faults>>

\* The staff numbers are those of the last list that could be read: all of
\* them, none, or those from before the last change.
Match(w) ==
    /\ job[w].at = "match"
    /\ \/ /\ \E known \in SUBSET Staff :
               LET found == MatchCustomer(PickCustomerSide(job[w].call, known))
               IN  IF found = {} THEN Done(w)
                   ELSE \E k \in found : Go(w, [job[w] EXCEPT !.at = "insert", !.match = k])
          /\ UNCHANGED faults
       \/ Fault /\ Done(w)   \* a query fails, or the book has no default status
    /\ UNCHANGED <<mode, customers, rows, store, age, ready, ticked, deliveries>>

\* activity_zoom_call_id_uniq refuses a second row.
CreateActivity(w) ==
    IF GetActivityByZoomCallID(job[w].call) # {} THEN UNCHANGED rows
    ELSE rows' = rows \cup {[call |-> job[w].call, customer |-> job[w].match, by |-> w,
                             recording |-> FALSE]}

Insert(w) ==
    /\ job[w].at = "insert"
    /\ \/ CreateActivity(w) /\ UNCHANGED faults
       \/ Fault /\ UNCHANGED rows
    /\ Done(w)
    /\ UNCHANGED <<mode, customers, store, age, ready, ticked, deliveries>>

\* Faulty: the Backfiller takes the row the webhook filed for complete.
WantedByWebhook(w, r) == w \in Handlers

\* Only the Backfiller looks whether the row has a recording already.
Wanted(w, r) == w \in Handlers \/ ~r.recording

Find(w) ==
    /\ job[w].at = "find"
    /\ \/ /\ IF \E r \in GetActivityByZoomCallID(job[w].call) : Wanted(w, r)
             THEN Go(w, [job[w] EXCEPT !.at = "archive"])
             ELSE Done(w)
          /\ UNCHANGED faults
       \/ Fault /\ Done(w)
    /\ UNCHANGED <<mode, customers, rows, store, age, ready, ticked, deliveries>>

\* Faulty: a download that failed is linked all the same.
ArchiveAnyway(w) ==
    /\ job[w].at = "archive"
    /\ \/ store' = [store EXCEPT ![job[w].call] = job[w].part] /\ UNCHANGED faults
       \/ Fault /\ UNCHANGED store
    /\ Go(w, [job[w] EXCEPT !.at = "link"])
    /\ UNCHANGED <<mode, customers, rows, age, ready, ticked, deliveries>>

\* Download and PUT under calls/<call_id>/recording.<ext>, whatever the part.
Archive(w) ==
    /\ job[w].at = "archive"
    /\ \/ /\ store' = [store EXCEPT ![job[w].call] = job[w].part]
          /\ Go(w, [job[w] EXCEPT !.at = "link"])
          /\ UNCHANGED faults
       \/ Fault /\ Done(w) /\ UNCHANGED store
    /\ UNCHANGED <<mode, customers, rows, age, ready, ticked, deliveries>>

UpdateActivityRecordingURL(c) ==
    rows' = {IF r.call = c THEN [r EXCEPT !.recording = TRUE] ELSE r : r \in rows}

Link(w) ==
    /\ job[w].at = "link"
    /\ \/ UpdateActivityRecordingURL(job[w].call) /\ UNCHANGED faults
       \/ Fault /\ UNCHANGED rows
    /\ Done(w)
    /\ UNCHANGED <<mode, customers, store, age, ready, ticked, deliveries>>

WorkerStep(w) == Lookup(w) \/ Match(w) \/ Insert(w) \/ Find(w) \/ Archive(w) \/ Link(w)

-----------------------------------------------------------------------------
(* The webhook: Zoom delivers what it has in any order                     *)

Deliver(h, j) ==
    /\ job[h].at = "idle"
    /\ deliveries < MaxDeliveries
    /\ deliveries' = deliveries + 1
    /\ Go(h, j)
    /\ UNCHANGED <<mode, customers, rows, store, age, ready, ticked, faults>>

HandleCallEnded(h, c) ==
    /\ age[c] >= 0
    /\ Deliver(h, [Idle EXCEPT !.at = "lookup", !.call = c])

HandleRecordingCompleted(h, c, p) ==
    /\ p \in ready[c]
    /\ Deliver(h, [Idle EXCEPT !.at = "find", !.call = c, !.part = p])

-----------------------------------------------------------------------------
(* The reconciliation of one pod                                           *)

Listed == {c \in Calls : age[c] \in 0..Window}

\* tick: the mode, then ListAccountCallLogs; if the list fails, the run ends.
Tick(p) ==
    /\ p \notin ticked
    /\ job[p].at = "idle"
    /\ \/ /\ mode = "click"
          /\ ticked' = ticked \cup {p}
          /\ UNCHANGED <<job, faults>>
       \/ /\ mode = "zoom"
          /\ Go(p, [Idle EXCEPT !.at = "logs", !.logs = Listed])
          /\ UNCHANGED <<ticked, faults>>
       \/ /\ mode = "zoom"
          /\ Fault
          /\ ticked' = ticked \cup {p}
          /\ UNCHANGED job
    /\ UNCHANGED <<mode, customers, rows, store, age, ready, deliveries>>

NextLog(p) ==
    /\ job[p].at = "logs"
    /\ \E c \in job[p].logs :
         Go(p, [job[p] EXCEPT !.at = "lookup", !.call = c, !.logs = @ \ {c}])
    /\ UNCHANGED <<mode, customers, rows, store, age, ready, ticked, deliveries, faults>>

\* All calls are done: ListAccountRecordings. If it fails, the run ends.
ListRecordings(p) ==
    /\ job[p].at = "logs" /\ job[p].logs = {}
    /\ \/ /\ Go(p, [Idle EXCEPT !.at = "recs", !.recs = {cp \in Listed \X Parts : cp[2] \in ready[cp[1]]}])
          /\ UNCHANGED <<ticked, faults>>
       \/ /\ Fault
          /\ Go(p, Idle)
          /\ ticked' = ticked \cup {p}
    /\ UNCHANGED <<mode, customers, rows, store, age, ready, deliveries>>

NextRecording(p) ==
    /\ job[p].at = "recs"
    /\ \E cp \in job[p].recs :
         Go(p, [job[p] EXCEPT !.at = "find", !.call = cp[1], !.part = cp[2], !.recs = @ \ {cp}])
    /\ UNCHANGED <<mode, customers, rows, store, age, ready, ticked, deliveries, faults>>

RunEnds(p) ==
    /\ job[p].at = "recs" /\ job[p].recs = {}
    /\ Go(p, Idle)
    /\ ticked' = ticked \cup {p}
    /\ UNCHANGED <<mode, customers, rows, store, age, ready, deliveries, faults>>

PodStep(p) ==
    \/ Tick(p) \/ NextLog(p) \/ ListRecordings(p) \/ NextRecording(p) \/ RunEnds(p)
    \/ WorkerStep(p)

-----------------------------------------------------------------------------
(* What goes on around them                                                *)

CallEnds(c) ==
    /\ age[c] = -1
    /\ age' = [age EXCEPT ![c] = 0]
    /\ UNCHANGED <<mode, customers, rows, store, ready, job, ticked, deliveries, faults>>

\* Zoom has a recording ready within the hour.
RecordingReady(c, p) ==
    /\ age[c] = 0 /\ p \notin ready[c]
    /\ ready' = [ready EXCEPT ![c] = @ \cup {p}]
    /\ UNCHANGED <<mode, customers, rows, store, age, job, ticked, deliveries, faults>>

AddCustomer(k) ==
    /\ k \notin customers
    /\ customers' = customers \cup {k}
    /\ UNCHANGED <<mode, rows, store, age, ready, job, ticked, deliveries, faults>>

\* A run is cut off after 30 minutes, so it ends within its hour.
HourPasses ==
    /\ ticked = Pods
    /\ ticked' = {}
    /\ age' = [c \in Calls |-> IF age[c] \in 0..Window THEN age[c] + 1 ELSE age[c]]
    /\ UNCHANGED <<mode, customers, rows, store, ready, job, deliveries, faults>>

UpdateCompanyCallLogMode ==
    /\ mode' \in {"click", "zoom"} \ {mode}
    /\ Fault
    /\ UNCHANGED <<customers, rows, store, age, ready, job, ticked, deliveries>>

\* A worker that starts again runs at once.
Crash(w) ==
    /\ job[w].at # "idle"
    /\ Fault
    /\ Go(w, Idle)
    /\ ticked' = ticked \ {w}
    /\ UNCHANGED <<mode, customers, rows, store, age, ready, deliveries>>

Next ==
    \/ \E p \in Pods : PodStep(p)
    \/ \E h \in Handlers : WorkerStep(h)
    \/ \E h \in Handlers, c \in Calls : HandleCallEnded(h, c)
    \/ \E h \in Handlers, c \in Calls, p \in Parts : HandleRecordingCompleted(h, c, p)
    \/ \E c \in Calls : CallEnds(c)
    \/ \E c \in Calls, p \in Parts : RecordingReady(c, p)
    \/ \E k \in Customers : AddCustomer(k)
    \/ \E w \in Workers : Crash(w)
    \/ HourPasses
    \/ UpdateCompanyCallLogMode

Spec == Init /\ [][Next]_vars

\* The pods work on and time passes; nobody need deliver a webhook.
Fairness == (\A p \in Pods : WF_vars(PodStep(p))) /\ WF_vars(HourPasses)

FairSpec == Spec /\ Fairness

-----------------------------------------------------------------------------
(* Properties                                                              *)

TypeOK ==
    /\ mode \in {"click", "zoom"}
    /\ customers \subseteq Customers
    /\ rows \subseteq Row
    /\ store \in [Calls -> Parts \cup {0}]
    /\ age \in [Calls -> -1 .. Window + 1]
    /\ ready \in [Calls -> SUBSET Parts]
    /\ job \in [Workers -> Job]
    /\ ticked \subseteq Pods
    /\ deliveries \in 0..MaxDeliveries
    /\ faults \in 0..MaxFaults

OtherParty(c) == CHOOSE n \in {Caller[c], Callee[c]} : n \notin Staff

\* Ten digits tell numbers of Japan apart, but a foreign number may end like one:
\* +1 903 724 1917 and 090-3724-1917.
Twins(m, n) ==
    /\ ~(InJapan(m) /\ InJapan(n))
    /\ PhoneToDigits(m) = PhoneToDigits(Local(n))

Found(n, phone) == phone = n \/ Twins(n, phone)

\* A call is filed once and with the customer at the other end, whichever of the webhook
\* and the reconciliations of two pods comes first and whatever they know of the staff
\* (reconcile_worker.go:35-37), and nobody else's number is taken for his
\* (activity.sql:240-242) but a foreign one that ends in the same ten digits.
FiledOnceAndRight ==
    /\ \A r, s \in rows : r.call = s.call => r = s
    /\ \A r \in rows : Found(OtherParty(r.call), Phone[r.customer])

\* A row that offers a recording has one to play: the object is in S3 before
\* recording_url is written, however often and by whom it is archived.
RecordingPlays == \A r \in rows : r.recording => store[r.call] \in ready[r.call]

Recorded(c) == \E r \in rows : r.call = c /\ (ready[c] # {} => r.recording)

\* What the reconciliation is for: in Zoom mode a call of a known customer and
\* its recording end up in the database though every webhook is lost, comes in
\* the wrong order or fails half way.
EveryCallRecorded ==
    \A c \in Calls :
        (age[c] = 0 /\ mode = "zoom" /\ \E k \in customers : Phone[k] = OtherParty(c))
            ~> (Recorded(c) \/ mode = "click")
=============================================================================

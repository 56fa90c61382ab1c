------------------------------ MODULE CallLog -------------------------------
(***************************************************************************)
(* The calls that one user records by hand with one customer at one number  *)
(* (internal/service/activity, internal/service/zoomphone), and the         *)
(* statuses of the book a call must have (internal/service/status).         *)
(*                                                                         *)
(* A click looks for a call of the last ten seconds, and inserts one if     *)
(* there is none. The page chose the status before; statuses come and go    *)
(* meanwhile. Two clicks at a time are two requests.                        *)
(***************************************************************************)
EXTENDS Naturals, FiniteSets

CONSTANTS
    Clicks,        \* requests that record a call
    Window,        \* the guard: 10 seconds
    MaxClock,      \* bound: seconds
    MaxPriority    \* bound: statuses, named by their priority

VARIABLES
    clock,     \* time
    calls,     \* Activity rows: the click, occurred_at, status_id, whether guarded
    statuses,  \* statuses of the book; SeedDefaultStatus makes the first
    click,     \* where each click is, occurredAt, the status the page chose
    together,  \* history: pairs of clicks that were under way at a time
    blind      \* history: clicks whose look for a recent call failed

vars == <<clock, calls, statuses, click, together, blind>>

Init ==
    /\ clock = 0
    /\ calls = {}
    /\ statuses = {1}
    /\ click = [k \in Clicks |-> [at |-> "idle", time |-> 0, status |-> 0]]
    /\ together = {} /\ blind = {}

Default == CHOOSE s \in statuses : \A t \in statuses : s <= t
UnderWay == {k \in Clicks : click[k].at \in {"looking", "inserting"}}

\* GetDefaultStatus, by the page or by MakeCall; without a status no call is recorded.
ChooseStatus(k) ==
    /\ click[k].at = "idle"
    /\ statuses # {}
    /\ click' = [click EXCEPT ![k] = [at |-> "chosen", time |-> 0, status |-> Default]]
    /\ UNCHANGED <<clock, calls, statuses, together, blind>>

\* CreateActivityCall begins: occurredAt is now.
CreateActivityCall(k) ==
    /\ click[k].at = "chosen"
    /\ click' = [click EXCEPT ![k].at = "looking", ![k].time = clock]
    /\ together' = together \cup {{k, j} : j \in UnderWay}
    /\ UNCHANGED <<clock, calls, statuses, blind>>

\* Faulty: only calls of the same status stop the click.
FindSameStatus(k) == {c \in calls : c.time + Window > click[k].time /\ c.status = click[k].status}

FindRecentManualCall(k) == {c \in calls : c.time + Window > click[k].time}

\* The call that is found is the answer. Any error, not only that there is
\* none, leads on to the INSERT.
Look(k) ==
    /\ click[k].at = "looking"
    /\ \/ /\ click' = [click EXCEPT ![k].at = IF FindRecentManualCall(k) = {} THEN "inserting" ELSE "done"]
          /\ UNCHANGED blind
       \/ /\ click' = [click EXCEPT ![k].at = "inserting"]
          /\ blind' = blind \cup {k}
    /\ UNCHANGED <<clock, calls, statuses, together>>

\* CreateActivity. The foreign key refuses a status that was deleted meanwhile;
\* the statement may fail as well.
CreateActivity(k, t, guarded) ==
    \/ /\ click[k].status \in statuses
       /\ calls' = calls \cup {[click |-> k, time |-> t, status |-> click[k].status, guarded |-> guarded]}
       /\ click' = [click EXCEPT ![k].at = "done", ![k].time = t]
    \/ /\ click' = [click EXCEPT ![k].at = "refused"]
       /\ UNCHANGED calls

Insert(k) ==
    /\ click[k].at = "inserting"
    /\ CreateActivity(k, click[k].time, TRUE)
    /\ UNCHANGED <<clock, statuses, together, blind>>

\* A call with a time given by hand, past or future, and one made by MakeCall:
\* not guarded, but found by the guard of others.
InsertUnguarded(k, t) ==
    /\ click[k].at = "chosen"
    /\ CreateActivity(k, t, FALSE)
    /\ UNCHANGED <<clock, statuses, together, blind>>

-----------------------------------------------------------------------------
\* The next priority after the largest; two at a time would share it.
CreateStatus ==
    /\ \E p \in 1..MaxPriority :
          /\ p = 1 \/ p - 1 \in statuses
          /\ \A s \in statuses : s < p
          /\ statuses' = statuses \cup {p}
    /\ UNCHANGED <<clock, calls, click, together, blind>>

\* SET NULL would leave a call without status, so activity_call_requires_status refuses.
DeleteStatus(s) ==
    /\ s \in statuses
    /\ \A c \in calls : c.status # s
    /\ statuses' = statuses \ {s}
    /\ UNCHANGED <<clock, calls, click, together, blind>>

\* The foreign key again.
UpdateActivityStatus(c, s) ==
    /\ s \in statuses
    /\ calls' = (calls \ {c}) \cup {[c EXCEPT !.status = s]}
    /\ UNCHANGED <<clock, statuses, click, together, blind>>

Tick ==
    /\ clock < MaxClock
    /\ clock' = clock + 1
    /\ UNCHANGED <<calls, statuses, click, together, blind>>

Next ==
    \/ \E k \in Clicks :
         \/ ChooseStatus(k) \/ CreateActivityCall(k) \/ Look(k) \/ Insert(k)
         \/ \E t \in 0..MaxClock : InsertUnguarded(k, t)
    \/ CreateStatus
    \/ \E s \in 1..MaxPriority : DeleteStatus(s)
    \/ \E c \in calls, s \in 1..MaxPriority : UpdateActivityStatus(c, s)
    \/ Tick

Spec == Init /\ [][Next]_vars

-----------------------------------------------------------------------------
(* Properties                                                              *)

TypeOK ==
    /\ clock \in 0..MaxClock
    /\ calls \subseteq [click : Clicks, time : 0..MaxClock, status : 1..MaxPriority, guarded : BOOLEAN]
    /\ statuses \subseteq 1..MaxPriority
    /\ click \in [Clicks -> [at : {"idle", "chosen", "looking", "inserting", "done", "refused"},
                             time : 0..MaxClock, status : 0..MaxPriority]]
    /\ together \subseteq SUBSET Clicks /\ blind \subseteq Clicks

\* Clicks within ten seconds are one call, no more and no less, whatever is done
\* to the statuses ("電話番号クリック発信の UI 連打で 1 通話が何件も記録される実害が
\* あった", create_activity_call.go:62-65): of two calls the later click could not
\* look, or the two were under way at a time, which the same comment claims too;
\* and a click that was answered is on record, by its call or by the one it was
\* taken for, however often that changes its status and statuses are deleted.
ClicksCountOnce ==
    /\ \A a, b \in calls :
          (/\ a # b /\ a.guarded /\ b.guarded
           /\ a.time <= b.time /\ b.time < a.time + Window) =>
              \/ {a.click, b.click} \in together
              \/ b.click \in blind
              \/ a.time = b.time /\ a.click \in blind
    /\ \A k \in Clicks : click[k].at = "done" => \E c \in calls : c.time + Window > click[k].time
=============================================================================

------------------------------- MODULE Redials -------------------------------
(***************************************************************************)
(* A planned call (Redial row) and its event in the user's Google Calendar *)
(* (internal/service/redial, internal/gcal).                               *)
(*                                                                         *)
(* The row is written first, then the event, then the id of the event into *)
(* the row; a failure after the row is tolerated and ResyncRedial may make *)
(* the event later. Nothing ties the three together, so the calendar may   *)
(* hold an event too many, or one with the old time.                       *)
(***************************************************************************)
EXTENDS Naturals, FiniteSets

CONSTANTS
    Requests,     \* requests at one redial; an event they make bears their name
    MaxVersion,   \* bound: versions of the row
    MaxFaults     \* bound: failed calls, lost answers, requests that are cut off

None == "none"

VARIABLES
    redial,     \* the row: version (0 = none), event (gcal_event_id)
    calendar,   \* version of each event, 0 = not in the calendar
    connected,  \* the user has a row in UserGoogleToken
    call,       \* what each request does and what it read
    slips,      \* history: what may keep row and calendar apart
    losses      \* faults so far

vars == <<redial, calendar, connected, call, slips, losses>>

NoRedial == [version |-> 0, event |-> None]

Init ==
    /\ redial = NoRedial
    /\ calendar = [k \in Requests |-> 0]
    /\ connected \in BOOLEAN
    /\ call = [k \in Requests |-> [at |-> "idle", version |-> 0, event |-> None]]
    /\ slips = {}
    /\ losses = 0

Live == redial.version > 0
Busy(k) == call[k].at \notin {"idle", "done"}
Loss == losses < MaxFaults /\ losses' = losses + 1

Go(k, where, v, id) == call' = [call EXCEPT ![k] = [at |-> where, version |-> v, event |-> id]]
End(k) == Go(k, "done", 0, None)

\* k begins; another request may be under way.
Begin(k) ==
    /\ call[k].at = "idle"
    /\ slips' = slips \cup (IF \E j \in Requests : Busy(j) THEN {"crossed"} ELSE {})

-----------------------------------------------------------------------------
CreateRedial(k) ==
    /\ Begin(k) /\ \A j \in Requests : call[j].at = "idle"
    /\ redial' = [version |-> 1, event |-> None]
    /\ IF connected THEN Go(k, "create", 1, None) ELSE End(k)
    /\ UNCHANGED <<calendar, connected, losses>>

\* Only a row without event; the row is not read again before the call.
ResyncRedial(k) ==
    /\ Begin(k) /\ Live /\ connected
    /\ IF redial.event = None THEN Go(k, "create", redial.version, None) ELSE End(k)
    /\ UNCHANGED <<redial, calendar, connected, losses>>

\* A revoked token is deleted, the row stays without event.
CreateEvent(k) ==
    /\ call[k].at = "create"
    /\ \/ /\ connected
          /\ calendar' = [calendar EXCEPT ![k] = call[k].version]
          /\ Go(k, "set", 0, k)
          /\ UNCHANGED <<connected, slips, losses>>
       \/ /\ Loss   \* the answer is lost
          /\ calendar' = [calendar EXCEPT ![k] = call[k].version]
          /\ slips' = slips \cup {"lost"}
          /\ End(k)
          /\ UNCHANGED connected
       \/ /\ Loss
          /\ connected' \in {connected, FALSE}
          /\ End(k)
          /\ UNCHANGED <<calendar, slips>>
       \/ /\ ~connected
          /\ End(k)
          /\ UNCHANGED <<calendar, connected, slips, losses>>
    /\ UNCHANGED redial

SetRedialGcalSynced(k) ==
    /\ call[k].at = "set"
    /\ \/ /\ redial' = IF Live THEN [redial EXCEPT !.event = k] ELSE redial
          /\ UNCHANGED <<slips, losses>>
       \/ Loss /\ slips' = slips \cup {"lost"} /\ UNCHANGED redial
    /\ End(k)
    /\ UNCHANGED <<calendar, connected>>

\* The event is that of the row after the update; without a token it keeps the old time.
UpdateRedial(k) ==
    /\ call[k].at = "idle" /\ Live /\ redial.version < MaxVersion
    /\ redial' = [redial EXCEPT !.version = @ + 1]
    /\ IF connected /\ redial.event # None
       THEN Go(k, "patch", redial.version + 1, redial.event) ELSE End(k)
    /\ slips' = slips \cup (IF \E j \in Requests : Busy(j) THEN {"crossed"} ELSE {})
                      \cup (IF ~connected /\ redial.event # None THEN {"unpatched"} ELSE {})
    /\ UNCHANGED <<calendar, connected, losses>>

\* Faulty: the row as it was read at the beginning of the request is sent.
PatchWithOldRow(k) ==
    /\ call[k].at = "patch"
    /\ calendar' = [calendar EXCEPT ![call[k].event] = IF @ = 0 THEN 0 ELSE call[k].version - 1]
    /\ End(k)
    /\ UNCHANGED <<redial, connected, slips, losses>>

\* An event that is gone counts as done.
PatchEvent(k) ==
    /\ call[k].at = "patch"
    /\ \/ /\ connected
          /\ calendar' = [calendar EXCEPT ![call[k].event] = IF @ = 0 THEN 0 ELSE call[k].version]
          /\ UNCHANGED <<slips, losses>>
       \/ /\ ~connected
          /\ slips' = slips \cup {"unpatched"}
          /\ UNCHANGED <<calendar, losses>>
       \/ Loss /\ slips' = slips \cup {"unpatched"} /\ UNCHANGED calendar
    /\ End(k)
    /\ UNCHANGED <<redial, connected>>

\* The event of the row as read, then the row, whatever came of the event.
DeleteRedial(k) ==
    /\ Begin(k) /\ Live
    /\ Go(k, IF redial.event = None THEN "delete" ELSE "unlist", 0, redial.event)
    /\ UNCHANGED <<redial, calendar, connected, losses>>

DeleteEvent(k) ==
    /\ call[k].at = "unlist"
    /\ \/ /\ connected
          /\ calendar' = [calendar EXCEPT ![call[k].event] = 0]
          /\ UNCHANGED <<slips, losses>>
       \/ /\ ~connected
          /\ slips' = slips \cup {"undeleted"}
          /\ UNCHANGED <<calendar, losses>>
       \/ Loss /\ slips' = slips \cup {"undeleted"} /\ UNCHANGED calendar
    /\ Go(k, "delete", 0, None)
    /\ UNCHANGED <<redial, connected>>

DeleteRow(k) ==
    /\ call[k].at = "delete"
    /\ \/ redial' = NoRedial /\ UNCHANGED <<slips, losses>>
       \/ Loss /\ slips' = slips \cup {"undeleted"} /\ UNCHANGED redial
    /\ End(k)
    /\ UNCHANGED <<calendar, connected>>

-----------------------------------------------------------------------------
\* The pod ends in the middle of a request.
CutOff(k) ==
    /\ Busy(k) /\ Loss
    /\ slips' = slips \cup {[create |-> "harmless", set |-> "lost", patch |-> "unpatched",
                             unlist |-> "harmless", delete |-> "undeleted"][call[k].at]}
    /\ End(k)
    /\ UNCHANGED <<redial, calendar, connected>>

\* OAuth callback, DisconnectGoogle.
Connection ==
    /\ connected' = ~connected
    /\ UNCHANGED <<redial, calendar, call, slips, losses>>

Next ==
    \/ \E k \in Requests :
         \/ CreateRedial(k) \/ ResyncRedial(k) \/ CreateEvent(k) \/ SetRedialGcalSynced(k)
         \/ UpdateRedial(k) \/ PatchEvent(k)
         \/ DeleteRedial(k) \/ DeleteEvent(k) \/ DeleteRow(k) \/ CutOff(k)
    \/ Connection

Spec == Init /\ [][Next]_vars

-----------------------------------------------------------------------------
(* Properties                                                              *)

Slip == {"crossed", "lost", "unpatched", "undeleted", "harmless"}

TypeOK ==
    /\ redial \in [version : 0..MaxVersion, event : Requests \cup {None}]
    /\ calendar \in [Requests -> 0..MaxVersion]
    /\ connected \in BOOLEAN
    /\ call \in [Requests -> [at : {"idle", "create", "set", "patch", "unlist", "delete", "done"},
                              version : 0..MaxVersion, event : Requests \cup {None}]]
    /\ slips \subseteq Slip
    /\ losses \in 0..MaxFaults

Quiet == \A k \in Requests : ~Busy(k)

\* The calendar shows the planned call once, at its time, exactly when the row
\* says that it is synced, and not after it was deleted ("既に gcal_event_id を
\* 持っている行に対しては no-op", resync_redial.go:16-17), also after calls that
\* failed and were made up for by a resync. Not when an answer or the id of the
\* event was lost, when a change or removal could not be sent, or when two
\* requests at the redial crossed.
EventMatchesRow ==
    (Quiet /\ slips \subseteq {"harmless"}) =>
        calendar = [k \in Requests |-> IF k = redial.event THEN redial.version ELSE 0]
=============================================================================

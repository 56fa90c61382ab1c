----------------------------- MODULE MailIngest -----------------------------
(***************************************************************************)
(* How mail gets from an IMAP account into the database: the poll loop of  *)
(* MailboxIMAPWorker (internal/mail/imap_mailbox_worker.go), the UID       *)
(* cursor and the fetch of imap.go, and ingestMessages of imap_worker.go.  *)
(*                                                                         *)
(* One mailbox with its two folders. Every pod polls it, with no lock      *)
(* between them, and keeps its own UIDCursor in memory; what they share is *)
(* the database. Mail arrives at any time, UIDVALIDITY may change, a fetch *)
(* or an insert may fail and a pod may restart, which loses its cursor.    *)
(***************************************************************************)
EXTENDS Naturals

CONSTANTS
    Pods,       \* the pods that poll
    Messages,   \* the mails that may arrive
    Kind,       \* what each mail is: one of Kinds
    Known,      \* mails whose address belongs to a customer or a contact
    Faults,     \* the kinds of fault the instance includes
    MaxFaults   \* bound: faults in one behaviour

Kinds      == {"sent", "reply", "bounce", "plain"}
Folders    == {"Sent", "INBOX"}
FaultKinds == {"fetch", "listing", "skip", "insert", "crash", "rebuild"}

ASSUME IngestConstants ==
    /\ Kind \in [Messages -> Kinds]
    /\ Known \subseteq Messages
    /\ Faults \subseteq FaultKinds
    /\ MaxFaults \in Nat

VARIABLES
    uid,       \* UID of each mail in its folder, 0 = has not arrived
    uidNext,   \* UIDNEXT of each folder
    validity,  \* UIDVALIDITY of each folder
    old,       \* mails whose INTERNALDATE lies before the look-back of a day
    synced,    \* Mailbox.synced_at is set
    stored,    \* mails with a MailboxMessage row
    answered,  \* replies and bounces attributed to a campaign recipient
    timeline,  \* mails with an Activity row
    cursor,    \* the UIDCursor of each pod, per folder; next = 0: no entry
    pc,        \* where each pod is in its poll
    poll,      \* what the poll of each pod has in its local variables
    faults,    \* faults so far
    unread,    \* history: mails a listing lost or that were skipped for good
    dropped    \* history: mails an insert or update of the database lost

serverVars  == <<uid, uidNext, validity, old>>
dbVars      == <<synced, stored, answered, timeline>>
vars == <<uid, uidNext, validity, old, synced, stored, answered, timeline,
          cursor, pc, poll, faults, unread, dropped>>

-----------------------------------------------------------------------------
FolderOf(m) == IF Kind[m] = "sent" THEN "Sent" ELSE "INBOX"

InFolder(f) == {m \in Messages : uid[m] > 0 /\ FolderOf(m) = f}

NoEntry == [validity |-> 0, next |-> 0]

\* sel is the UIDNEXT that SELECT returned; seen is the mail that was there
\* when the tick began (history).
Poll == [folder : Folders, backfill : BOOLEAN, sel : Nat, todo : SUBSET Messages,
         ok : BOOLEAN, seen : SUBSET Messages]

NoPoll == [folder |-> "Sent", backfill |-> FALSE, sel |-> 0, todo |-> {},
           ok |-> TRUE, seen |-> {}]

Init ==
    /\ uid = [m \in Messages |-> 0]
    /\ uidNext = [f \in Folders |-> 1]
    /\ validity = [f \in Folders |-> 0]
    /\ old = {}
    /\ synced = FALSE
    /\ stored = {}
    /\ answered = {}
    /\ timeline = {}
    /\ cursor = [p \in Pods |-> [f \in Folders |-> NoEntry]]
    /\ pc = [p \in Pods |-> "idle"]
    /\ poll = [p \in Pods |-> NoPoll]
    /\ faults = 0
    /\ unread = {}
    /\ dropped = {}

Fault(kind) == kind \in Faults /\ faults < MaxFaults /\ faults' = faults + 1

-----------------------------------------------------------------------------
(* One poll of one pod *)

\* ListAllActiveMailboxes: synced_at decides between backfill and a day back.
Tick(p) ==
    /\ pc[p] = "idle"
    /\ pc' = [pc EXCEPT ![p] = "select"]
    /\ poll' = [poll EXCEPT ![p] = [NoPoll EXCEPT
                    !.backfill = ~synced, !.seen = {m \in Messages : uid[m] > 0}]]
    /\ UNCHANGED <<serverVars, dbVars, cursor, faults, unread, dropped>>

\* SELECT reports UIDNEXT; mail may arrive before the SEARCH that follows.
Select(p) ==
    /\ pc[p] = "select"
    /\ poll' = [poll EXCEPT ![p] = [poll[p] EXCEPT !.sel = uidNext[poll[p].folder]]]
    /\ pc' = [pc EXCEPT ![p] = "fetch"]
    /\ UNCHANGED <<serverVars, dbVars, cursor, faults, unread, dropped>>

HasCursor(p, f) == cursor[p][f].next > 0 /\ cursor[p][f].validity = validity[f]

\* selectUIDs. No mail was ever deleted, so sel = 1 is NumMessages = 0.
Selected(p) ==
    LET f == poll[p].folder
        c == cursor[p][f]
    IN  IF poll[p].sel = 1 THEN {}
        ELSE IF poll[p].backfill THEN InFolder(f)
        ELSE IF ~HasCursor(p, f) THEN InFolder(f) \ old
        ELSE IF poll[p].sel <= c.next THEN {}
        ELSE {m \in InFolder(f) : uid[m] >= c.next}

\* The folder is done: on to INBOX, or to the end of pollOne.
NextFolder(p, q) ==
    /\ pc' = [pc EXCEPT ![p] = IF q.folder = "Sent" THEN "select" ELSE "finish"]
    /\ poll' = [poll EXCEPT ![p] = [q EXCEPT !.folder = "INBOX", !.todo = {}]]

\* A batch without mail ends the folder.
Fetched(p, msgs) ==
    IF msgs = {}
    THEN NextFolder(p, poll[p])
    ELSE /\ pc' = [pc EXCEPT ![p] = "store"]
         /\ poll' = [poll EXCEPT ![p] = [poll[p] EXCEPT !.todo = msgs]]

\* Faulty: the cursor moves to the end of the folder as it is now.
AdvanceToEnd(p) ==
    LET f == poll[p].folder
    IN  cursor' = [cursor EXCEPT ![p] = [cursor[p] EXCEPT
                      ![f] = [validity |-> validity[f], next |-> uidNext[f]]]]

\* advance(): the cursor moves to the UIDNEXT of the SELECT.
Advance(p) ==
    LET f == poll[p].folder
    IN  cursor' = [cursor EXCEPT ![p] = [cursor[p] EXCEPT
                      ![f] = [validity |-> validity[f], next |-> poll[p].sel]]]

\* SEARCH and FETCH succeed, the cursor moves, and the mails go to
\* ingestMessages.
Fetch(p) ==
    /\ pc[p] = "fetch"
    /\ Fetched(p, Selected(p))
    /\ Advance(p)
    /\ UNCHANGED <<serverVars, dbVars, faults, unread, dropped>>

\* A mail that cannot be fetched by itself is skipped (fetchResilient).
FetchSkips(p) ==
    /\ pc[p] = "fetch"
    /\ \E m \in Selected(p) :
          /\ Fetched(p, Selected(p) \ {m})
          /\ unread' = unread \cup {m}
    /\ Advance(p)
    /\ Fault("skip")
    /\ UNCHANGED <<serverVars, dbVars, dropped>>

\* uidsSince does not look at the result of its FETCH: when the server breaks
\* off, only the mails it had listed are taken.
ListingCut(p) ==
    /\ pc[p] = "fetch"
    /\ ~poll[p].backfill /\ ~HasCursor(p, poll[p].folder)
    /\ \E listed \in SUBSET Selected(p) :
          /\ listed # Selected(p)
          /\ Fetched(p, listed)
          /\ unread' = unread \cup (Selected(p) \ listed)
    /\ Advance(p)
    /\ Fault("listing")
    /\ UNCHANGED <<serverVars, dbVars, dropped>>

\* SELECT, SEARCH or FETCH ends with an error: nothing moves, allOK is false.
FetchFails(p) ==
    /\ pc[p] \in {"select", "fetch"}
    /\ NextFolder(p, [poll[p] EXCEPT !.ok = FALSE])
    /\ Fault("fetch")
    /\ UNCHANGED <<serverVars, dbVars, cursor, unread, dropped>>

\* The mail of the batch that is next, in the order of the UIDs.
Current(p, m) == m \in poll[p].todo /\ \A n \in poll[p].todo : uid[m] <= uid[n]

\* storeMailboxMessage; the UNIQUE index ignores a mail that is there already.
\* An insert that fails is only logged.
Store(p, m) ==
    /\ pc[p] = "store"
    /\ Current(p, m)
    /\ \/ /\ stored' = stored \cup {m}
          /\ UNCHANGED <<faults, dropped>>
       \/ /\ m \notin stored
          /\ Fault("insert")
          /\ dropped' = dropped \cup {m}
          /\ UNCHANGED stored
    /\ pc' = [pc EXCEPT ![p] = "file"]
    /\ UNCHANGED <<serverVars, synced, answered, timeline, cursor, poll, unread>>

\* What the rest of the loop body writes: handleCampaignBounce consumes a
\* bounce, attributeCampaignReply takes any other received mail, and an
\* Activity is made for mail of a known address.
Answers(m)   == Kind[m] \in {"reply", "bounce"}
Timelined(m) == Kind[m] # "bounce" /\ m \in Known

NextMail(p, m) ==
    IF poll[p].todo = {m}
    THEN NextFolder(p, poll[p])
    ELSE /\ pc' = [pc EXCEPT ![p] = "store"]
         /\ poll' = [poll EXCEPT ![p] = [poll[p] EXCEPT !.todo = poll[p].todo \ {m}]]

File(p, m) ==
    /\ pc[p] = "file"
    /\ Current(p, m)
    /\ \/ /\ answered' = IF Answers(m) THEN answered \cup {m} ELSE answered
          /\ timeline' = IF Timelined(m) THEN timeline \cup {m} ELSE timeline
          /\ UNCHANGED <<faults, dropped>>
       \/ /\ Answers(m) /\ m \notin answered
          /\ Fault("insert")
          /\ dropped' = dropped \cup {m}
          /\ timeline' = IF Timelined(m) THEN timeline \cup {m} ELSE timeline
          /\ UNCHANGED answered
       \/ /\ Timelined(m) /\ m \notin timeline
          /\ Fault("insert")
          /\ dropped' = dropped \cup {m}
          /\ answered' = IF Answers(m) THEN answered \cup {m} ELSE answered
          /\ UNCHANGED timeline
    /\ NextMail(p, m)
    /\ UNCHANGED <<serverVars, synced, stored, cursor, unread>>

\* Faulty: one folder is enough for the backfill to count as done.
FinishAnyway(p) ==
    /\ pc[p] = "finish"
    /\ synced' = TRUE
    /\ pc' = [pc EXCEPT ![p] = "idle"]
    /\ UNCHANGED <<serverVars, stored, answered, timeline, cursor, poll, faults,
                   unread, dropped>>

\* SetMailboxSyncedAt after a backfill that fetched both folders; when the
\* update fails the next poll is a backfill again.
Finish(p) ==
    /\ pc[p] = "finish"
    /\ \/ synced' = (synced \/ (poll[p].ok /\ poll[p].backfill)) /\ UNCHANGED faults
       \/ Fault("insert") /\ UNCHANGED synced
    /\ pc' = [pc EXCEPT ![p] = "idle"]
    /\ UNCHANGED <<serverVars, stored, answered, timeline, cursor, poll,
                   unread, dropped>>

\* Faulty: the cursor outlives the process.
CrashKeepsCursor(p) ==
    /\ Fault("crash")
    /\ pc' = [pc EXCEPT ![p] = "idle"]
    /\ poll' = [poll EXCEPT ![p] = NoPoll]
    /\ UNCHANGED <<serverVars, dbVars, cursor, unread, dropped>>

\* The pod restarts; NewUIDCursor starts empty.
Crash(p) ==
    /\ Fault("crash")
    /\ pc' = [pc EXCEPT ![p] = "idle"]
    /\ poll' = [poll EXCEPT ![p] = NoPoll]
    /\ cursor' = [cursor EXCEPT ![p] = [f \in Folders |-> NoEntry]]
    /\ UNCHANGED <<serverVars, dbVars, unread, dropped>>

-----------------------------------------------------------------------------
(* The IMAP server *)

Arrive(m) ==
    /\ uid[m] = 0
    /\ uid' = [uid EXCEPT ![m] = uidNext[FolderOf(m)]]
    /\ uidNext' = [uidNext EXCEPT ![FolderOf(m)] = @ + 1]
    /\ UNCHANGED <<validity, old, dbVars, cursor, pc, poll, faults, unread, dropped>>

\* A day goes by: the mail falls out of the look-back of uidsSince.
Age(m) ==
    /\ uid[m] > 0
    /\ m \notin old
    /\ old' = old \cup {m}
    /\ UNCHANGED <<uid, uidNext, validity, dbVars, cursor, pc, poll, faults,
                   unread, dropped>>

\* The server gives a folder another UIDVALIDITY, between two sessions that
\* have it selected. The numbers themselves may stay as they were.
Rebuild(f) ==
    /\ \A p \in Pods : ~(pc[p] = "fetch" /\ poll[p].folder = f)
    /\ Fault("rebuild")
    /\ validity' = [validity EXCEPT ![f] = @ + 1]
    /\ UNCHANGED <<uid, uidNext, old, dbVars, cursor, pc, poll, unread, dropped>>

-----------------------------------------------------------------------------
PollStep(p) ==
    \/ Tick(p) \/ Select(p) \/ Fetch(p) \/ Finish(p)
    \/ \E m \in Messages : Store(p, m) \/ File(p, m)

PollTrouble(p) == FetchSkips(p) \/ ListingCut(p) \/ FetchFails(p) \/ Crash(p)

Next ==
    \/ \E p \in Pods : PollStep(p) \/ PollTrouble(p)
    \/ \E m \in Messages : Arrive(m) \/ Age(m)
    \/ \E f \in Folders : Rebuild(f)

Spec == Init /\ [][Next]_vars

\* The ticker of every pod comes again and a poll gets to its end.
FairSpec == Spec /\ \A p \in Pods : WF_vars(PollStep(p))

-----------------------------------------------------------------------------
(* Properties *)

TypeOK ==
    /\ uid \in [Messages -> Nat]
    /\ uidNext \in [Folders -> Nat \ {0}]
    /\ validity \in [Folders -> Nat]
    /\ old \subseteq Messages
    /\ synced \in BOOLEAN
    /\ stored \subseteq Messages
    /\ answered \subseteq Messages
    /\ timeline \subseteq Messages
    /\ cursor \in [Pods -> [Folders -> [validity : Nat, next : Nat]]]
    /\ pc \in [Pods -> {"idle", "select", "fetch", "store", "file", "finish"}]
    /\ poll \in [Pods -> Poll]
    /\ \A p \in Pods : pc[p] \in {"store", "file"} <=> poll[p].todo # {}
    /\ faults \in 0..MaxFaults
    /\ unread \subseteq Messages
    /\ dropped \subseteq Messages

\* Everything ingestMessages does with a mail has been done.
Filed(m) ==
    /\ m \in stored
    /\ Answers(m) => m \in answered
    /\ Timelined(m) => m \in timeline

\* The mail behind the cursor of a pod, which this pod never looks at again.
Passed(p, m) ==
    /\ uid[m] > 0
    /\ HasCursor(p, FolderOf(m))
    /\ uid[m] < cursor[p][FolderOf(m)].next

\* The cursor never passes a mail that is neither filed nor in the batch the
\* pod is working on, except mail that was more than a day old when the pod
\* started and mail a fault took away: restarts, two pods polling at once, mail
\* that arrives during a poll and a new UIDVALIDITY lose nothing.
NothingSkipped ==
    \A p \in Pods : \A m \in Messages :
        Passed(p, m) => Filed(m) \/ m \in poll[p].todo \cup old \cup unread \cup dropped

\* synced_at is set only by a poll that filed everything both folders held when
\* it began (imap_mailbox_worker.go:104-107, 132).
SyncedMeansComplete ==
    [][~synced /\ synced' =>
         \E p \in Pods : \A m \in poll[p].seen :
             Filed(m) \/ m \in unread \cup dropped]_vars

\* Every mail is filed in the end, by one pod or another.
EveryMailFiled ==
    \A m \in Messages :
        uid[m] > 0 ~> Filed(m) \/ m \in old \cup unread \cup dropped
=============================================================================

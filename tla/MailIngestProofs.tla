--------------------------- MODULE MailIngestProofs ---------------------------
(***************************************************************************)
(* The cursor passes no mail, and synced_at is set only when both folders   *)
(* are filed, for any number of pods, mails and faults.                     *)
(***************************************************************************)
EXTENDS MailIngest, TLAPS

USE IngestConstants

\* UIDs are given once per folder, and no cursor is ahead of its folder.
Numbers ==
    /\ \A m \in Messages : uid[m] < uidNext[FolderOf(m)]
    /\ \A m, n \in Messages :
          uid[m] > 0 /\ uid[m] = uid[n] /\ FolderOf(m) = FolderOf(n) => m = n
    /\ \A p \in Pods : \A f \in Folders :
          cursor[p][f].next <= uidNext[f] /\ cursor[p][f].validity <= validity[f]

\* What a poll works with: a UIDNEXT its folder had, mail of its folder, and in
\* the second half of the loop body a mail that is stored.
Batch(p) ==
    /\ pc[p] = "fetch" => poll[p].sel <= uidNext[poll[p].folder]
    /\ \A m \in poll[p].todo : uid[m] > 0 /\ FolderOf(m) = poll[p].folder
    /\ pc[p] = "file" => \A m \in Messages : Current(p, m) => m \in stored \cup dropped

\* What NothingSkipped allows a mail behind the cursor to be.
Excused(p, m) == Filed(m) \/ m \in poll[p].todo \cup old \cup unread \cup dropped

IngestInv ==
    /\ TypeOK
    /\ Numbers
    /\ \A p \in Pods : Batch(p)
    /\ NothingSkipped

-----------------------------------------------------------------------------
(* Types *)

LEMMA FolderType == ASSUME NEW m \in Messages PROVE FolderOf(m) \in Folders
BY DEF FolderOf, Folders

LEMMA NoPollType == NoPoll \in Poll /\ NoPoll.todo = {} /\ NoEntry \in [validity : Nat, next : Nat]
BY DEF NoPoll, Poll, Folders, NoEntry

\* The part of the types that speaks of the polls.
PollsTyped ==
    /\ pc \in [Pods -> {"idle", "select", "fetch", "store", "file", "finish"}]
    /\ poll \in [Pods -> Poll]
    /\ \A p \in Pods : pc[p] \in {"store", "file"} <=> poll[p].todo # {}

OthersPoll(p) == \A q \in Pods \ {p} : pc'[q] = pc[q] /\ poll'[q] = poll[q]

LEMMA NextFolderGoes ==
    ASSUME TypeOK, NEW p \in Pods, NEW q \in Poll, NextFolder(p, q)
    PROVE  PollsTyped' /\ OthersPoll(p) /\ poll'[p].todo = {} /\ pc'[p] \in {"select", "finish"}
<1>1. [q EXCEPT !.folder = "INBOX", !.todo = {}] \in Poll
  BY DEF Poll, Folders
<1>2. /\ pc' = [pc EXCEPT ![p] = IF q.folder = "Sent" THEN "select" ELSE "finish"]
      /\ poll' = [poll EXCEPT ![p] = [q EXCEPT !.folder = "INBOX", !.todo = {}]]
  BY DEF NextFolder
<1>3. poll'[p].todo = {} /\ pc'[p] \in {"select", "finish"} /\ OthersPoll(p)
  BY <1>2 DEF TypeOK, Poll, OthersPoll
<1> QED BY <1>1, <1>2, <1>3 DEF TypeOK, PollsTyped, OthersPoll

LEMMA FetchedGoes ==
    ASSUME TypeOK, NEW p \in Pods, NEW msgs \in SUBSET Messages, Fetched(p, msgs)
    PROVE  /\ PollsTyped' /\ OthersPoll(p) /\ poll'[p].todo = msgs
           /\ msgs # {} => pc'[p] = "store" /\ poll'[p].folder = poll[p].folder
           /\ pc'[p] \in {"store", "select", "finish"}
<1>1. poll[p] \in Poll
  BY DEF TypeOK
<1>2. CASE msgs = {}
  BY <1>1, <1>2, NextFolderGoes DEF Fetched
<1>3. CASE msgs # {}
  <2>1. [poll[p] EXCEPT !.todo = msgs] \in Poll
    BY <1>1 DEF Poll
  <2>2. /\ pc' = [pc EXCEPT ![p] = "store"]
        /\ poll' = [poll EXCEPT ![p] = [poll[p] EXCEPT !.todo = msgs]]
    BY <1>3 DEF Fetched
  <2>3. poll'[p] = [poll[p] EXCEPT !.todo = msgs] /\ pc'[p] = "store" /\ OthersPoll(p)
    BY <2>2 DEF TypeOK, OthersPoll
  <2>4. poll'[p].todo = msgs /\ poll'[p].folder = poll[p].folder
    BY <1>1, <2>3 DEF Poll
  <2> QED BY <1>3, <2>1, <2>2, <2>3, <2>4 DEF TypeOK, PollsTyped, OthersPoll
<1> QED BY <1>2, <1>3

LEMMA NextMailGoes ==
    ASSUME TypeOK, NEW p \in Pods, NEW m \in poll[p].todo, NextMail(p, m)
    PROVE  /\ PollsTyped' /\ OthersPoll(p) /\ poll'[p].todo = poll[p].todo \ {m}
           /\ poll'[p].todo # {} => poll'[p].folder = poll[p].folder
           /\ pc'[p] \in {"store", "select", "finish"}
<1>1. poll[p] \in Poll
  BY DEF TypeOK
<1>2. CASE poll[p].todo = {m}
  BY <1>1, <1>2, NextFolderGoes DEF NextMail
<1>3. CASE poll[p].todo # {m}
  <2>1. poll[p].todo \ {m} # {} /\ poll[p].todo \ {m} \in SUBSET Messages
    BY <1>1, <1>3 DEF Poll
  <2>2. Fetched(p, poll[p].todo \ {m})
    BY <1>3, <2>1 DEF NextMail, Fetched
  <2> QED BY <2>1, <2>2, FetchedGoes
<1> QED BY <1>2, <1>3

LEMMA SelectedType ==
    ASSUME NEW p \in Pods
    PROVE  Selected(p) \subseteq InFolder(poll[p].folder) /\ Selected(p) \subseteq Messages
BY DEF Selected, InFolder

LEMMA AdvanceGoes ==
    ASSUME TypeOK, NEW p \in Pods, Advance(p)
    PROVE  /\ cursor' \in [Pods -> [Folders -> [validity : Nat, next : Nat]]]
           /\ \A q \in Pods \ {p} : cursor'[q] = cursor[q]
           /\ \A f \in Folders \ {poll[p].folder} : cursor'[p][f] = cursor[p][f]
           /\ cursor'[p][poll[p].folder].next = poll[p].sel
           /\ cursor'[p][poll[p].folder].validity = validity[poll[p].folder]
<1> DEFINE f == poll[p].folder
           entry == [validity |-> validity[f], next |-> poll[p].sel]
<1>1. f \in Folders /\ entry \in [validity : Nat, next : Nat]
  BY DEF TypeOK, Poll
<1>2. cursor' = [cursor EXCEPT ![p] = [cursor[p] EXCEPT ![f] = entry]]
  BY DEF Advance
<1>3. [cursor[p] EXCEPT ![f] = entry] \in [Folders -> [validity : Nat, next : Nat]]
  BY <1>1 DEF TypeOK
<1>4. cursor'[p] = [cursor[p] EXCEPT ![f] = entry]
  BY <1>2 DEF TypeOK
<1>5. cursor'[p][f] = entry /\ \A g \in Folders \ {f} : cursor'[p][g] = cursor[p][g]
  BY <1>1, <1>4 DEF TypeOK
<1> QED BY <1>2, <1>3, <1>5 DEF TypeOK

\* The steps of a poll that end a fetch, with and without a loss.
LEMMA FetchSteps ==
    ASSUME TypeOK, NEW p \in Pods, Fetch(p) \/ FetchSkips(p) \/ ListingCut(p)
    PROVE  \E msgs \in SUBSET Selected(p) :
              /\ Fetched(p, msgs)
              /\ Selected(p) \ msgs \subseteq unread'
              /\ unread \subseteq unread' /\ unread' \subseteq Messages
              /\ faults' \in 0..MaxFaults
              /\ pc[p] = "fetch" /\ Advance(p) /\ UNCHANGED <<serverVars, dbVars, dropped>>
<1>1. Selected(p) \subseteq Messages /\ unread \subseteq Messages /\ faults \in 0..MaxFaults
  BY SelectedType DEF TypeOK
<1>2. CASE Fetch(p)
  BY <1>1, <1>2 DEF Fetch
<1>3. CASE FetchSkips(p)
  <2>1. PICK m \in Selected(p) : Fetched(p, Selected(p) \ {m}) /\ unread' = unread \cup {m}
    BY <1>3 DEF FetchSkips
  <2>2. faults' \in 0..MaxFaults
    BY <1>1, <1>3 DEF FetchSkips, Fault
  <2> QED BY <1>1, <1>3, <2>1, <2>2 DEF FetchSkips
<1>4. CASE ListingCut(p)
  <2>1. PICK listed \in SUBSET Selected(p) :
           Fetched(p, listed) /\ unread' = unread \cup (Selected(p) \ listed)
    BY <1>4 DEF ListingCut
  <2>2. faults' \in 0..MaxFaults
    BY <1>1, <1>4 DEF ListingCut, Fault
  <2> QED BY <1>1, <1>4, <2>1, <2>2 DEF ListingCut
<1> QED BY <1>2, <1>3, <1>4

\* What the worker has done to a mail stays done.
Grows ==
    /\ stored \subseteq stored' /\ answered \subseteq answered' /\ timeline \subseteq timeline'
    /\ old \subseteq old' /\ unread \subseteq unread' /\ dropped \subseteq dropped'

\* The types of what is not a poll or a cursor.
RestTyped ==
    /\ uid \in [Messages -> Nat]
    /\ uidNext \in [Folders -> Nat \ {0}]
    /\ validity \in [Folders -> Nat]
    /\ old \subseteq Messages
    /\ synced \in BOOLEAN
    /\ stored \subseteq Messages /\ answered \subseteq Messages /\ timeline \subseteq Messages
    /\ faults \in 0..MaxFaults
    /\ unread \subseteq Messages /\ dropped \subseteq Messages

CursorTyped == cursor \in [Pods -> [Folders -> [validity : Nat, next : Nat]]]

LEMMA TypeParts == TypeOK <=> PollsTyped /\ RestTyped /\ CursorTyped
BY DEF TypeOK, PollsTyped, RestTyped, CursorTyped

-----------------------------------------------------------------------------
(* What a step must do to keep the invariant *)

LEMMA SkipFrame ==
    ASSUME NothingSkipped, Grows,
           \A q \in Pods : \A m \in Messages : Passed(q, m)' => Passed(q, m) \/ Excused(q, m)',
           \A q \in Pods : \A m \in Messages : m \in poll[q].todo => Excused(q, m)'
    PROVE  NothingSkipped'
<1> SUFFICES ASSUME NEW q \in Pods, NEW m \in Messages, Passed(q, m)' PROVE Excused(q, m)'
  BY DEF NothingSkipped, Excused
<1>1. CASE Passed(q, m)
  <2>1. Filed(m) => Filed(m)'
    BY DEF Filed, Grows
  <2>2. Excused(q, m)
    BY <1>1 DEF NothingSkipped, Excused
  <2> QED BY <2>1, <2>2 DEF Excused, Grows
<1> QED BY <1>1

\* Nothing moves on the server or in the cursors: nothing new is passed.
LEMMA PassedStays ==
    ASSUME UNCHANGED <<uid, validity, cursor>>, NEW q \in Pods, NEW m \in Messages, Passed(q, m)'
    PROVE  Passed(q, m)
BY DEF Passed, HasCursor

LEMMA NumbersStay == ASSUME Numbers, UNCHANGED <<serverVars, cursor>> PROVE Numbers'
BY DEF Numbers, serverVars

\* The polls of the other pods.
LEMMA OtherBatches ==
    ASSUME \A q \in Pods : Batch(q), NEW p \in Pods, OthersPoll(p), Grows, UNCHANGED <<uid, uidNext>>
    PROVE  \A q \in Pods \ {p} : Batch(q)'
BY DEF Batch, OthersPoll, Grows, Current

LEMMA IngestInit == Init => IngestInv
<1> SUFFICES ASSUME Init PROVE IngestInv
  OBVIOUS
<1>1. TypeOK
  <2>1. PollsTyped
    BY NoPollType DEF Init, PollsTyped
  <2>2. CursorTyped
    BY NoPollType DEF Init, CursorTyped
  <2>3. RestTyped
    <3>1. uid \in [Messages -> Nat] /\ uidNext \in [Folders -> Nat \ {0}] /\ validity \in [Folders -> Nat]
      BY DEF Init
    <3>2. synced \in BOOLEAN
      BY DEF Init
    <3>3. MaxFaults \in Nat /\ faults = 0
      BY DEF Init, IngestConstants
    <3>4. faults \in 0..MaxFaults
      BY <3>3
    <3> QED BY <3>1, <3>2, <3>4 DEF Init, RestTyped
  <2> QED BY <2>1, <2>2, <2>3, TypeParts
<1>2. Numbers
  BY FolderType DEF Init, Numbers, NoEntry, Folders
<1>3. \A p \in Pods : Batch(p)
  BY NoPollType DEF Init, Batch
<1>4. NothingSkipped
  BY DEF Init, NothingSkipped, Passed
<1> QED BY <1>1, <1>2, <1>3, <1>4 DEF IngestInv

-----------------------------------------------------------------------------
(* The steps of a poll *)

\* The cursor moves to the UIDNEXT of the SELECT: what lies before it was
\* behind the old cursor, is in the batch, or is too old for a pod without one.
LEMMA FetchKeeps ==
    ASSUME IngestInv, NEW p \in Pods, Fetch(p) \/ FetchSkips(p) \/ ListingCut(p)
    PROVE  IngestInv'
<1> DEFINE f == poll[p].folder
<1>1. TypeOK /\ Numbers /\ NothingSkipped /\ (\A q \in Pods : Batch(q))
  BY DEF IngestInv
<1>2. PICK msgs \in SUBSET Selected(p) :
         /\ Fetched(p, msgs)
         /\ Selected(p) \ msgs \subseteq unread'
         /\ unread \subseteq unread' /\ unread' \subseteq Messages
         /\ faults' \in 0..MaxFaults
         /\ pc[p] = "fetch" /\ Advance(p) /\ UNCHANGED <<serverVars, dbVars, dropped>>
  BY <1>1, FetchSteps
<1>3. /\ msgs \in SUBSET Messages /\ Selected(p) \subseteq InFolder(f)
      /\ PollsTyped' /\ OthersPoll(p) /\ poll'[p].todo = msgs
      /\ msgs # {} => pc'[p] = "store" /\ poll'[p].folder = f
      /\ pc'[p] \in {"store", "select", "finish"}
  BY <1>1, <1>2, SelectedType, FetchedGoes
<1>4. /\ CursorTyped'
      /\ \A q \in Pods \ {p} : cursor'[q] = cursor[q]
      /\ \A g \in Folders \ {f} : cursor'[p][g] = cursor[p][g]
      /\ cursor'[p][f].next = poll[p].sel
      /\ cursor'[p][f].validity = validity[f]
  BY <1>1, <1>2, AdvanceGoes DEF CursorTyped
<1>5. poll[p] \in Poll /\ f \in Folders /\ poll[p].sel \in Nat /\ poll[p].sel <= uidNext[f]
  BY <1>1, <1>2 DEF TypeOK, Poll, Batch
<1>6. TypeOK'
  <2>1. RestTyped'
    BY <1>1, <1>2 DEF TypeOK, RestTyped, serverVars, dbVars
  <2> QED BY <1>3, <1>4, <2>1 DEF TypeOK, PollsTyped, RestTyped, CursorTyped
<1>7. Numbers'
  <2>1. ASSUME NEW q \in Pods, NEW g \in Folders
        PROVE  cursor'[q][g].next <= uidNext[g] /\ cursor'[q][g].validity <= validity[g]
    <3>1. CASE q = p /\ g = f
      BY <1>1, <1>4, <1>5, <3>1 DEF TypeOK
    <3>2. CASE q # p \/ g # f
      BY <1>1, <1>4, <3>2 DEF Numbers
    <3> QED BY <3>1, <3>2
  <2>2. UNCHANGED <<uid, uidNext, validity>>
    BY <1>2 DEF serverVars
  <2> QED BY <1>1, <2>1, <2>2 DEF Numbers
<1>8. Grows
  BY <1>2 DEF Grows, serverVars, dbVars
<1>9. Batch(p)'
  BY <1>2, <1>3 DEF Batch, InFolder, serverVars
<1>10. \A q \in Pods : Batch(q)'
  BY <1>1, <1>2, <1>3, <1>8, <1>9, OtherBatches DEF serverVars
<1>11. ASSUME NEW m \in Messages, Passed(p, m)', FolderOf(m) = f, ~Passed(p, m)
       PROVE  m \in Selected(p) \cup old
  <2>1. m \in InFolder(f) /\ uid[m] \in Nat /\ uid[m] < poll[p].sel
    BY <1>1, <1>2, <1>4, <1>11 DEF Passed, InFolder, TypeOK, serverVars
  <2>2. poll[p].sel # 1
    BY <2>1 DEF InFolder
  <2>3. CASE poll[p].backfill
    BY <2>1, <2>2, <2>3 DEF Selected
  <2>4. CASE ~poll[p].backfill /\ ~HasCursor(p, f)
    BY <2>1, <2>2, <2>4 DEF Selected
  <2>5. CASE ~poll[p].backfill /\ HasCursor(p, f)
    <3>1. uid[m] >= cursor[p][f].next /\ cursor[p][f].next \in Nat
      BY <1>1, <1>5, <1>11, <2>1, <2>5 DEF Passed, InFolder, TypeOK
    <3>2. ~(poll[p].sel <= cursor[p][f].next)
      BY <1>5, <2>1, <3>1
    <3> QED BY <2>1, <2>2, <2>5, <3>1, <3>2 DEF Selected
  <2> QED BY <2>3, <2>4, <2>5
<1>12. ASSUME NEW q \in Pods, NEW m \in Messages, Passed(q, m)'
       PROVE  Passed(q, m) \/ Excused(q, m)'
  <2>1. CASE q # p \/ FolderOf(m) # f
    BY <1>2, <1>4, <1>12, <2>1, FolderType DEF Passed, HasCursor, serverVars
  <2>2. CASE q = p /\ FolderOf(m) = f
    BY <1>2, <1>3, <1>8, <1>11, <1>12, <2>2 DEF Excused, Grows
  <2> QED BY <2>1, <2>2
<1>13. poll[p].todo = {}
  BY <1>1, <1>2 DEF TypeOK
<1>14. \A q \in Pods : \A m \in Messages : m \in poll[q].todo => Excused(q, m)'
  BY <1>3, <1>13 DEF Excused, OthersPoll
<1>15. NothingSkipped'
  BY <1>1, <1>8, <1>12, <1>14, SkipFrame
<1> QED BY <1>6, <1>7, <1>10, <1>15 DEF IngestInv

\* A step of one pod that leaves the server, the cursors and its batch alone.
LEMMA PollKeeps ==
    ASSUME IngestInv, NEW p \in Pods, PollsTyped', OthersPoll(p), RestTyped', CursorTyped',
           Grows, UNCHANGED <<serverVars, cursor>>, Batch(p)',
           \A m \in Messages : m \in poll[p].todo => Excused(p, m)'
    PROVE  IngestInv'
<1>1. TypeOK'
  BY DEF TypeOK, PollsTyped, RestTyped, CursorTyped
<1>2. Numbers'
  BY NumbersStay DEF IngestInv
<1>3. \A q \in Pods : Batch(q)'
  BY OtherBatches DEF IngestInv, serverVars
<1>4. NothingSkipped'
  <2>1. \A q \in Pods : \A m \in Messages : Passed(q, m)' => Passed(q, m)
    BY PassedStays DEF serverVars
  <2>2. \A q \in Pods : \A m \in Messages : m \in poll[q].todo => Excused(q, m)'
    BY DEF OthersPoll, Excused
  <2> QED BY <2>1, <2>2, SkipFrame DEF IngestInv
<1> QED BY <1>1, <1>2, <1>3, <1>4 DEF IngestInv

\* Tick, Select, FetchFails and Finish work with an empty batch.
LEMMA EmptyBatchKeeps ==
    ASSUME IngestInv, NEW p \in Pods, Tick(p) \/ Select(p) \/ FetchFails(p) \/ Finish(p)
    PROVE  IngestInv'
<1>1. TypeOK /\ (\A q \in Pods : Batch(q)) /\ PollsTyped /\ RestTyped /\ CursorTyped
  BY TypeParts DEF IngestInv
<1>2. poll[p].todo = {} /\ poll[p] \in Poll
  BY <1>1 DEF TypeOK, Tick, Select, FetchFails, Finish
<1>3. UNCHANGED <<serverVars, cursor, stored, answered, timeline, unread, dropped>>
  BY DEF Tick, Select, FetchFails, Finish, dbVars
<1>4. RestTyped' /\ CursorTyped' /\ Grows
  <2>1. faults' \in 0..MaxFaults
    BY <1>1 DEF RestTyped, Tick, Select, FetchFails, Finish, Fault
  <2>2. synced' \in BOOLEAN
    BY <1>1 DEF RestTyped, Tick, Select, FetchFails, Finish, dbVars
  <2> QED BY <1>1, <1>3, <2>1, <2>2 DEF RestTyped, CursorTyped, Grows, serverVars
<1>5. PollsTyped' /\ OthersPoll(p) /\ Batch(p)'
  <2>1. CASE Tick(p)
    <3> DEFINE new == [NoPoll EXCEPT !.backfill = ~synced, !.seen = {m \in Messages : uid[m] > 0}]
    <3>1. new \in Poll /\ new.todo = {}
      BY DEF NoPoll, Poll, Folders
    <3>2. pc' = [pc EXCEPT ![p] = "select"] /\ poll' = [poll EXCEPT ![p] = new]
      BY <2>1 DEF Tick
    <3> HIDE DEF new
    <3> QED BY <1>1, <3>1, <3>2 DEF PollsTyped, OthersPoll, Batch
  <2>2. CASE Select(p)
    <3> DEFINE new == [poll[p] EXCEPT !.sel = uidNext[poll[p].folder]]
    <3>1. /\ new \in Poll /\ new.todo = {} /\ new.folder = poll[p].folder
          /\ new.sel = uidNext[poll[p].folder] /\ new.sel \in Nat
      BY <1>1, <1>2 DEF Poll, RestTyped
    <3>2. pc' = [pc EXCEPT ![p] = "fetch"] /\ poll' = [poll EXCEPT ![p] = new]
      BY <2>2 DEF Select
    <3>3. UNCHANGED uidNext
      BY <1>3 DEF serverVars
    <3> HIDE DEF new
    <3> QED BY <1>1, <3>1, <3>2, <3>3 DEF PollsTyped, OthersPoll, Batch
  <2>3. CASE FetchFails(p)
    <3>1. [poll[p] EXCEPT !.ok = FALSE] \in Poll
      BY <1>2 DEF Poll
    <3>2. /\ PollsTyped' /\ OthersPoll(p) /\ poll'[p].todo = {}
          /\ pc'[p] \in {"select", "finish"}
      BY <1>1, <2>3, <3>1, NextFolderGoes DEF FetchFails
    <3> QED BY <3>2 DEF Batch
  <2>4. CASE Finish(p)
    BY <1>1, <1>2, <2>4 DEF Finish, PollsTyped, OthersPoll, Batch
  <2> QED BY <2>1, <2>2, <2>3, <2>4
<1> QED BY <1>2, <1>3, <1>4, <1>5, PollKeeps

\* The mail that is stored is the one the loop body goes on with.
LEMMA StoreKeeps ==
    ASSUME IngestInv, NEW p \in Pods, NEW m \in Messages, Store(p, m)
    PROVE  IngestInv'
<1>1. TypeOK /\ Numbers /\ Batch(p) /\ PollsTyped /\ RestTyped /\ CursorTyped
  BY TypeParts DEF IngestInv
<1>2. /\ UNCHANGED <<serverVars, synced, answered, timeline, cursor, poll, unread>>
      /\ pc' = [pc EXCEPT ![p] = "file"]
      /\ Current(p, m) /\ pc[p] = "store"
      /\ m \in stored' \cup dropped' /\ stored \subseteq stored' /\ dropped \subseteq dropped'
      /\ stored' \subseteq Messages /\ dropped' \subseteq Messages /\ faults' \in 0..MaxFaults
  BY <1>1 DEF Store, RestTyped, Fault
<1>3. RestTyped' /\ CursorTyped' /\ Grows /\ PollsTyped' /\ OthersPoll(p)
  BY <1>1, <1>2 DEF RestTyped, CursorTyped, Grows, PollsTyped, OthersPoll, serverVars
<1>4. ASSUME NEW n \in Messages, Current(p, n) PROVE n = m
  <2>1. n \in poll[p].todo /\ m \in poll[p].todo /\ uid[n] <= uid[m] /\ uid[m] <= uid[n]
    BY <1>2, <1>4 DEF Current
  <2>2. uid[n] \in Nat /\ uid[m] \in Nat /\ uid[m] > 0 /\ FolderOf(n) = FolderOf(m)
    BY <1>1, <2>1 DEF Batch, TypeOK
  <2> QED BY <1>1, <2>1, <2>2 DEF Numbers
<1>5. Batch(p)'
  <2>1. \A n \in Messages : Current(p, n)' => Current(p, n)
    BY <1>2 DEF Current, serverVars
  <2>2. \A n \in poll'[p].todo : uid'[n] > 0 /\ FolderOf(n) = poll'[p].folder
    BY <1>1, <1>2 DEF Batch, serverVars
  <2>3. pc'[p] = "file"
    BY <1>1, <1>2 DEF PollsTyped
  <2> QED BY <1>2, <1>4, <2>1, <2>2, <2>3 DEF Batch
<1>6. \A n \in Messages : n \in poll[p].todo => Excused(p, n)'
  BY <1>2 DEF Excused
<1> QED BY <1>2, <1>3, <1>5, <1>6, PollKeeps

\* A mail leaves the batch when all is done to it, or a fault took it away.
LEMMA FileKeeps ==
    ASSUME IngestInv, NEW p \in Pods, NEW m \in Messages, File(p, m)
    PROVE  IngestInv'
<1>1. TypeOK /\ Numbers /\ Batch(p) /\ PollsTyped /\ RestTyped /\ CursorTyped
  BY TypeParts DEF IngestInv
<1>2. /\ UNCHANGED <<serverVars, synced, stored, cursor, unread>>
      /\ NextMail(p, m) /\ m \in poll[p].todo /\ m \in stored \cup dropped
      /\ answered \subseteq answered' /\ timeline \subseteq timeline' /\ dropped \subseteq dropped'
      /\ m \in dropped' \/ ((Answers(m) => m \in answered') /\ (Timelined(m) => m \in timeline'))
      /\ answered' \subseteq Messages /\ timeline' \subseteq Messages /\ dropped' \subseteq Messages
      /\ faults' \in 0..MaxFaults
  BY <1>1 DEF File, RestTyped, Fault, Batch, Current
<1>3. /\ PollsTyped' /\ OthersPoll(p) /\ poll'[p].todo = poll[p].todo \ {m}
      /\ poll'[p].todo # {} => poll'[p].folder = poll[p].folder
      /\ pc'[p] \in {"store", "select", "finish"}
  BY <1>1, <1>2, NextMailGoes
<1>4. RestTyped' /\ CursorTyped' /\ Grows
  BY <1>1, <1>2 DEF RestTyped, CursorTyped, Grows, serverVars
<1>5. Batch(p)'
  BY <1>1, <1>2, <1>3 DEF Batch, serverVars
<1>6. Excused(p, m)'
  BY <1>2 DEF Excused, Filed, Answers, Timelined
<1>7. \A n \in Messages : n \in poll[p].todo => Excused(p, n)'
  BY <1>3, <1>6 DEF Excused
<1> QED BY <1>2, <1>3, <1>4, <1>5, <1>7, PollKeeps

\* A pod that restarts has no cursor, so it has passed nothing.
LEMMA CrashKeeps == ASSUME IngestInv, NEW p \in Pods, Crash(p) PROVE IngestInv'
<1>1. TypeOK /\ Numbers /\ (\A q \in Pods : Batch(q)) /\ PollsTyped /\ RestTyped /\ CursorTyped
  BY TypeParts DEF IngestInv
<1>2. /\ pc' = [pc EXCEPT ![p] = "idle"] /\ poll' = [poll EXCEPT ![p] = NoPoll]
      /\ cursor' = [cursor EXCEPT ![p] = [f \in Folders |-> NoEntry]]
      /\ UNCHANGED <<serverVars, dbVars, unread, dropped>> /\ faults' \in 0..MaxFaults
  BY <1>1 DEF Crash, Fault, RestTyped
<1>3. PollsTyped' /\ OthersPoll(p) /\ RestTyped' /\ Grows /\ Batch(p)'
  BY <1>1, <1>2, NoPollType DEF PollsTyped, OthersPoll, RestTyped, Grows, Batch, serverVars, dbVars
<1>4. /\ CursorTyped' /\ \A q \in Pods \ {p} : cursor'[q] = cursor[q]
      /\ \A f \in Folders : cursor'[p][f].next = 0 /\ cursor'[p][f].validity = 0
  BY <1>1, <1>2, NoPollType DEF CursorTyped, NoEntry
<1>5. Numbers'
  <2>1. ASSUME NEW q \in Pods, NEW g \in Folders
        PROVE  cursor'[q][g].next <= uidNext[g] /\ cursor'[q][g].validity <= validity[g]
    <3>1. CASE q = p
      BY <1>1, <1>4, <3>1 DEF RestTyped
    <3>2. CASE q # p
      BY <1>1, <1>4, <3>2 DEF Numbers
    <3> QED BY <3>1, <3>2
  <2>2. UNCHANGED <<uid, uidNext, validity>>
    BY <1>2 DEF serverVars
  <2> QED BY <1>1, <2>1, <2>2 DEF Numbers
<1>6. NothingSkipped'
  <2> SUFFICES ASSUME NEW q \in Pods, NEW m \in Messages, Passed(q, m)' PROVE Excused(q, m)'
    BY DEF NothingSkipped, Excused
  <2>1. q # p
    BY <1>4, FolderType DEF Passed, HasCursor
  <2>2. Passed(q, m)
    BY <1>2, <1>4, <2>1 DEF Passed, HasCursor, serverVars
  <2>3. Filed(m) => Filed(m)'
    BY <1>2 DEF Filed, dbVars
  <2> QED BY <1>2, <1>3, <2>1, <2>2, <2>3 DEF IngestInv, NothingSkipped, Excused, OthersPoll, serverVars
<1>7. \A q \in Pods : Batch(q)'
  BY <1>1, <1>2, <1>3, OtherBatches DEF serverVars
<1> QED BY <1>3, <1>4, <1>5, <1>6, <1>7 DEF IngestInv, TypeOK, PollsTyped, RestTyped, CursorTyped

-----------------------------------------------------------------------------
(* The steps of the server *)

\* New mail gets a number no cursor has passed.
LEMMA ArriveKeeps == ASSUME IngestInv, NEW m \in Messages, Arrive(m) PROVE IngestInv'
<1> DEFINE f == FolderOf(m)
<1>1. TypeOK /\ Numbers /\ (\A q \in Pods : Batch(q)) /\ PollsTyped /\ RestTyped /\ CursorTyped
  BY TypeParts DEF IngestInv
<1>2. /\ uid[m] = 0 /\ f \in Folders
      /\ uid' = [uid EXCEPT ![m] = uidNext[f]]
      /\ uidNext' = [uidNext EXCEPT ![f] = uidNext[f] + 1]
      /\ UNCHANGED <<validity, old, dbVars, cursor, pc, poll, faults, unread, dropped>>
  BY FolderType DEF Arrive
<1>3. /\ uid'[m] = uidNext[f] /\ \A n \in Messages \ {m} : uid'[n] = uid[n]
      /\ uidNext'[f] = uidNext[f] + 1 /\ \A g \in Folders \ {f} : uidNext'[g] = uidNext[g]
      /\ uidNext[f] \in Nat /\ uidNext[f] > 0
  BY <1>1, <1>2 DEF RestTyped
<1>4. TypeOK'
  BY <1>1, <1>2, <1>3 DEF TypeOK, dbVars
<1>5. Numbers'
  <2>1. \A n \in Messages : uid'[n] < uidNext'[FolderOf(n)]
    BY <1>1, <1>2, <1>3, FolderType DEF Numbers, RestTyped
  <2>2. ASSUME NEW n \in Messages, NEW o \in Messages, uid'[n] > 0, uid'[n] = uid'[o],
               FolderOf(n) = FolderOf(o)
        PROVE  n = o
    <3>1. CASE n = m /\ o # m
      BY <1>1, <1>3, <2>2, <3>1 DEF Numbers, RestTyped
    <3>2. CASE o = m /\ n # m
      BY <1>1, <1>3, <2>2, <3>2 DEF Numbers, RestTyped
    <3>3. CASE n # m /\ o # m
      BY <1>1, <1>3, <2>2, <3>3 DEF Numbers
    <3> QED BY <3>1, <3>2, <3>3
  <2>3. ASSUME NEW q \in Pods, NEW g \in Folders
        PROVE  cursor[q][g].next <= uidNext'[g] /\ cursor[q][g].validity <= validity[g]
    <3>1. /\ cursor[q][g].next <= uidNext[g] /\ cursor[q][g].validity <= validity[g]
          /\ cursor[q][g].next \in Nat /\ uidNext[g] \in Nat
      BY <1>1 DEF Numbers, TypeOK
    <3>2. uidNext'[g] >= uidNext[g]
      BY <1>3, <3>1
    <3> QED BY <1>3, <3>1, <3>2
  <2> QED BY <1>2, <2>1, <2>2, <2>3 DEF Numbers
<1>6. ASSUME NEW q \in Pods PROVE Batch(q)'
  <2>1. m \notin poll[q].todo
    BY <1>1, <1>2 DEF Batch
  <2>2. poll[q].todo \subseteq Messages /\ poll[q] \in Poll
    BY <1>1 DEF TypeOK, Poll
  <2>3. \A n \in poll[q].todo : uid'[n] = uid[n]
    BY <1>3, <2>1, <2>2
  <2>4. pc[q] = "fetch" => poll[q].sel <= uidNext'[poll[q].folder]
    <3>1. poll[q].folder \in Folders /\ poll[q].sel \in Nat /\ uidNext[poll[q].folder] \in Nat
      BY <1>1, <2>2 DEF Poll, RestTyped
    <3> QED BY <1>1, <1>3, <3>1 DEF Batch
  <2>5. pc[q] = "file" => \A n \in Messages : Current(q, n)' => n \in stored \cup dropped
    BY <1>1, <1>2, <2>3 DEF Batch, Current
  <2> QED BY <1>1, <1>2, <2>3, <2>4, <2>5 DEF Batch, dbVars
<1>7. NothingSkipped'
  <2>1. ASSUME NEW q \in Pods, NEW n \in Messages, Passed(q, n)' PROVE Passed(q, n)
    <3>1. n # m
      BY <1>1, <1>2, <1>3, <2>1 DEF Passed, Numbers, TypeOK
    <3> QED BY <1>2, <1>3, <2>1, <3>1 DEF Passed, HasCursor
  <2>2. Grows
    BY <1>2 DEF Grows, dbVars
  <2>3. \A q \in Pods : \A n \in Messages : n \in poll[q].todo => Excused(q, n)'
    BY <1>2 DEF Excused
  <2> QED BY <2>1, <2>2, <2>3, SkipFrame DEF IngestInv
<1> QED BY <1>4, <1>5, <1>6, <1>7 DEF IngestInv

\* A folder whose UIDVALIDITY changes has no cursor any more.
LEMMA RebuildKeeps == ASSUME IngestInv, NEW f \in Folders, Rebuild(f) PROVE IngestInv'
<1>1. TypeOK /\ Numbers /\ (\A q \in Pods : Batch(q)) /\ PollsTyped /\ RestTyped /\ CursorTyped
  BY TypeParts DEF IngestInv
<1>2. /\ validity' = [validity EXCEPT ![f] = validity[f] + 1] /\ faults' \in 0..MaxFaults
      /\ UNCHANGED <<uid, uidNext, old, dbVars, cursor, pc, poll, unread, dropped>>
  BY <1>1 DEF Rebuild, Fault, RestTyped
<1>3. /\ validity'[f] = validity[f] + 1 /\ \A g \in Folders \ {f} : validity'[g] = validity[g]
      /\ validity \in [Folders -> Nat] /\ validity' \in [Folders -> Nat]
  BY <1>1, <1>2 DEF RestTyped
<1>4. TypeOK'
  BY <1>1, <1>2, <1>3 DEF TypeOK, dbVars
<1>5. ASSUME NEW q \in Pods, NEW g \in Folders
      PROVE  /\ cursor[q][g].validity \in Nat /\ cursor[q][g].validity <= validity[g]
             /\ cursor[q][g].validity <= validity'[g]
             /\ cursor[q][g].validity = validity'[g] => cursor[q][g].validity = validity[g]
  <2>1. cursor[q][g].validity \in Nat /\ cursor[q][g].validity <= validity[g]
    BY <1>1 DEF Numbers, CursorTyped
  <2> QED BY <1>3, <2>1
<1>6. Numbers'
  BY <1>1, <1>2, <1>5 DEF Numbers
<1>7. \A q \in Pods : Batch(q)'
  BY <1>1, <1>2 DEF Batch, Current, dbVars
<1>8. NothingSkipped'
  <2>1. \A q \in Pods : \A m \in Messages : Passed(q, m)' => Passed(q, m)
    BY <1>2, <1>5, FolderType DEF Passed, HasCursor
  <2>2. Grows
    BY <1>2 DEF Grows, dbVars
  <2>3. \A q \in Pods : \A n \in Messages : n \in poll[q].todo => Excused(q, n)'
    BY <1>2 DEF Excused
  <2> QED BY <2>1, <2>2, <2>3, SkipFrame DEF IngestInv
<1> QED BY <1>4, <1>6, <1>7, <1>8 DEF IngestInv

\* A day goes by, or nothing happens.
LEMMA AgeKeeps ==
    ASSUME IngestInv, UNCHANGED vars \/ \E m \in Messages : Age(m)
    PROVE  IngestInv'
<1>1. /\ UNCHANGED <<uid, uidNext, validity, dbVars, cursor, pc, poll, faults, unread, dropped>>
      /\ old \subseteq old' /\ old' \subseteq Messages
  BY DEF Age, vars, dbVars, IngestInv, TypeOK
<1>2. TypeOK'
  BY <1>1 DEF IngestInv, TypeOK, dbVars
<1>3. Numbers' /\ \A p \in Pods : Batch(p)'
  BY <1>1 DEF IngestInv, Numbers, Batch, Current, dbVars
<1>4. NothingSkipped'
  BY <1>1 DEF IngestInv, NothingSkipped, Passed, HasCursor, Filed, dbVars
<1> QED BY <1>2, <1>3, <1>4 DEF IngestInv

LEMMA IngestStep == IngestInv /\ [Next]_vars => IngestInv'
BY FetchKeeps, EmptyBatchKeeps, StoreKeeps, FileKeeps, CrashKeeps, ArriveKeeps, RebuildKeeps, AgeKeeps
   DEF Next, PollStep, PollTrouble

\* The cursor never passes a mail that is neither filed nor at hand, but for
\* what was too old when the pod started and what a fault took away.
THEOREM CursorSkipsNothing == Spec => []NothingSkipped
<1>1. IngestInv => NothingSkipped
  BY DEF IngestInv
<1> QED BY <1>1, IngestInit, IngestStep, PTL DEF Spec

\* Every reachable state of the polls is well typed.
THEOREM IngestTypeCorrect == Spec => []TypeOK
<1>1. IngestInv => TypeOK
  BY DEF IngestInv
<1> QED BY <1>1, IngestInit, IngestStep, PTL DEF Spec

-----------------------------------------------------------------------------
(* What synced_at promises *)

Safe(m) == Filed(m) \/ m \in unread \cup dropped

\* A backfill that may still end with synced_at.
Backfilling(p) == pc[p] # "idle" /\ poll[p].backfill /\ poll[p].ok

\* The poll is done with a folder.
Behind(p, f) == pc[p] = "finish" \/ (f = "Sent" /\ poll[p].folder = "INBOX")

\* What a backfill has done to the mails that were there when it began: those
\* of the folders behind it are filed, those of its folder filed or at hand,
\* and a folder that holds one is not taken for empty.
ReadSoFar(p) ==
    Backfilling(p) => \A m \in poll[p].seen :
        /\ uid[m] > 0
        /\ (pc[p] = "fetch" /\ FolderOf(m) = poll[p].folder) => poll[p].sel # 1
        /\ Behind(p, FolderOf(m)) => Safe(m)
        /\ (pc[p] \in {"store", "file"} /\ FolderOf(m) = poll[p].folder)
              => (Safe(m) \/ m \in poll[p].todo)

SyncInv == IngestInv /\ \A p \in Pods : ReadSoFar(p)

LEMMA NextFolderKeeps ==
    ASSUME TypeOK, NEW p \in Pods, NEW q \in Poll, NextFolder(p, q)
    PROVE  /\ pc'[p] = IF q.folder = "Sent" THEN "select" ELSE "finish"
           /\ poll'[p].folder = "INBOX" /\ poll'[p].seen = q.seen
           /\ poll'[p].ok = q.ok /\ poll'[p].backfill = q.backfill
<1>1. pc'[p] = IF q.folder = "Sent" THEN "select" ELSE "finish"
  BY DEF NextFolder, TypeOK
<1>2. poll'[p] = [q EXCEPT !.folder = "INBOX", !.todo = {}]
  BY DEF NextFolder, TypeOK
<1> QED BY <1>1, <1>2 DEF Poll

LEMMA BatchGoesOn ==
    ASSUME TypeOK, NEW p \in Pods, NEW msgs \in SUBSET Messages, msgs # {}, Fetched(p, msgs)
    PROVE  /\ pc'[p] = "store" /\ poll'[p].todo = msgs
           /\ poll'[p].folder = poll[p].folder /\ poll'[p].seen = poll[p].seen
           /\ poll'[p].ok = poll[p].ok /\ poll'[p].backfill = poll[p].backfill
<1>1. poll[p] \in Poll
  BY DEF TypeOK
<1>2. pc'[p] = "store" /\ poll'[p] = [poll[p] EXCEPT !.todo = msgs]
  BY DEF Fetched, TypeOK
<1> QED BY <1>1, <1>2 DEF Poll

\* The folder of the poll is at its end, with all its mail filed.
LEMMA FolderDone ==
    ASSUME TypeOK, NEW p \in Pods, ReadSoFar(p), NextFolder(p, poll[p]), Grows, UNCHANGED uid,
           pc[p] \in {"fetch", "file"},
           Backfilling(p) => \A m \in poll[p].seen : FolderOf(m) = poll[p].folder => Safe(m)'
    PROVE  ReadSoFar(p)'
<1>1. poll[p] \in Poll
  BY DEF TypeOK
<1>2. /\ pc'[p] = IF poll[p].folder = "Sent" THEN "select" ELSE "finish"
      /\ poll'[p].folder = "INBOX" /\ poll'[p].seen = poll[p].seen
      /\ poll'[p].ok = poll[p].ok /\ poll'[p].backfill = poll[p].backfill
  BY <1>1, NextFolderKeeps
<1> SUFFICES ASSUME Backfilling(p)', NEW m \in poll[p].seen
             PROVE  uid'[m] > 0 /\ (Behind(p, FolderOf(m))' => Safe(m)')
  BY <1>2 DEF ReadSoFar, Behind
<1>3. Backfilling(p)
  BY <1>2 DEF Backfilling
<1>4. uid[m] > 0 /\ (Behind(p, FolderOf(m)) => Safe(m))
  BY <1>3 DEF ReadSoFar
<1>5. Safe(m) => Safe(m)'
  BY DEF Safe, Filed, Grows
<1>6. ASSUME Behind(p, FolderOf(m))' PROVE FolderOf(m) = poll[p].folder \/ Behind(p, FolderOf(m))
  <2>1. m \in Messages /\ FolderOf(m) \in Folders /\ poll[p].folder \in Folders
    BY <1>1, FolderType DEF Poll
  <2> QED BY <1>2, <1>6, <2>1 DEF Behind, Folders
<1> QED BY <1>3, <1>4, <1>5, <1>6

\* A backfill selects all that its folder holds.
LEMMA BackfillSelects ==
    ASSUME TypeOK, NEW p \in Pods, ReadSoFar(p), Backfilling(p), pc[p] = "fetch",
           NEW m \in poll[p].seen, FolderOf(m) = poll[p].folder
    PROVE  m \in Selected(p)
<1>1. m \in Messages /\ uid[m] > 0 /\ poll[p].sel # 1
  BY DEF ReadSoFar, TypeOK, Poll
<1> QED BY <1>1 DEF Selected, InFolder, Backfilling

LEMMA FetchReads ==
    ASSUME SyncInv, NEW p \in Pods, Fetch(p) \/ FetchSkips(p) \/ ListingCut(p)
    PROVE  ReadSoFar(p)'
<1>1. TypeOK /\ ReadSoFar(p)
  BY DEF SyncInv, IngestInv
<1>2. PICK msgs \in SUBSET Selected(p) :
         /\ Fetched(p, msgs)
         /\ Selected(p) \ msgs \subseteq unread'
         /\ unread \subseteq unread' /\ unread' \subseteq Messages
         /\ faults' \in 0..MaxFaults
         /\ pc[p] = "fetch" /\ Advance(p) /\ UNCHANGED <<serverVars, dbVars, dropped>>
  BY <1>1, FetchSteps
<1>3. Grows /\ UNCHANGED uid
  BY <1>2 DEF Grows, serverVars, dbVars
<1>4. ASSUME Backfilling(p), NEW m \in poll[p].seen, FolderOf(m) = poll[p].folder
      PROVE  m \in msgs \/ Safe(m)'
  <2>1. m \in Selected(p)
    BY <1>1, <1>2, <1>4, BackfillSelects
  <2> QED BY <1>2, <2>1 DEF Safe
<1>5. CASE msgs = {}
  <2>1. NextFolder(p, poll[p])
    BY <1>2, <1>5 DEF Fetched
  <2> QED BY <1>1, <1>2, <1>3, <1>4, <1>5, <2>1, FolderDone
<1>6. CASE msgs # {}
  <2>1. msgs \in SUBSET Messages
    BY SelectedType
  <2>2. /\ pc'[p] = "store" /\ poll'[p].todo = msgs
        /\ poll'[p].folder = poll[p].folder /\ poll'[p].seen = poll[p].seen
        /\ poll'[p].ok = poll[p].ok /\ poll'[p].backfill = poll[p].backfill
    BY <1>1, <1>2, <1>6, <2>1, BatchGoesOn
  <2> SUFFICES ASSUME Backfilling(p)', NEW m \in poll[p].seen
               PROVE  /\ uid'[m] > 0
                      /\ Behind(p, FolderOf(m))' => Safe(m)'
                      /\ FolderOf(m) = poll[p].folder => (Safe(m)' \/ m \in msgs)
    BY <2>2 DEF ReadSoFar
  <2>3. Backfilling(p)
    BY <1>2, <2>2 DEF Backfilling
  <2>4. uid[m] > 0 /\ (Behind(p, FolderOf(m)) => Safe(m))
    BY <1>1, <2>3 DEF ReadSoFar
  <2>5. Safe(m) => Safe(m)'
    BY <1>3 DEF Safe, Filed, Grows
  <2>6. Behind(p, FolderOf(m))' => Behind(p, FolderOf(m))
    BY <2>2 DEF Behind
  <2> QED BY <1>3, <1>4, <2>3, <2>4, <2>5, <2>6
<1> QED BY <1>5, <1>6

\* A mail leaves the batch of a backfill when all is done to it.
LEMMA FileReads ==
    ASSUME SyncInv, NEW p \in Pods, NEW m \in Messages, File(p, m)
    PROVE  ReadSoFar(p)' /\ OthersPoll(p) /\ Grows
<1>1. TypeOK /\ ReadSoFar(p) /\ Batch(p) /\ poll[p] \in Poll
  BY DEF SyncInv, IngestInv, TypeOK
<1>2. /\ UNCHANGED <<serverVars, synced, stored, cursor, unread>>
      /\ NextMail(p, m) /\ m \in poll[p].todo /\ m \in stored \cup dropped /\ pc[p] = "file"
      /\ answered \subseteq answered' /\ timeline \subseteq timeline' /\ dropped \subseteq dropped'
      /\ m \in dropped' \/ ((Answers(m) => m \in answered') /\ (Timelined(m) => m \in timeline'))
  BY <1>1 DEF File, Batch, Current
<1>3. Grows /\ UNCHANGED uid
  BY <1>2 DEF Grows, serverVars
<1>4. OthersPoll(p)
  BY <1>1, <1>2, NextMailGoes
<1>5. Safe(m)'
  BY <1>2 DEF Safe, Filed, Answers, Timelined
<1>6. ASSUME Backfilling(p), NEW n \in poll[p].seen, FolderOf(n) = poll[p].folder
      PROVE  n \in poll[p].todo \ {m} \/ Safe(n)'
  <2>1. n \in poll[p].todo \/ Safe(n)
    BY <1>1, <1>2, <1>6 DEF ReadSoFar
  <2>2. Safe(n) => Safe(n)'
    BY <1>3 DEF Safe, Filed, Grows
  <2> QED BY <1>5, <2>1, <2>2
<1>7. CASE poll[p].todo = {m}
  <2>1. NextFolder(p, poll[p])
    BY <1>2, <1>7 DEF NextMail
  <2>2. ReadSoFar(p)'
    BY <1>1, <1>2, <1>3, <1>6, <1>7, <2>1, FolderDone
  <2> QED BY <1>3, <1>4, <2>2
<1>8. CASE poll[p].todo # {m}
  <2> DEFINE rest == poll[p].todo \ {m}
  <2>1. rest # {} /\ rest \in SUBSET Messages
    BY <1>1, <1>8, <1>2 DEF Poll
  <2>2. Fetched(p, rest)
    BY <1>2, <1>8, <2>1 DEF NextMail, Fetched
  <2>3. /\ pc'[p] = "store" /\ poll'[p].todo = rest
        /\ poll'[p].folder = poll[p].folder /\ poll'[p].seen = poll[p].seen
        /\ poll'[p].ok = poll[p].ok /\ poll'[p].backfill = poll[p].backfill
    BY <1>1, <2>1, <2>2, BatchGoesOn
  <2> HIDE DEF rest
  <2>4. ASSUME Backfilling(p)', NEW n \in poll[p].seen
        PROVE  /\ uid'[n] > 0
               /\ Behind(p, FolderOf(n))' => Safe(n)'
               /\ FolderOf(n) = poll[p].folder => (Safe(n)' \/ n \in rest)
    <3>1. Backfilling(p)
      BY <1>2, <2>3, <2>4 DEF Backfilling
    <3>2. uid[n] > 0 /\ (Behind(p, FolderOf(n)) => Safe(n))
      BY <1>1, <3>1, <2>4 DEF ReadSoFar
    <3>3. Safe(n) => Safe(n)'
      BY <1>3 DEF Safe, Filed, Grows
    <3>4. Behind(p, FolderOf(n))' => Behind(p, FolderOf(n))
      BY <2>3 DEF Behind
    <3>5. FolderOf(n) = poll[p].folder => (Safe(n)' \/ n \in rest)
      BY <1>6, <2>4, <3>1 DEF rest
    <3> QED BY <1>3, <3>2, <3>3, <3>4, <3>5
  <2>5. ReadSoFar(p)'
    BY <2>3, <2>4 DEF ReadSoFar
  <2> QED BY <1>3, <1>4, <2>5
<1> QED BY <1>7, <1>8

\* A poll that nothing happens to keeps what it has read.
LEMMA ReadStays ==
    ASSUME NEW q \in Pods, ReadSoFar(q), pc'[q] = pc[q], poll'[q] = poll[q], Grows,
           \A m \in Messages : uid[m] > 0 => uid'[m] > 0, TypeOK
    PROVE  ReadSoFar(q)'
<1> SUFFICES ASSUME Backfilling(q)', NEW m \in poll[q].seen
             PROVE  /\ uid'[m] > 0
                    /\ (pc[q] = "fetch" /\ FolderOf(m) = poll[q].folder) => poll[q].sel # 1
                    /\ Behind(q, FolderOf(m))' => Safe(m)'
                    /\ (pc[q] \in {"store", "file"} /\ FolderOf(m) = poll[q].folder)
                          => (Safe(m)' \/ m \in poll[q].todo)
  BY DEF ReadSoFar
<1>1. Backfilling(q) /\ (Behind(q, FolderOf(m))' <=> Behind(q, FolderOf(m)))
  BY DEF Backfilling, Behind
<1>2. Safe(m) => Safe(m)'
  BY DEF Safe, Filed, Grows
<1>3. m \in Messages
  BY DEF TypeOK, Poll
<1> QED BY <1>1, <1>2, <1>3 DEF ReadSoFar

LEMMA QuietReads ==
    ASSUME SyncInv, NEW p \in Pods, Tick(p) \/ Select(p) \/ FetchFails(p) \/ Finish(p) \/ Crash(p)
    PROVE  ReadSoFar(p)' /\ OthersPoll(p) /\ Grows /\ UNCHANGED uid
<1>1. TypeOK /\ ReadSoFar(p) /\ Numbers /\ poll[p] \in Poll
  BY DEF SyncInv, IngestInv, TypeOK
<1>2. Grows /\ UNCHANGED uid
  BY DEF Tick, Select, FetchFails, Finish, Crash, serverVars, dbVars, Grows
<1>3. OthersPoll(p)
  BY <1>1 DEF Tick, Select, FetchFails, NextFolder, Finish, Crash, TypeOK, OthersPoll
<1>4. CASE Tick(p)
  <2> DEFINE new == [NoPoll EXCEPT !.backfill = ~synced, !.seen = {m \in Messages : uid[m] > 0}]
  <2>1. new.folder = "Sent" /\ new.seen = {m \in Messages : uid[m] > 0}
    BY DEF NoPoll
  <2>2. pc'[p] = "select" /\ poll'[p] = new
    BY <1>1, <1>4 DEF Tick, TypeOK
  <2> HIDE DEF new
  <2>3. ReadSoFar(p)'
    BY <1>2, <2>1, <2>2 DEF ReadSoFar, Behind
  <2> QED BY <1>2, <1>3, <2>3
<1>5. CASE Select(p)
  <2> DEFINE new == [poll[p] EXCEPT !.sel = uidNext[poll[p].folder]]
  <2>1. /\ new.folder = poll[p].folder /\ new.seen = poll[p].seen /\ new.ok = poll[p].ok
        /\ new.backfill = poll[p].backfill /\ new.sel = uidNext[poll[p].folder]
    BY <1>1 DEF Poll
  <2>2. pc'[p] = "fetch" /\ poll'[p] = new /\ pc[p] = "select"
    BY <1>1, <1>5 DEF Select, TypeOK
  <2> HIDE DEF new
  <2> SUFFICES ASSUME Backfilling(p)', NEW m \in poll[p].seen
               PROVE  /\ uid'[m] > 0
                      /\ FolderOf(m) = poll[p].folder => uidNext[poll[p].folder] # 1
                      /\ Behind(p, FolderOf(m))' => Safe(m)'
    BY <1>2, <1>3, <2>1, <2>2 DEF ReadSoFar
  <2>3. Backfilling(p) /\ (Behind(p, FolderOf(m))' => Behind(p, FolderOf(m)))
    BY <2>1, <2>2 DEF Backfilling, Behind
  <2>4. uid[m] > 0 /\ (Behind(p, FolderOf(m)) => Safe(m))
    BY <1>1, <2>3 DEF ReadSoFar
  <2>5. Safe(m) => Safe(m)'
    BY <1>2 DEF Safe, Filed, Grows
  <2>6. m \in Messages /\ uid[m] < uidNext[FolderOf(m)] /\ uid[m] \in Nat
    BY <1>1 DEF Numbers, Poll, TypeOK
  <2> QED BY <1>2, <2>3, <2>4, <2>5, <2>6
<1>6. CASE FetchFails(p)
  <2>1. [poll[p] EXCEPT !.ok = FALSE] \in Poll /\ [poll[p] EXCEPT !.ok = FALSE].ok = FALSE
    BY <1>1 DEF Poll
  <2>2. poll'[p].ok = FALSE
    BY <1>1, <1>6, <2>1, NextFolderKeeps DEF FetchFails
  <2> QED BY <1>2, <1>3, <2>2 DEF ReadSoFar, Backfilling
<1>7. CASE Finish(p) \/ Crash(p)
  <2>1. pc'[p] = "idle"
    BY <1>1, <1>7 DEF Finish, Crash, TypeOK
  <2> QED BY <1>2, <1>3, <2>1 DEF ReadSoFar, Backfilling
<1> QED BY <1>4, <1>5, <1>6, <1>7

LEMMA StoreReads ==
    ASSUME SyncInv, NEW p \in Pods, NEW m \in Messages, Store(p, m)
    PROVE  ReadSoFar(p)' /\ OthersPoll(p) /\ Grows /\ UNCHANGED uid
<1>1. TypeOK /\ ReadSoFar(p)
  BY DEF SyncInv, IngestInv
<1>2. /\ pc' = [pc EXCEPT ![p] = "file"] /\ pc[p] = "store" /\ UNCHANGED poll
      /\ Grows /\ UNCHANGED uid
  BY DEF Store, serverVars, Grows
<1>3. pc'[p] = "file" /\ OthersPoll(p)
  BY <1>1, <1>2 DEF TypeOK, OthersPoll
<1> SUFFICES ASSUME Backfilling(p)', NEW n \in poll[p].seen
             PROVE  /\ uid'[n] > 0
                    /\ Behind(p, FolderOf(n))' => Safe(n)'
                    /\ FolderOf(n) = poll[p].folder => (Safe(n)' \/ n \in poll[p].todo)
  BY <1>2, <1>3 DEF ReadSoFar
<1>4. Backfilling(p) /\ (Behind(p, FolderOf(n))' => Behind(p, FolderOf(n)))
  BY <1>2, <1>3 DEF Backfilling, Behind
<1>5. Safe(n) => Safe(n)'
  BY <1>2 DEF Safe, Filed, Grows
<1> QED BY <1>1, <1>2, <1>4, <1>5 DEF ReadSoFar

LEMMA ServerReads ==
    ASSUME SyncInv,
           \/ \E m \in Messages : Arrive(m) \/ Age(m)
           \/ \E f \in Folders : Rebuild(f)
           \/ UNCHANGED vars
    PROVE  \A q \in Pods : ReadSoFar(q)'
<1>1. TypeOK /\ \A q \in Pods : ReadSoFar(q)
  BY DEF SyncInv, IngestInv
<1>2. Grows /\ UNCHANGED <<pc, poll>>
  BY DEF Arrive, Age, Rebuild, vars, dbVars, Grows
<1>3. \A m \in Messages : uid[m] > 0 => uid'[m] > 0
  <2>1. CASE \E m \in Messages : Arrive(m)
    <3>1. PICK m \in Messages : uid' = [uid EXCEPT ![m] = uidNext[FolderOf(m)]]
      BY <2>1 DEF Arrive
    <3>2. uidNext[FolderOf(m)] > 0
      BY <1>1, FolderType DEF TypeOK
    <3> QED BY <1>1, <3>1, <3>2 DEF TypeOK
  <2>2. CASE UNCHANGED uid
    BY <2>2
  <2> QED BY <2>1, <2>2 DEF Age, Rebuild, vars
<1> QED BY <1>1, <1>2, <1>3, ReadStays

LEMMA SyncInit == Init => SyncInv
BY IngestInit DEF SyncInv, Init, ReadSoFar, Backfilling

LEMMA SyncStep == SyncInv /\ [Next]_vars => SyncInv'
<1> SUFFICES ASSUME SyncInv, [Next]_vars PROVE SyncInv'
  OBVIOUS
<1>1. IngestInv'
  BY IngestStep DEF SyncInv
<1>2. TypeOK /\ \A q \in Pods : ReadSoFar(q)
  BY DEF SyncInv, IngestInv
<1>3. ASSUME NEW p \in Pods, ReadSoFar(p)', OthersPoll(p), Grows, UNCHANGED uid
      PROVE  \A q \in Pods : ReadSoFar(q)'
  BY <1>2, <1>3, ReadStays DEF OthersPoll
<1>4. ASSUME NEW p \in Pods, PollStep(p) \/ PollTrouble(p)
      PROVE  \A q \in Pods : ReadSoFar(q)'
  <2>1. CASE Fetch(p) \/ FetchSkips(p) \/ ListingCut(p)
    <3>1. PICK msgs \in SUBSET Selected(p) :
             /\ Fetched(p, msgs) /\ unread \subseteq unread'
             /\ UNCHANGED <<serverVars, dbVars, dropped>>
      BY <1>2, <2>1, FetchSteps
    <3>2. OthersPoll(p)
      BY <1>2, <3>1, SelectedType, FetchedGoes
    <3>3. Grows /\ UNCHANGED uid
      BY <3>1 DEF Grows, serverVars, dbVars
    <3> QED BY <1>3, <2>1, <3>2, <3>3, FetchReads
  <2>2. CASE Tick(p) \/ Select(p) \/ FetchFails(p) \/ Finish(p) \/ Crash(p)
    BY <1>3, <2>2, QuietReads
  <2>3. CASE \E m \in Messages : Store(p, m)
    BY <1>3, <2>3, StoreReads
  <2>4. CASE \E m \in Messages : File(p, m)
    <3>1. PICK m \in Messages : File(p, m)
      BY <2>4
    <3>2. UNCHANGED uid
      BY <3>1 DEF File, serverVars
    <3> QED BY <1>3, <3>1, <3>2, FileReads
  <2> QED BY <1>4, <2>1, <2>2, <2>3, <2>4 DEF PollStep, PollTrouble
<1>5. \A q \in Pods : ReadSoFar(q)'
  BY <1>4, ServerReads DEF Next
<1> QED BY <1>1, <1>5 DEF SyncInv

\* synced_at is set only by a poll that filed everything both folders held when
\* it began, for any number of pods, mails and faults.
THEOREM SyncedWhenComplete == Spec => SyncedMeansComplete
<1>1. SyncInv /\ [Next]_vars =>
          [~synced /\ synced' => \E p \in Pods : \A m \in poll[p].seen :
                                    Filed(m) \/ m \in unread \cup dropped]_vars
  <2> SUFFICES ASSUME SyncInv, Next, ~synced, synced'
               PROVE  \E p \in Pods : \A m \in poll[p].seen : Filed(m) \/ m \in unread \cup dropped
    OBVIOUS
  <2>1. TypeOK
    BY DEF SyncInv, IngestInv
  <2>2. PICK p \in Pods : Finish(p)
    BY <2>1 DEF Next, PollStep, PollTrouble, Tick, Select, Fetch, Store, File, FetchSkips,
                ListingCut, FetchFails, Crash, Arrive, Age, Rebuild, dbVars
  <2>3. pc[p] = "finish" /\ poll[p].ok /\ poll[p].backfill
    BY <2>2 DEF Finish
  <2>4. ReadSoFar(p) /\ Backfilling(p)
    BY <2>3 DEF SyncInv, Backfilling
  <2> QED BY <2>3, <2>4 DEF ReadSoFar, Behind, Safe
<1> QED BY <1>1, SyncInit, SyncStep, PTL DEF Spec, SyncedMeansComplete
=============================================================================

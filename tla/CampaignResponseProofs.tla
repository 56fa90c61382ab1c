------------------------ MODULE CampaignResponseProofs ------------------------
(***************************************************************************)
(* No signal of a recipient is lost between two handlers, and an opt-out   *)
(* is on record, for any number of handlers, rows, addresses and faults.   *)
(***************************************************************************)
EXTENDS CampaignResponse, TLAPS

USE ResponseConstants

\* The handler in c works on this row and kind.
WorksOn(c, r, k) == ~Idle(c) /\ call[c].row = r /\ EventKind(call[c].signal) = k

\* A handler that read the column before it was set still has to report, and
\* comes to the notification with the event written.
WillReport(c, r, k) ==
    WorksOn(c, r, k) /\ ~call[c].already /\ (call[c].at = "notify" => events[r][k] > 0)

Reported(r, k) == events[r][k] > 0 /\ notified[r][k] > 0

\* What a handler found set stays set.
AlreadyIsStamped ==
    \A c \in Calls : ~Idle(c) /\ call[c].already => EventKind(call[c].signal) \in stamped[call[c].row]

\* Every stamp was reported, or somebody will report it.
SomebodyReports ==
    \A r \in Rows : \A k \in stamped[r] :
        <<r, k>> \in torn \/ Reported(r, k) \/ \E c \in Calls : WillReport(c, r, k)

OnRecord(r) == Listed(r) \/ r \in unlisted \cup freed

\* The stages of an unsubscription: it is past the stamp, and past the list.
StageOf(c) ==
    /\ call[c].at \in {"suppress", "event", "notify"} /\ call[c].signal = "unsubscribe" =>
          "unsubscribe" \in stamped[call[c].row]
    /\ call[c].at \in {"event", "notify"} /\ call[c].signal = "unsubscribe" =>
          OnRecord(call[c].row)

Stages == \A c \in Calls : StageOf(c)

PromisesKept == \A r \in promised : "unsubscribe" \in stamped[r] /\ OnRecord(r)

\* Every opt-out is on record, or somebody will put it there.
WillList(c, r, k) == WorksOn(c, r, k) /\ call[c].at = "suppress"

SomebodyLists ==
    \A r \in Rows : \A k \in stamped[r] \cap {"unsubscribe", "bounce"} :
        \/ OnRecord(r) \/ <<r, k>> \in torn
        \/ \E c \in Calls : WillList(c, r, k)

-----------------------------------------------------------------------------
(* Types *)

LEMMA KindType == ASSUME NEW s \in SignalKinds PROVE EventKind(s) \in EventKinds
BY DEF EventKind, SignalKinds, EventKinds

LEMMA NoCallType == NoCall \in Call /\ NoCall.at = "idle"
BY DEF NoCall, Call, SignalKinds

LEMMA BumpType == ASSUME NEW n \in 0..2 PROVE Bump(n) \in 0..2 /\ Bump(n) > 0 /\ Bump(n) >= n
BY DEF Bump

\* What follows the stamp.
LEMMA AfterMarkType ==
    ASSUME NEW c, call[c] \in Call
    PROVE  /\ AfterMark(c) \in {"idle", "suppress", "event"}
           /\ call[c].signal = "unsubscribe" => AfterMark(c) = "suppress"
           /\ AfterMark(c) = "suppress" => call[c].signal \in {"unsubscribe", "hard"}
           /\ call[c].signal \in {"unsubscribe", "hard"} => AfterMark(c) = "suppress"
           /\ ~call[c].already => AfterMark(c) # "idle"
BY DEF AfterMark, Call, SignalKinds

\* A handler goes on, or its slot is free again.
LEMMA GotoIs ==
    ASSUME call \in [Calls -> Call], NEW c \in Calls,
           NEW at \in {"idle", "mark", "suppress", "event", "notify"}, Goto(c, at)
    PROVE  /\ call' \in [Calls -> Call]
           /\ \A d \in Calls \ {c} : call'[d] = call[d]
           /\ call'[c].at = at
           /\ at # "idle" => /\ call'[c].signal = call[c].signal
                             /\ call'[c].row = call[c].row
                             /\ call'[c].already = call[c].already
<1>1. CASE at = "idle"
  BY <1>1, NoCallType DEF Goto
<1>2. CASE at # "idle"
  BY <1>2 DEF Goto, Call
<1> QED BY <1>1, <1>2

\* One more event or notification of a row and kind.
LEMMA CountUp ==
    ASSUME NEW f \in [Rows -> [EventKinds -> 0..2]], NEW r \in Rows, NEW k \in EventKinds,
           NEW g, g = OneMore(f, r, k)
    PROVE  /\ g \in [Rows -> [EventKinds -> 0..2]]
           /\ g[r][k] > 0
           /\ \A s \in Rows : \A j \in EventKinds : f[s][j] > 0 => g[s][j] > 0
<1>1. Bump(f[r][k]) \in 0..2 /\ Bump(f[r][k]) > 0
  BY BumpType
<1>2. [f[r] EXCEPT ![k] = Bump(f[r][k])] \in [EventKinds -> 0..2]
  BY <1>1
<1>3. g \in [Rows -> [EventKinds -> 0..2]]
  BY <1>2 DEF OneMore
<1>4. \A s \in Rows \ {r} : g[s] = f[s]
  BY DEF OneMore
<1>5. g[r] = [f[r] EXCEPT ![k] = Bump(f[r][k])]
  BY DEF OneMore
<1>6. g[r][k] = Bump(f[r][k]) /\ \A j \in EventKinds \ {k} : g[r][j] = f[r][j]
  BY <1>5
<1> QED BY <1>1, <1>3, <1>4, <1>6

\* One entry of the list changes.
LEMMA EntryChanges ==
    ASSUME suppression \in [Companies -> [Addresses -> Reasons]], NEW k \in Companies,
           NEW a \in Addresses, NEW reason \in Reasons, Enter(k, a, reason)
    PROVE  /\ suppression' \in [Companies -> [Addresses -> Reasons]]
           /\ suppression'[k][a] = reason
           /\ \A m \in Companies : \A b \in Addresses :
                 m # k \/ b # a => suppression'[m][b] = suppression[m][b]
<1>1. /\ suppression'[k] = [suppression[k] EXCEPT ![a] = reason]
      /\ \A m \in Companies \ {k} : suppression'[m] = suppression[m]
  BY DEF Enter
<1>2. /\ suppression'[k][a] = reason
      /\ \A b \in Addresses \ {a} : suppression'[k][b] = suppression[k][b]
  BY <1>1
<1>3. [suppression[k] EXCEPT ![a] = reason] \in [Addresses -> Reasons]
  OBVIOUS
<1>4. suppression' \in [Companies -> [Addresses -> Reasons]]
  BY <1>3 DEF Enter
<1> QED BY <1>1, <1>2, <1>4

\* Only an unsubscription and a hard bounce come to the list.
ListedSignals == \A c \in Calls : call[c].at = "suppress" => call[c].signal \in {"unsubscribe", "hard"}

TypeInv == TypeOK /\ ListedSignals

\* What becomes of the handler in c: it goes on to a stage, the others stay.
Goes(c, stage) ==
    /\ call' \in [Calls -> Call]
    /\ \A d \in Calls \ {c} : call'[d] = call[d]
    /\ call'[c].at = stage
    /\ stage # "idle" => /\ call'[c].signal = call[c].signal
                         /\ call'[c].row = call[c].row
                         /\ call'[c].already = call[c].already

LEMMA GotoGoes ==
    ASSUME TypeInv, NEW c \in Calls,
           NEW at \in {"idle", "mark", "suppress", "event", "notify"}, Goto(c, at)
    PROVE  Goes(c, at)
BY GotoIs DEF Goes, TypeInv, TypeOK

LEMMA TypeInit == Init => TypeInv
BY NoCallType DEF Init, TypeInv, TypeOK, ListedSignals, Reasons

\* A handler begins on a row, with what the row says.
LEMMA ReadGoes ==
    ASSUME TypeInv, NEW c \in Calls, NEW signal \in Signals, NEW r \in Rows, Read(c, signal, r)
    PROVE  /\ call' \in [Calls -> Call]
           /\ \A d \in Calls \ {c} : call'[d] = call[d]
           /\ call'[c].at = "mark" /\ call'[c].signal = signal /\ call'[c].row = r
           /\ call'[c].already => EventKind(signal) \in stamped[r]
<1>1. [at |-> "mark", signal |-> signal, row |-> r,
       already |-> EventKind(signal) \in stamped[r]] \in Call
  BY DEF Call
<1> QED BY <1>1 DEF Read, TypeInv, TypeOK

\* Where each of the other steps takes the handler.
LEMMA MarkGoes ==
    ASSUME TypeInv, NEW c \in Calls, Mark(c)
    PROVE  Goes(c, AfterMark(c))
<1>1. call[c] \in Call
  BY DEF TypeInv, TypeOK
<1>2. AfterMark(c) \in {"idle", "mark", "suppress", "event", "notify"}
  BY <1>1, AfterMarkType
<1> QED BY <1>2, GotoGoes DEF Mark

LEMMA MarkFailsGoes ==
    ASSUME TypeInv, NEW c \in Calls, MarkFails(c)
    PROVE  Goes(c, IF call[c].signal \in {"unsubscribe", "reply"} THEN "idle" ELSE AfterMark(c))
<1>1. call[c] \in Call
  BY DEF TypeInv, TypeOK
<1>2. AfterMark(c) \in {"idle", "mark", "suppress", "event", "notify"}
  BY <1>1, AfterMarkType
<1>3. CASE call[c].signal \in {"unsubscribe", "reply"}
  BY <1>3, GotoGoes DEF MarkFails
<1>4. CASE call[c].signal \notin {"unsubscribe", "reply"}
  BY <1>2, <1>4, GotoGoes DEF MarkFails
<1> QED BY <1>3, <1>4

LEMMA OtherGoes ==
    ASSUME TypeInv, NEW c \in Calls
    PROVE  /\ Suppress(c) \/ SuppressFails(c) => Goes(c, AfterSuppress(c))
           /\ Event(c) => Goes(c, IF call[c].already THEN "idle" ELSE "notify")
           /\ Notify(c) \/ Crash(c) => Goes(c, "idle")
<1>1. AfterSuppress(c) \in {"idle", "mark", "suppress", "event", "notify"}
  BY DEF AfterSuppress
<1>2. (IF call[c].already THEN "idle" ELSE "notify") \in {"idle", "mark", "suppress", "event", "notify"}
  OBVIOUS
<1>3. Suppress(c) \/ SuppressFails(c) => Goto(c, AfterSuppress(c))
  BY DEF Suppress, SuppressFails
<1>4. Event(c) => Goto(c, IF call[c].already THEN "idle" ELSE "notify")
  BY DEF Event
<1>5. Notify(c) \/ Crash(c) => Goto(c, "idle")
  BY DEF Notify, Crash
<1>6. Suppress(c) \/ SuppressFails(c) => Goes(c, AfterSuppress(c))
  BY <1>1, <1>3, GotoGoes
<1>7. Event(c) => Goes(c, IF call[c].already THEN "idle" ELSE "notify")
  BY <1>2, <1>4, GotoGoes
<1>8. Notify(c) \/ Crash(c) => Goes(c, "idle")
  BY <1>5, GotoGoes
<1> QED BY <1>6, <1>7, <1>8

\* A handler that goes on to the list has a signal that belongs there; the others do as before.
LEMMA ListedGoes ==
    ASSUME ListedSignals, NEW c \in Calls, NEW stage, Goes(c, stage),
           stage = "suppress" => call[c].signal \in {"unsubscribe", "hard"}
    PROVE  ListedSignals'
<1> SUFFICES ASSUME NEW d \in Calls, call'[d].at = "suppress"
             PROVE  call'[d].signal \in {"unsubscribe", "hard"}
  BY DEF ListedSignals
<1>1. CASE d = c
  <2>1. stage = "suppress"
    BY <1>1 DEF Goes
  <2>2. call'[c].signal = call[c].signal
    BY <2>1 DEF Goes
  <2> QED BY <1>1, <2>1, <2>2
<1>2. CASE d # c
  <2>1. call'[d] = call[d]
    BY <1>2 DEF Goes
  <2> QED BY <2>1 DEF ListedSignals
<1> QED BY <1>1, <1>2

\* Each kind of step keeps the types.
LEMMA TypeStep == TypeInv /\ [Next]_vars => TypeInv'
<1> SUFFICES ASSUME TypeInv, [Next]_vars PROVE TypeInv'
  OBVIOUS
<1> USE DEF TypeInv, TypeOK, ListedSignals
<1>1. ASSUME NEW c \in Calls
      PROVE  /\ call[c] \in Call
             /\ <<call[c].row, EventKind(call[c].signal)>> \in Rows \X EventKinds
  BY KindType DEF Call
<1>2. ASSUME NEW c \in Calls, NEW signal \in Signals, NEW r \in Rows, Arrives(c, signal, r)
      PROVE TypeInv'
  <2>1. Read(c, signal, r)
    BY <1>2 DEF Arrives
  <2>2. /\ call' \in [Calls -> Call]
        /\ \A d \in Calls \ {c} : call'[d] = call[d]
        /\ call'[c].at = "mark"
    <3> HIDE DEF TypeInv, TypeOK, ListedSignals
    <3> QED BY <2>1, ReadGoes
  <2>3. ListedSignals'
    BY <2>2
  <2> QED BY <1>2, <2>2, <2>3 DEF Arrives
<1>3. ASSUME NEW c \in Calls, NEW signal \in Signals, NEW a \in Addresses,
             ArrivesByAddress(c, signal, a)
      PROVE TypeInv'
  <2>1. PICK r \in Rows : Read(c, signal, r)
    BY <1>3 DEF ArrivesByAddress, SentTo
  <2>2. /\ call' \in [Calls -> Call]
        /\ \A d \in Calls \ {c} : call'[d] = call[d]
        /\ call'[c].at = "mark"
    <3> HIDE DEF TypeInv, TypeOK, ListedSignals
    <3> QED BY <2>1, ReadGoes
  <2>3. ListedSignals'
    BY <2>2
  <2> QED BY <1>3, <2>2, <2>3 DEF ArrivesByAddress
<1>4. ASSUME NEW c \in Calls, Mark(c) PROVE TypeInv'
  <2>1. stamped' \in [Rows -> SUBSET EventKinds]
    BY <1>1, <1>4 DEF Mark
  <2>2. ListedSignals'
    <3>1. Goes(c, AfterMark(c)) /\ (AfterMark(c) = "suppress" => call[c].signal \in {"unsubscribe", "hard"})
      BY <1>1, <1>4, MarkGoes, AfterMarkType
    <3> HIDE DEF TypeInv, TypeOK, ListedSignals
    <3> QED BY <3>1, ListedGoes DEF TypeInv
  <2> QED BY <1>4, <2>1, <2>2, MarkGoes DEF Mark, Goes
<1>5. ASSUME NEW c \in Calls, MarkFails(c) PROVE TypeInv'
  <2>1. ListedSignals'
    <3> DEFINE stage == IF call[c].signal \in {"unsubscribe", "reply"} THEN "idle" ELSE AfterMark(c)
    <3>1. Goes(c, stage)
      BY <1>5, MarkFailsGoes
    <3>2. stage = "suppress" => call[c].signal \in {"unsubscribe", "hard"}
      BY <1>1, AfterMarkType
    <3> HIDE DEF TypeInv, TypeOK, ListedSignals, stage
    <3> QED BY <3>1, <3>2, ListedGoes DEF TypeInv
  <2> QED BY <1>1, <1>5, <2>1, MarkFailsGoes DEF MarkFails, Goes, Fault, Tear
<1>6. ASSUME NEW c \in Calls, Suppress(c) \/ SuppressFails(c) PROVE TypeInv'
  <2>1. Goes(c, AfterSuppress(c)) /\ AfterSuppress(c) # "suppress"
    BY <1>6, OtherGoes DEF AfterSuppress
  <2>2. call' \in [Calls -> Call] /\ ListedSignals'
    BY <2>1 DEF Goes
  <2>3. ASSUME Suppress(c) PROVE suppression' \in [Companies -> [Addresses -> Reasons]]
    <3>1. CompanyOf[call[c].row] \in Companies /\ AddressOf[call[c].row] \in Addresses
      BY <1>1 DEF Call
    <3>2. Reason(call[c].signal) \in Reasons
      BY <2>3 DEF Reason, Reasons, Suppress
    <3> QED BY <2>3, <3>1, <3>2, EntryChanges DEF Suppress
  <2>4. promised' \subseteq Rows
    BY <1>1, <1>6 DEF Suppress, SuppressFails, Answers, Call
  <2>5. CASE Suppress(c)
    BY <2>2, <2>3, <2>4, <2>5 DEF Suppress
  <2>6. CASE SuppressFails(c)
    BY <1>1, <2>2, <2>4, <2>6 DEF SuppressFails, Fault, Call
  <2> QED BY <1>6, <2>5, <2>6
<1>7. ASSUME NEW c \in Calls, Event(c) PROVE TypeInv'
  <2>1. call' \in [Calls -> Call] /\ ListedSignals'
    BY <1>7, OtherGoes DEF Goes
  <2>2. events' \in [Rows -> [EventKinds -> 0..2]]
    <3>1. call[c].row \in Rows /\ EventKind(call[c].signal) \in EventKinds
      BY <1>1
    <3>2. OneMore(events, call[c].row, EventKind(call[c].signal)) \in [Rows -> [EventKinds -> 0..2]]
      BY <3>1, CountUp
    <3> QED BY <1>7, <3>2 DEF Event
  <2> QED BY <1>1, <1>7, <2>1, <2>2 DEF Event, Fault, Tear
<1>8. ASSUME NEW c \in Calls, Notify(c) PROVE TypeInv'
  <2>1. call' \in [Calls -> Call] /\ ListedSignals'
    BY <1>8, OtherGoes DEF Goes
  <2>2. notified' \in [Rows -> [EventKinds -> 0..2]]
    <3>1. call[c].row \in Rows /\ EventKind(call[c].signal) \in EventKinds
      BY <1>1
    <3>2. OneMore(notified, call[c].row, EventKind(call[c].signal)) \in [Rows -> [EventKinds -> 0..2]]
      BY <3>1, CountUp
    <3> QED BY <1>8, <3>2 DEF Notify
  <2>3. promised' \subseteq Rows
    BY <1>1, <1>8 DEF Notify, Answers, Call
  <2> QED BY <1>1, <1>8, <2>1, <2>2, <2>3 DEF Notify, Fault, Tear
<1>9. ASSUME NEW c \in Calls, Crash(c) PROVE TypeInv'
  <2>1. call' \in [Calls -> Call] /\ ListedSignals'
    BY <1>9, OtherGoes DEF Goes
  <2> QED BY <1>1, <1>9, <2>1 DEF Crash, Fault, Tear
<1>10. ASSUME NEW r \in Rows, SequenceEnds(r) PROVE TypeInv'
  BY <1>10 DEF SequenceEnds
<1>11. ASSUME NEW k \in Companies, NEW a \in Addresses,
              AddSuppression(k, a) \/ RemoveSuppression(k, a)
       PROVE TypeInv'
  <2>1. "manual" \in Reasons /\ "no" \in Reasons
    BY DEF Reasons
  <2>2. suppression' \in [Companies -> [Addresses -> Reasons]]
    BY <1>11, <2>1, EntryChanges DEF AddSuppression, RemoveSuppression
  <2> QED BY <1>11, <2>2 DEF AddSuppression, RemoveSuppression
<1>12. CASE UNCHANGED vars
  BY <1>12 DEF vars
<1> QED BY <1>2, <1>3, <1>4, <1>5, <1>6, <1>7, <1>8, <1>9, <1>10, <1>11, <1>12
        DEF Next, Handler

\* Every reachable state of the handlers is well typed.
THEOREM ResponseTypeCorrect == Spec => []TypeOK
<1>1. TypeInv => TypeOK
  BY DEF TypeInv
<1> QED BY <1>1, TypeInit, TypeStep, PTL DEF Spec
-----------------------------------------------------------------------------
(* No signal is lost *)

ReportInv == TypeInv /\ AlreadyIsStamped /\ SomebodyReports

\* What a step leaves of the records: stamps, reports and torn handlers stay.
Grows ==
    /\ \A r \in Rows : stamped[r] \subseteq stamped'[r]
    /\ \A r \in Rows : \A k \in EventKinds : events[r][k] > 0 => events'[r][k] > 0
    /\ \A r \in Rows : \A k \in EventKinds : notified[r][k] > 0 => notified'[r][k] > 0
    /\ torn \subseteq torn'

\* What the handler in c was to report is reported, torn or still to be reported.
HandedOn(c) ==
    \A r \in Rows : \A k \in EventKinds :
        WillReport(c, r, k) => <<r, k>> \in torn' \/ Reported(r, k)' \/ WillReport(c, r, k)'

\* A step of one handler that stamps nothing concerns only what it reports.
LEMMA OneHandler ==
    ASSUME TypeInv, SomebodyReports, NEW c \in Calls,
           \A d \in Calls \ {c} : call'[d] = call[d], Grows, UNCHANGED stamped, HandedOn(c)
    PROVE  SomebodyReports'
<1> SUFFICES ASSUME NEW r \in Rows, NEW k \in stamped[r]
             PROVE  \/ <<r, k>> \in torn' \/ Reported(r, k)'
                    \/ \E d \in Calls : WillReport(d, r, k)'
  BY DEF SomebodyReports
<1>1. k \in EventKinds
  BY DEF TypeInv, TypeOK
<1>2. CASE <<r, k>> \in torn
  BY <1>2 DEF Grows
<1>3. CASE Reported(r, k)
  BY <1>1, <1>3 DEF Grows, Reported
<1>4. ASSUME NEW d \in Calls, WillReport(d, r, k), d # c PROVE WillReport(d, r, k)'
  BY <1>1, <1>4 DEF WillReport, WorksOn, Idle, Grows
<1>5. CASE WillReport(c, r, k)
  BY <1>1, <1>5 DEF HandedOn
<1> QED BY <1>2, <1>3, <1>4, <1>5 DEF SomebodyReports

LEMMA ReportInit == Init => ReportInv
<1> SUFFICES ASSUME Init PROVE ReportInv
  OBVIOUS
<1>1. AlreadyIsStamped
  BY NoCallType DEF Init, AlreadyIsStamped, Idle
<1>2. SomebodyReports
  BY DEF Init, SomebodyReports
<1> QED BY <1>1, <1>2, TypeInit DEF ReportInv

\* A slot that is free, and takes a handler, had nothing to report.
LEMMA BeginReports ==
    ASSUME ReportInv, NEW c \in Calls, NEW signal \in Signals, NEW r \in Rows, Idle(c),
           Read(c, signal, r), UNCHANGED <<stamped, events, notified, torn>>
    PROVE  AlreadyIsStamped' /\ SomebodyReports'
<1> USE DEF ReportInv
<1>1. /\ \A d \in Calls \ {c} : call'[d] = call[d]
      /\ call'[c].signal = signal /\ call'[c].row = r
      /\ call'[c].already => EventKind(signal) \in stamped[r]
  BY ReadGoes
<1>2. AlreadyIsStamped'
  BY <1>1 DEF AlreadyIsStamped, Idle
<1>3. HandedOn(c)
  BY DEF HandedOn, WillReport, WorksOn
<1> QED BY <1>1, <1>2, <1>3, OneHandler DEF Grows

\* The stamp: of two handlers that both found it missing each will report it.
LEMMA MarkReports ==
    ASSUME ReportInv, NEW c \in Calls, Mark(c)
    PROVE  AlreadyIsStamped' /\ SomebodyReports'
<1> DEFINE row == call[c].row
           kind == EventKind(call[c].signal)
<1>1. call[c] \in Call /\ row \in Rows /\ kind \in EventKinds
  BY KindType DEF ReportInv, TypeInv, TypeOK, Call
<1>2. Goes(c, AfterMark(c))
  BY MarkGoes DEF ReportInv
<1>3. ~Idle(c)
  BY DEF Mark, Idle
<1>4. /\ stamped \in [Rows -> SUBSET EventKinds]
      /\ stamped' = stamped \/ stamped' = [stamped EXCEPT ![row] = @ \cup {kind}]
  BY DEF Mark, ReportInv, TypeInv, TypeOK
<1>5. \A r \in Rows : stamped[r] \subseteq stamped'[r]
  BY <1>1, <1>4
<1>6. AlreadyIsStamped'
  BY <1>1, <1>2, <1>3, <1>5 DEF AlreadyIsStamped, Goes, Idle, ReportInv, TypeInv, TypeOK, Call
<1>7. ASSUME NEW r \in Rows, NEW k \in EventKinds, r = row, k = kind, ~call[c].already
      PROVE  WillReport(c, r, k)'
  BY <1>1, <1>2, <1>7, AfterMarkType DEF WillReport, WorksOn, Goes, Idle
<1>8. call[c].already => kind \in stamped[row]
  BY <1>3 DEF ReportInv, AlreadyIsStamped
<1>9. ASSUME NEW r \in Rows, NEW k \in stamped[r], ~call[c].already \/ r # row \/ k # kind
      PROVE  \/ <<r, k>> \in torn' \/ Reported(r, k)' \/ \E d \in Calls : WillReport(d, r, k)'
  <2>1. UNCHANGED <<torn, events, notified>>
    BY DEF Mark
  <2>2. ASSUME NEW d \in Calls, WillReport(d, r, k), d # c PROVE WillReport(d, r, k)'
    BY <1>2, <2>1, <2>2 DEF Goes, WillReport, WorksOn, Idle
  <2>3. ASSUME WillReport(c, r, k) PROVE WillReport(c, r, k)'
    BY <1>1, <1>7, <2>3 DEF WillReport, WorksOn
  <2> QED BY <2>1, <2>2, <2>3 DEF ReportInv, SomebodyReports, Reported
<1>10. SomebodyReports'
  <2> SUFFICES ASSUME NEW r \in Rows, NEW k \in stamped'[r]
               PROVE  \/ <<r, k>> \in torn' \/ Reported(r, k)'
                      \/ \E d \in Calls : WillReport(d, r, k)'
    BY DEF SomebodyReports
  <2>1. CASE k \in stamped[r] /\ (~call[c].already \/ r # row \/ k # kind)
    BY <1>9, <2>1
  <2>2. CASE k \notin stamped[r]
    <3>1. r = row /\ k = kind
      BY <1>1, <1>4, <2>2
    <3> QED BY <1>1, <1>7, <1>8, <2>2, <3>1
  <2>3. CASE k \in stamped[r] /\ call[c].already /\ r = row /\ k = kind
    <3>1. UNCHANGED <<torn, events, notified>>
      BY DEF Mark
    <3>2. ASSUME NEW d \in Calls, WillReport(d, r, k) PROVE d # c /\ WillReport(d, r, k)'
      BY <1>2, <2>3, <3>1, <3>2 DEF Goes, WillReport, WorksOn, Idle
    <3> QED BY <2>3, <3>1, <3>2 DEF ReportInv, SomebodyReports, Reported
  <2> QED BY <2>1, <2>2, <2>3
<1> QED BY <1>6, <1>10

\* No other step loses a report: it hands it on, writes it, or is torn.
LEMMA HandlerReports ==
    ASSUME ReportInv, NEW c \in Calls,
           MarkFails(c) \/ Suppress(c) \/ SuppressFails(c) \/ Event(c) \/ Notify(c) \/ Crash(c)
    PROVE  AlreadyIsStamped' /\ SomebodyReports'
<1> USE DEF ReportInv
<1>1. /\ call[c] \in Call
      /\ call[c].row \in Rows /\ EventKind(call[c].signal) \in EventKinds
      /\ events \in [Rows -> [EventKinds -> 0..2]] /\ notified \in [Rows -> [EventKinds -> 0..2]]
  BY KindType DEF TypeInv, TypeOK, Call
<1>2. UNCHANGED stamped
  BY DEF MarkFails, Suppress, SuppressFails, Event, Notify, Crash
<1>3. PICK stage : Goes(c, stage)
  BY MarkFailsGoes, OtherGoes
<1>4. ~Idle(c)
  BY DEF MarkFails, Suppress, SuppressFails, Event, Notify, Crash, Idle
<1>5. AlreadyIsStamped'
  BY <1>2, <1>3, <1>4 DEF AlreadyIsStamped, Goes, Idle
<1>6. Grows
  <2>1. torn \subseteq torn'
    BY DEF MarkFails, Suppress, SuppressFails, Event, Notify, Crash, Tear
  <2>2. \/ events' = events
        \/ events' = OneMore(events, call[c].row, EventKind(call[c].signal))
    BY DEF MarkFails, Suppress, SuppressFails, Event, Notify, Crash
  <2>3. \/ notified' = notified
        \/ notified' = OneMore(notified, call[c].row, EventKind(call[c].signal))
    BY DEF MarkFails, Suppress, SuppressFails, Event, Notify, Crash
  <2>4. \A r \in Rows : \A k \in EventKinds : events[r][k] > 0 => events'[r][k] > 0
    <3>1. \A s \in Rows : \A j \in EventKinds :
             events[s][j] > 0 => OneMore(events, call[c].row, EventKind(call[c].signal))[s][j] > 0
      <4> DEFINE f == events
                 k == EventKind(call[c].signal)
                 r == call[c].row
      <4>1. f \in [Rows -> [EventKinds -> 0..2]] /\ r \in Rows /\ k \in EventKinds
        BY <1>1
      <4> HIDE DEF f, k, r
      <4>2. \A s \in Rows : \A j \in EventKinds : f[s][j] > 0 => OneMore(f, r, k)[s][j] > 0
        BY <4>1, CountUp
      <4> QED BY <4>2 DEF f, k, r
    <3> QED BY <2>2, <3>1
  <2>5. \A r \in Rows : \A k \in EventKinds : notified[r][k] > 0 => notified'[r][k] > 0
    BY <1>1, <2>3, CountUp
  <2> QED BY <1>2, <2>1, <2>4, <2>5 DEF Grows
<1>7. HandedOn(c)
  <2> SUFFICES ASSUME NEW r \in Rows, NEW k \in EventKinds, WillReport(c, r, k)
               PROVE  <<r, k>> \in torn' \/ Reported(r, k)' \/ WillReport(c, r, k)'
    BY DEF HandedOn
  <2>1. /\ call[c].row = r /\ EventKind(call[c].signal) = k /\ ~call[c].already
        /\ call[c].at = "notify" => events[r][k] > 0
    BY DEF WillReport, WorksOn
  <2>2. CASE MarkFails(c) \/ Crash(c)
    BY <2>1, <2>2 DEF MarkFails, Crash, Tear
  <2>3. CASE Suppress(c) \/ SuppressFails(c)
    <3>1. Goes(c, "event")
      BY <2>1, <2>3, OtherGoes DEF AfterSuppress
    <3> QED BY <2>1, <3>1 DEF Goes, WillReport, WorksOn, Idle
  <2>4. CASE Event(c)
    <3>1. Goes(c, "notify")
      BY <2>1, <2>4, OtherGoes
    <3>2. CASE events' = OneMore(events, call[c].row, EventKind(call[c].signal))
      <4>1. events'[r][k] > 0
        BY <1>1, <2>1, <3>2, CountUp
      <4> QED BY <2>1, <3>1, <4>1 DEF Goes, WillReport, WorksOn, Idle
    <3>3. CASE Tear(c)
      BY <2>1, <3>3 DEF Tear
    <3> QED BY <2>4, <3>2, <3>3 DEF Event
  <2>5. CASE Notify(c)
    <3>1. CASE notified' = OneMore(notified, call[c].row, EventKind(call[c].signal))
      <4>1. notified'[r][k] > 0
        <5>1. OneMore(notified, r, k)[r][k] > 0
          BY <1>1, CountUp
        <5> QED BY <2>1, <3>1, <5>1
      <4>2. events'[r][k] > 0
        BY <2>1, <2>5 DEF Notify
      <4> QED BY <4>1, <4>2 DEF Reported
    <3>2. CASE Tear(c)
      BY <2>1, <3>2 DEF Tear
    <3> QED BY <2>5, <3>1, <3>2 DEF Notify
  <2> QED BY <2>2, <2>3, <2>4, <2>5
<1>8. \A d \in Calls \ {c} : call'[d] = call[d]
  BY <1>3 DEF Goes
<1> QED BY <1>2, <1>5, <1>6, <1>7, <1>8, OneHandler

LEMMA ReportStep == ReportInv /\ [Next]_vars => ReportInv'
<1> SUFFICES ASSUME ReportInv, [Next]_vars PROVE AlreadyIsStamped' /\ SomebodyReports'
  BY TypeStep DEF ReportInv
<1>1. ASSUME NEW c \in Calls, NEW signal \in Signals, NEW r \in Rows, Arrives(c, signal, r)
      PROVE AlreadyIsStamped' /\ SomebodyReports'
  BY <1>1, BeginReports DEF Arrives
<1>2. ASSUME NEW c \in Calls, NEW signal \in Signals, NEW a \in Addresses,
             ArrivesByAddress(c, signal, a)
      PROVE AlreadyIsStamped' /\ SomebodyReports'
  <2>1. PICK r \in Rows : Read(c, signal, r)
    BY <1>2 DEF ArrivesByAddress, SentTo
  <2>2. Idle(c) /\ UNCHANGED <<stamped, events, notified, torn>>
    BY <1>2 DEF ArrivesByAddress
  <2> QED BY <2>1, <2>2, BeginReports
<1>3. ASSUME UNCHANGED <<stamped, events, notified, call, torn>>
      PROVE AlreadyIsStamped' /\ SomebodyReports'
  BY <1>3 DEF ReportInv, AlreadyIsStamped, SomebodyReports, WillReport, WorksOn, Reported, Idle
<1>4. ASSUME NEW r \in Rows, SequenceEnds(r) PROVE AlreadyIsStamped' /\ SomebodyReports'
  BY <1>3, <1>4 DEF SequenceEnds
<1>5. ASSUME NEW k \in Companies, NEW a \in Addresses,
             AddSuppression(k, a) \/ RemoveSuppression(k, a)
      PROVE AlreadyIsStamped' /\ SomebodyReports'
  BY <1>3, <1>5 DEF AddSuppression, RemoveSuppression
<1>6. CASE UNCHANGED vars
  BY <1>3, <1>6 DEF vars
<1> QED BY <1>1, <1>2, <1>4, <1>5, <1>6, MarkReports, HandlerReports DEF Next, Handler

\* Whatever the order of the handlers, a stamped column has its event and its
\* notification once they are through, but for the handlers that failed.
THEOREM NoSignalLost == Spec => []FirstIsReported
<1>1. ReportInv => FirstIsReported
  BY DEF ReportInv, SomebodyReports, WillReport, WorksOn, Reported, FirstIsReported, InFlight
<1> QED BY <1>1, ReportInit, ReportStep, PTL DEF Spec

-----------------------------------------------------------------------------
(* An opt-out is on record *)

OptOutInv == TypeInv /\ Stages /\ PromisesKept /\ SomebodyLists

LEMMA OptOutInit == Init => OptOutInv
<1> SUFFICES ASSUME Init PROVE Stages /\ PromisesKept /\ SomebodyLists
  BY TypeInit DEF OptOutInv
<1> QED BY NoCallType DEF Init, Stages, StageOf, PromisesKept, SomebodyLists

\* What is on record stays there, or the operator took it off.
LEMMA RecordStays ==
    ASSUME TypeInv, [Next]_vars, NEW r \in Rows, OnRecord(r)
    PROVE  OnRecord(r)'
<1> DEFINE k == CompanyOf[r]
           a == AddressOf[r]
<1>1. k \in Companies /\ a \in Addresses /\ suppression \in [Companies -> [Addresses -> Reasons]]
  BY DEF TypeInv, TypeOK
<1>2. CASE UNCHANGED suppression /\ unlisted \subseteq unlisted' /\ freed \subseteq freed'
  BY <1>2 DEF OnRecord, Listed
<1>3. ASSUME NEW c \in Calls, Suppress(c) PROVE OnRecord(r)'
  <2>1. call[c].row \in Rows /\ Reason(call[c].signal) \in Reasons
    BY <1>3 DEF TypeInv, TypeOK, Call, ListedSignals, Suppress, Reason, Reasons
  <2>2. CASE Listed(call[c].row)
    BY <1>3, <2>2 DEF OnRecord, Listed, Suppress
  <2>3. CASE ~Listed(call[c].row)
    <3>1. CompanyOf[call[c].row] \in Companies /\ AddressOf[call[c].row] \in Addresses
      BY <2>1
    <3>2. \A m \in Companies : \A b \in Addresses :
             m # CompanyOf[call[c].row] \/ b # AddressOf[call[c].row] =>
                suppression'[m][b] = suppression[m][b]
      BY <1>1, <1>3, <2>1, <2>3, <3>1, EntryChanges DEF Suppress
    <3>3. UNCHANGED <<unlisted, freed>>
      BY <1>3 DEF Suppress
    <3> QED BY <1>1, <2>3, <3>2, <3>3 DEF OnRecord, Listed
  <2> QED BY <2>2, <2>3
<1>4. ASSUME NEW m \in Companies, NEW b \in Addresses, AddSuppression(m, b) PROVE OnRecord(r)'
  <2>1. "manual" \in Reasons /\ "manual" # "no"
    BY DEF Reasons
  <2>2. /\ suppression'[m][b] = "manual"
        /\ \A n \in Companies : \A e \in Addresses :
              n # m \/ e # b => suppression'[n][e] = suppression[n][e]
    BY <1>1, <1>4, <2>1, EntryChanges DEF AddSuppression
  <2>3. UNCHANGED <<unlisted, freed>>
    BY <1>4 DEF AddSuppression
  <2> QED BY <1>1, <2>1, <2>2, <2>3 DEF OnRecord, Listed
<1>5. ASSUME NEW m \in Companies, NEW b \in Addresses, RemoveSuppression(m, b) PROVE OnRecord(r)'
  <2>1. "no" \in Reasons
    BY DEF Reasons
  <2>2. \A n \in Companies : \A e \in Addresses :
           n # m \/ e # b => suppression'[n][e] = suppression[n][e]
    BY <1>1, <1>5, <2>1, EntryChanges DEF RemoveSuppression
  <2>3. /\ unlisted' = unlisted
        /\ freed' = freed \cup {s \in Rows : CompanyOf[s] = m /\ AddressOf[s] = b}
    BY <1>5 DEF RemoveSuppression
  <2>4. CASE k = m /\ a = b
    BY <2>3, <2>4 DEF OnRecord
  <2>5. CASE k # m \/ a # b
    BY <1>1, <2>2, <2>3, <2>5 DEF OnRecord, Listed
  <2> QED BY <2>4, <2>5
<1>6. ASSUME NEW c \in Calls, Handler(c), ~Suppress(c) PROVE OnRecord(r)'
  BY <1>2, <1>6 DEF Handler, Arrives, ArrivesByAddress, Mark, MarkFails, SuppressFails, Event,
                    Notify, Crash
<1>7. ASSUME NEW s \in Rows, SequenceEnds(s) PROVE OnRecord(r)'
  BY <1>2, <1>7 DEF SequenceEnds
<1>8. CASE UNCHANGED vars
  BY <1>2, <1>8 DEF vars
<1> QED BY <1>3, <1>4, <1>5, <1>6, <1>7, <1>8 DEF Next

\* The entry is written before the handler goes on, or the failure is noted.
LEMMA SuppressRecords ==
    ASSUME TypeInv, NEW c \in Calls, Suppress(c) \/ SuppressFails(c), NEW r \in Rows,
           r = call[c].row
    PROVE  OnRecord(r)'
<1>1. CASE SuppressFails(c)
  BY <1>1 DEF SuppressFails, OnRecord
<1>2. CASE Suppress(c) /\ Listed(r)
  BY <1>2 DEF Suppress, OnRecord, Listed
<1>3. CASE Suppress(c) /\ ~Listed(r)
  <2>1. Reason(call[c].signal) \in Reasons /\ Reason(call[c].signal) # "no"
    BY <1>3 DEF TypeInv, ListedSignals, Suppress, Reason, Reasons
  <2>2. CompanyOf[r] \in Companies /\ AddressOf[r] \in Addresses
    OBVIOUS
  <2>3. Enter(CompanyOf[r], AddressOf[r], Reason(call[c].signal))
    BY <1>3 DEF Suppress
  <2>4. suppression \in [Companies -> [Addresses -> Reasons]]
    BY DEF TypeInv, TypeOK
  <2>5. suppression'[CompanyOf[r]][AddressOf[r]] = Reason(call[c].signal)
    BY <2>1, <2>2, <2>3, <2>4, EntryChanges
  <2> QED BY <2>1, <2>5 DEF OnRecord, Listed
<1> QED BY <1>1, <1>2, <1>3

\* A step of one handler, by what it does to its own stage, row and promise.
LEMMA OptOutFrame ==
    ASSUME OptOutInv, [Next]_vars, NEW c \in Calls,
           \A d \in Calls \ {c} : call'[d] = call[d],
           \A r \in Rows : stamped[r] \subseteq stamped'[r],
           torn \subseteq torn', StageOf(c)',
           \A r \in promised' \ promised : "unsubscribe" \in stamped'[r] /\ OnRecord(r)',
           \A r \in Rows : \A k \in stamped'[r] \ stamped[r] :
              k \in {"unsubscribe", "bounce"} => WillList(c, r, k)',
           \A r \in Rows : \A k \in EventKinds :
              WillList(c, r, k) => OnRecord(r)' \/ <<r, k>> \in torn'
    PROVE  Stages' /\ PromisesKept' /\ SomebodyLists'
<1>1. \A r \in Rows : OnRecord(r) => OnRecord(r)'
  BY RecordStays DEF OptOutInv
<1>2. ASSUME NEW d \in Calls, d # c PROVE StageOf(d)'
  <2>1. StageOf(d) /\ call'[d] = call[d] /\ call[d].row \in Rows
    BY <1>2 DEF OptOutInv, Stages, TypeInv, TypeOK, Call
  <2>2. ASSUME NEW r \in Rows, r = call[d].row PROVE (OnRecord(r) => OnRecord(r)') /\ stamped[r] \subseteq stamped'[r]
    BY <1>1
  <2> QED BY <2>1, <2>2 DEF StageOf, OnRecord, Listed
<1>3. PromisesKept'
  <2> SUFFICES ASSUME NEW r \in promised' PROVE "unsubscribe" \in stamped'[r] /\ OnRecord(r)'
    BY DEF PromisesKept
  <2>1. CASE r \in promised
    <3>1. r \in Rows /\ "unsubscribe" \in stamped[r] /\ OnRecord(r)
      BY <2>1 DEF OptOutInv, PromisesKept, TypeInv, TypeOK
    <3> QED BY <1>1, <3>1
  <2> QED BY <2>1
<1>4. SomebodyLists'
  <2> SUFFICES ASSUME NEW r \in Rows, NEW k \in stamped'[r] \cap {"unsubscribe", "bounce"}
               PROVE  \/ OnRecord(r)' \/ <<r, k>> \in torn'
                      \/ \E d \in Calls : WillList(d, r, k)'
    BY DEF SomebodyLists
  <2>1. CASE k \in stamped[r]
    <3>1. ASSUME NEW d \in Calls, d # c, WillList(d, r, k) PROVE WillList(d, r, k)'
      BY <3>1 DEF WillList, WorksOn, Idle
    <3>2. k \in EventKinds
      BY <2>1 DEF OptOutInv, TypeInv, TypeOK
    <3>3. OnRecord(r) \/ <<r, k>> \in torn \/ \E d \in Calls : WillList(d, r, k)
      BY <2>1 DEF OptOutInv, SomebodyLists
    <3> QED BY <1>1, <3>1, <3>2, <3>3
  <2> QED BY <2>1
<1> QED BY <1>2, <1>3, <1>4 DEF Stages

LEMMA OptOutStep == OptOutInv /\ [Next]_vars => OptOutInv'
<1> SUFFICES ASSUME OptOutInv, [Next]_vars PROVE Stages' /\ PromisesKept' /\ SomebodyLists'
  BY TypeStep DEF OptOutInv
<1>1. TypeInv /\ Stages /\ PromisesKept
  BY DEF OptOutInv
<1>2. ASSUME NEW c \in Calls
      PROVE  /\ call[c] \in Call
             /\ call[c].row \in Rows /\ EventKind(call[c].signal) \in EventKinds
  BY <1>1, KindType DEF TypeInv, TypeOK, Call
<1>3. ASSUME NEW c \in Calls, NEW signal \in Signals, NEW r \in Rows, Idle(c), Read(c, signal, r),
             UNCHANGED <<stamped, torn, promised>>
      PROVE Stages' /\ PromisesKept' /\ SomebodyLists'
  <2>1. (\A d \in Calls \ {c} : call'[d] = call[d]) /\ call'[c].at = "mark"
    BY <1>1, <1>3, ReadGoes
  <2>2. StageOf(c)'
    BY <2>1 DEF StageOf
  <2>3. \A s \in Rows : \A k \in EventKinds : ~WillList(c, s, k)
    BY <1>3 DEF WillList, WorksOn
  <2> QED BY <1>3, <2>1, <2>2, <2>3, OptOutFrame
<1>4. ASSUME NEW c \in Calls, Mark(c) PROVE Stages' /\ PromisesKept' /\ SomebodyLists'
  <2>1. Goes(c, AfterMark(c)) /\ UNCHANGED <<torn, promised>>
    BY <1>1, <1>4, MarkGoes DEF Mark
  <2>2. /\ stamped \in [Rows -> SUBSET EventKinds]
        /\ stamped' = IF call[c].signal = "soft" THEN stamped
                      ELSE [stamped EXCEPT ![call[c].row] = @ \cup {EventKind(call[c].signal)}]
    BY <1>1, <1>4 DEF Mark, TypeInv, TypeOK
  <2>3. \A r \in Rows : stamped[r] \subseteq stamped'[r]
    BY <1>2, <2>2
  <2>4. StageOf(c)'
    BY <1>2, <2>1, <2>2, AfterMarkType DEF StageOf, Goes, EventKind
  <2>5. ASSUME NEW r \in Rows, NEW k \in stamped'[r] \ stamped[r], k \in {"unsubscribe", "bounce"}
        PROVE  WillList(c, r, k)'
    <3>1. call[c].signal # "soft" /\ r = call[c].row /\ k = EventKind(call[c].signal)
      BY <1>2, <2>2, <2>5
    <3>2. call[c].signal \in {"unsubscribe", "hard"}
      BY <1>2, <2>5, <3>1 DEF EventKind, Call, SignalKinds
    <3> QED BY <1>2, <2>1, <3>1, <3>2, AfterMarkType DEF WillList, WorksOn, Goes, Idle
  <2>6. \A r \in Rows : \A k \in EventKinds : ~WillList(c, r, k)
    BY <1>4 DEF WillList, Mark
  <2> QED BY <2>1, <2>3, <2>4, <2>5, <2>6, OptOutFrame DEF Goes
<1>5. ASSUME NEW c \in Calls, MarkFails(c) PROVE Stages' /\ PromisesKept' /\ SomebodyLists'
  <2>1. /\ Goes(c, IF call[c].signal \in {"unsubscribe", "reply"} THEN "idle" ELSE AfterMark(c))
        /\ torn \subseteq torn' /\ UNCHANGED <<stamped, promised>>
    BY <1>1, <1>5, MarkFailsGoes DEF MarkFails, Tear
  <2>2. StageOf(c)'
    BY <1>2, <2>1 DEF StageOf, Goes
  <2>3. \A r \in Rows : \A k \in EventKinds : ~WillList(c, r, k)
    BY <1>5 DEF WillList, MarkFails
  <2> QED BY <2>1, <2>2, <2>3, OptOutFrame DEF Goes
<1>6. ASSUME NEW c \in Calls, Suppress(c) \/ SuppressFails(c)
      PROVE Stages' /\ PromisesKept' /\ SomebodyLists'
  <2>1. /\ Goes(c, AfterSuppress(c))
        /\ UNCHANGED <<stamped, torn>>
        /\ promised' \subseteq promised \cup {call[c].row}
        /\ promised' # promised => call[c].signal = "unsubscribe"
    BY <1>1, <1>6, OtherGoes DEF Suppress, SuppressFails, Answers
  <2>2. ASSUME NEW r \in Rows, r = call[c].row PROVE OnRecord(r)'
    BY <1>1, <1>6, <2>2, SuppressRecords
  <2>3. call[c].signal = "unsubscribe" => "unsubscribe" \in stamped[call[c].row]
    BY <1>1, <1>6 DEF Stages, StageOf, Suppress, SuppressFails
  <2>4. StageOf(c)'
    <3>1. ASSUME NEW r \in Rows, r = call[c].row, call'[c].at # "idle"
          PROVE  call'[c].row = r /\ call'[c].signal = call[c].signal /\ call'[c].at # "suppress" /\ OnRecord(r)'
      BY <2>1, <2>2, <3>1 DEF Goes, AfterSuppress
    <3> QED BY <1>2, <2>1, <2>3, <3>1 DEF StageOf, OnRecord, Listed
  <2>5. \A r \in promised' \ promised : "unsubscribe" \in stamped'[r] /\ OnRecord(r)'
    BY <1>2, <2>1, <2>2, <2>3
  <2>6. \A r \in Rows : \A k \in EventKinds : WillList(c, r, k) => OnRecord(r)'
    BY <2>2 DEF WillList, WorksOn
  <2> QED BY <2>1, <2>4, <2>5, <2>6, OptOutFrame DEF Goes
<1>7. ASSUME NEW c \in Calls, Event(c) PROVE Stages' /\ PromisesKept' /\ SomebodyLists'
  <2>1. /\ Goes(c, IF call[c].already THEN "idle" ELSE "notify")
        /\ torn \subseteq torn' /\ UNCHANGED <<stamped, promised, suppression, unlisted, freed>>
    BY <1>1, <1>7, OtherGoes DEF Event, Tear
  <2>2. StageOf(c)'
    BY <1>1, <1>7, <2>1 DEF Stages, StageOf, Goes, OnRecord, Listed, Event
  <2>3. \A r \in Rows : \A k \in EventKinds : ~WillList(c, r, k)
    BY <1>7 DEF WillList, Event
  <2> QED BY <2>1, <2>2, <2>3, OptOutFrame DEF Goes
<1>8. ASSUME NEW c \in Calls, Notify(c) PROVE Stages' /\ PromisesKept' /\ SomebodyLists'
  <2>1. /\ Goes(c, "idle")
        /\ torn \subseteq torn' /\ UNCHANGED <<stamped, suppression, unlisted, freed>>
        /\ promised' \subseteq promised \cup {call[c].row}
        /\ promised' # promised => call[c].signal = "unsubscribe"
    BY <1>1, <1>8, OtherGoes DEF Notify, Tear, Answers
  <2>2. StageOf(c)'
    BY <2>1 DEF StageOf, Goes
  <2>3. \A r \in promised' \ promised : "unsubscribe" \in stamped'[r] /\ OnRecord(r)'
    BY <1>1, <1>8, <2>1 DEF Stages, StageOf, OnRecord, Listed, Notify
  <2>4. \A r \in Rows : \A k \in EventKinds : ~WillList(c, r, k)
    BY <1>8 DEF WillList, Notify
  <2> QED BY <2>1, <2>2, <2>3, <2>4, OptOutFrame DEF Goes
<1>9. ASSUME NEW c \in Calls, Crash(c) PROVE Stages' /\ PromisesKept' /\ SomebodyLists'
  <2>1. Goes(c, "idle") /\ UNCHANGED <<stamped, promised>>
    BY <1>1, <1>9, OtherGoes DEF Crash
  <2>2. StageOf(c)'
    BY <2>1 DEF StageOf, Goes
  <2>3. \A r \in Rows : \A k \in EventKinds : WillList(c, r, k) => <<r, k>> \in torn'
    BY <1>9 DEF WillList, WorksOn, Crash, Tear
  <2>4. torn \subseteq torn'
    BY <1>9 DEF Crash, Tear
  <2> QED BY <2>1, <2>2, <2>3, <2>4, OptOutFrame DEF Goes
<1>10. ASSUME UNCHANGED <<stamped, call, torn, promised>>
       PROVE Stages' /\ PromisesKept' /\ SomebodyLists'
  <2>1. \A r \in Rows : OnRecord(r) => OnRecord(r)'
    BY <1>1, RecordStays
  <2>2. Stages'
    <3> SUFFICES ASSUME NEW c \in Calls PROVE StageOf(c)'
      BY DEF Stages
    <3>1. ASSUME NEW r \in Rows, r = call[c].row PROVE OnRecord(r) => OnRecord(r)'
      BY <2>1
    <3> QED BY <1>1, <1>2, <1>10, <3>1 DEF Stages, StageOf, OnRecord, Listed
  <2>3. PromisesKept'
    BY <1>1, <1>10, <2>1 DEF PromisesKept, TypeInv, TypeOK
  <2>4. SomebodyLists'
    <3>1. ASSUME NEW c \in Calls, NEW r \in Rows, NEW k \in EventKinds, WillList(c, r, k)
          PROVE  WillList(c, r, k)'
      BY <1>10, <3>1 DEF WillList, WorksOn, Idle
    <3>2. \A r \in Rows : stamped[r] \subseteq EventKinds /\ stamped'[r] = stamped[r]
      BY <1>1, <1>10 DEF TypeInv, TypeOK
    <3> QED BY <1>10, <2>1, <3>1, <3>2 DEF OptOutInv, SomebodyLists
  <2> QED BY <2>2, <2>3, <2>4
<1>11. ASSUME NEW c \in Calls, NEW signal \in Signals, NEW r \in Rows, Arrives(c, signal, r)
       PROVE Stages' /\ PromisesKept' /\ SomebodyLists'
  BY <1>3, <1>11 DEF Arrives
<1>12. ASSUME NEW c \in Calls, NEW signal \in Signals, NEW a \in Addresses,
              ArrivesByAddress(c, signal, a)
       PROVE Stages' /\ PromisesKept' /\ SomebodyLists'
  <2>1. PICK r \in Rows : Read(c, signal, r)
    BY <1>12 DEF ArrivesByAddress, SentTo
  <2>2. Idle(c) /\ UNCHANGED <<stamped, torn, promised>>
    BY <1>12 DEF ArrivesByAddress
  <2> QED BY <1>3, <2>1, <2>2
<1>13. ASSUME NEW r \in Rows, SequenceEnds(r) PROVE Stages' /\ PromisesKept' /\ SomebodyLists'
  BY <1>10, <1>13 DEF SequenceEnds
<1>14. ASSUME NEW k \in Companies, NEW a \in Addresses,
              AddSuppression(k, a) \/ RemoveSuppression(k, a)
       PROVE Stages' /\ PromisesKept' /\ SomebodyLists'
  BY <1>10, <1>14 DEF AddSuppression, RemoveSuppression
<1>15. CASE UNCHANGED vars
  BY <1>10, <1>15 DEF vars
<1> QED BY <1>4, <1>5, <1>6, <1>7, <1>8, <1>9, <1>11, <1>12, <1>13, <1>14, <1>15
        DEF Next, Handler

\* Who was told that no mail follows, and every address that bounced, is on
\* the list of the company, but for the exceptions OptOutRecorded names.
THEOREM OptOutsStay == Spec => []OptOutRecorded
<1>1. OptOutInv => OptOutRecorded
  BY DEF OptOutInv, PromisesKept, SomebodyLists, OnRecord, WillList, WorksOn, OptOutRecorded, InFlight
<1> QED BY <1>1, OptOutInit, OptOutStep, PTL DEF Spec
=============================================================================

---------------------------- MODULE ServicesProofs ----------------------------
(***************************************************************************)
(* The parts of Services, each for any number of requests, pods, clicks,   *)
(* domains and faults: one section a part, with its inductive invariant,   *)
(* what every step does to it, and the theorem.                            *)
(***************************************************************************)
EXTENDS Services, FiniteSetTheorems, WellFoundedInduction, TLAPS

-----------------------------------------------------------------------------
(* A nonempty set of numbers has a smallest one: the induction of this module. *)
LEMMA SmallestNat ==
    ASSUME NEW S \in SUBSET Nat, S # {}
    PROVE  \E n \in S : \A m \in S : n <= m
<1>1. PICK n \in S : \A m \in S : <<m, n>> \notin OpToRel(<, Nat)
  BY WFMin, NatLessThanWellFounded, Zenon
<1>2. \A m \in S : m \in Nat /\ n \in Nat /\ ~(m < n)
  BY <1>1, Zenon DEF OpToRel
<1>3. \A m \in S : n <= m
  BY <1>2
<1> QED BY <1>3

-----------------------------------------------------------------------------
(* Calls. Clicks within the window are one call, for any number of clicks and any window;
   the status of a call is not used. *)
\* Where a click is and when it was, whatever its status.
Where ==
    /\ DOMAIN click = Clicks
    /\ \A k \in Clicks : DOMAIN click[k] = {"at", "time", "status"} /\ click[k].time \in Nat

\* Two clicks that are under way are known as such, and none is ahead of the clock.
UnderWayKnown ==
    /\ clock \in Nat
    /\ \A j, k \in Log!UnderWay : j # k => {j, k} \in together
    /\ \A k \in Log!UnderWay : click[k].time <= clock

\* A click is one call, once it is done, at the time it was answered with.
OneCallEach ==
    /\ \A c \in calls : /\ c.time \in Nat /\ c.click \in Clicks
                        /\ click[c.click].at = "done"
                        /\ c.guarded => c.time <= clock
    /\ \A a, b \in calls : a.click = b.click => a = b

\* A click under way began after every guarded call but those of clicks that
\* were under way with it; once it looked in vain, it is past their window.
PastTheWindow ==
    \A k \in Log!UnderWay, c \in calls :
        c.guarded => \/ {c.click, k} \in together
                     \/ /\ c.time <= click[k].time
                        /\ click[k].at = "inserting" /\ k \notin blind => c.time + Window <= click[k].time

LogInv == Where /\ UnderWayKnown /\ OneCallEach /\ PastTheWindow /\ ClicksCountOnce

LEMMA LogInit == Log!Init => LogInv
BY DEF Log!Init, LogInv, Where, UnderWayKnown, OneCallEach, PastTheWindow, ClicksCountOnce,
       Log!ClicksCountOnce, Log!UnderWay

\* The property once more: two calls of the window, and a click that was answered.
Excused(a, b) ==
    \/ {a.click, b.click} \in together
    \/ b.click \in blind
    \/ a.time = b.time /\ a.click \in blind

CallsApart ==
    \A a, b \in calls :
        (a # b /\ a.guarded /\ b.guarded /\ a.time <= b.time /\ b.time < a.time + Window) => Excused(a, b)

OnRecord == \A k \in Clicks : click[k].at = "done" => \E c \in calls : c.time + Window > click[k].time

LEMMA CountsOnce == ClicksCountOnce <=> CallsApart /\ OnRecord
BY DEF ClicksCountOnce, Log!ClicksCountOnce, CallsApart, OnRecord, Excused

\* A call of k is added, guarded or not.
LEMMA CallAdded ==
    ASSUME Window \in Nat \ {0}, LogInv, NEW k \in Clicks, NEW t \in Nat, NEW g \in BOOLEAN,
           click[k].at \in {"chosen", "inserting"}, UNCHANGED <<clock, together, blind>>,
           g => click[k].at = "inserting" /\ t = click[k].time,
           Log!CreateActivity(k, t, g)
    PROVE  LogInv'
<1> USE DEF LogInv, Where, UnderWayKnown, OneCallEach
<1>1. CASE UNCHANGED calls /\ click' = [click EXCEPT ![k].at = "refused"]
  <2>1. /\ click'[k].at = "refused" /\ DOMAIN click' = Clicks /\ click'[k].time = click[k].time
        /\ DOMAIN click'[k] = {"at", "time", "status"} /\ \A j \in Clicks \ {k} : click'[j] = click[j]
    BY <1>1
  <2>2. Where' /\ Log!UnderWay' = Log!UnderWay \ {k} /\ OneCallEach' /\ UnderWayKnown'
    BY <1>1, <2>1 DEF Log!UnderWay
  <2>3. PastTheWindow' /\ CallsApart' /\ OnRecord'
    BY <1>1, <2>1, <2>2, CountsOnce DEF PastTheWindow, CallsApart, OnRecord, Excused, Log!UnderWay
  <2> QED BY <2>2, <2>3, CountsOnce, PTL
<1> DEFINE new == [click |-> k, time |-> t, status |-> click[k].status, guarded |-> g]
<1>2. CASE calls' = calls \cup {new} /\ click' = [click EXCEPT ![k].at = "done", ![k].time = t]
  <2>1. /\ click'[k].at = "done" /\ DOMAIN click' = Clicks /\ click'[k].time = t
        /\ DOMAIN click'[k] = {"at", "time", "status"} /\ \A j \in Clicks \ {k} : click'[j] = click[j]
    BY <1>2
  <2>2. Where' /\ Log!UnderWay' = Log!UnderWay \ {k} /\ (g => k \in Log!UnderWay)
    BY <1>2, <2>1 DEF Log!UnderWay
  <2>3. UnderWayKnown'
    BY <2>1, <2>2 DEF Log!UnderWay
  <2>4. \A c \in calls : c.click # k /\ click'[c.click] = click[c.click]
    BY <2>1
  <2>5. OneCallEach'
    <3>1. \A c \in calls' : c.time \in Nat /\ c.click \in Clicks /\ click'[c.click].at = "done"
                            /\ (c.guarded => c.time <= clock)
      BY <1>2, <2>1, <2>2, <2>4
    <3> QED BY <1>2, <2>4, <3>1
  <2>6. PastTheWindow'
    <3> SUFFICES ASSUME NEW j \in Log!UnderWay', NEW c \in calls', c.guarded
                 PROVE  \/ {c.click, j} \in together
                        \/ /\ c.time <= click'[j].time
                           /\ click'[j].at = "inserting" /\ j \notin blind => c.time + Window <= click'[j].time
      BY DEF PastTheWindow
    <3>1. j \in Log!UnderWay /\ j # k /\ click'[j] = click[j]
      BY <2>1, <2>2 DEF Log!UnderWay
    <3>2. CASE c \in calls
      BY <3>1, <3>2 DEF PastTheWindow
    <3>3. CASE c = new
      BY <2>2, <3>1, <3>3
    <3> QED BY <1>2, <3>2, <3>3
  <2>7. ASSUME NEW a \in calls, a.guarded, g
        PROVE  {a.click, k} \in together \/ (a.time <= t /\ (k \notin blind => a.time + Window <= t))
    BY <2>2, <2>7 DEF PastTheWindow
  <2>8. CallsApart'
    <3> SUFFICES ASSUME NEW a \in calls', NEW b \in calls', a # b, a.guarded, b.guarded,
                        a.time <= b.time, b.time < a.time + Window
                 PROVE  Excused(a, b)
      BY DEF CallsApart, Excused
    <3>1. CASE a \in calls /\ b \in calls
      BY <3>1, CountsOnce DEF CallsApart
    <3>2. CASE a \in calls /\ b = new
      BY <2>7, <3>2 DEF Excused
    <3>3. CASE b \in calls /\ a = new
      <4>1. a.time = t /\ a.click = k /\ {a.click, b.click} = {b.click, k} /\ g
        BY <3>3
      <4>2. b.time \in Nat
        BY <3>3
      <4> HIDE DEF new
      <4> QED BY <2>7, <3>3, <4>1, <4>2 DEF Excused
    <3> QED BY <1>2, <3>1, <3>2, <3>3
  <2>9. OnRecord'
    <3>1. new \in calls' /\ new.time + Window > click'[k].time
      BY <1>2, <2>1
    <3> QED BY <1>2, <2>1, <3>1, CountsOnce DEF OnRecord
  <2> QED BY <2>2, <2>3, <2>5, <2>6, <2>8, <2>9, CountsOnce, PTL
<1> QED BY <1>1, <1>2 DEF Log!CreateActivity

LEMMA LogStep == ASSUME Window \in Nat \ {0} PROVE LogInv /\ [Log!Next]_logVars => LogInv'
<1> SUFFICES ASSUME LogInv, [Log!Next]_logVars PROVE LogInv'
  OBVIOUS
<1> USE DEF LogInv, Where, UnderWayKnown, OneCallEach
<1>1. ASSUME NEW k \in Clicks, Log!ChooseStatus(k) PROVE LogInv'
  <2>1. /\ click'[k].at = "chosen" /\ DOMAIN click' = Clicks /\ click'[k].time = 0 /\ click[k].at = "idle"
        /\ DOMAIN click'[k] = {"at", "time", "status"} /\ \A j \in Clicks \ {k} : click'[j] = click[j]
        /\ UNCHANGED <<clock, calls, together, blind>>
    BY <1>1 DEF Log!ChooseStatus
  <2>2. Where' /\ Log!UnderWay' = Log!UnderWay /\ OneCallEach' /\ UnderWayKnown'
    BY <2>1 DEF Log!UnderWay
  <2>3. PastTheWindow' /\ CallsApart' /\ OnRecord'
    BY <2>1, <2>2, CountsOnce DEF PastTheWindow, CallsApart, OnRecord, Excused, Log!UnderWay
  <2> QED BY <2>2, <2>3, CountsOnce, PTL
<1>2. ASSUME NEW k \in Clicks, Log!CreateActivityCall(k) PROVE LogInv'
  <2>1. /\ click'[k].at = "looking" /\ DOMAIN click' = Clicks /\ click'[k].time = clock /\ click[k].at = "chosen"
        /\ DOMAIN click'[k] = {"at", "time", "status"} /\ \A j \in Clicks \ {k} : click'[j] = click[j]
        /\ UNCHANGED <<clock, calls, blind>> /\ together' = together \cup {{k, j} : j \in Log!UnderWay}
    BY <1>2 DEF Log!CreateActivityCall
  <2>2. Where' /\ Log!UnderWay' = Log!UnderWay \cup {k} /\ k \notin Log!UnderWay /\ OneCallEach'
    BY <2>1 DEF Log!UnderWay
  <2>3. UnderWayKnown'
    <3> SUFFICES ASSUME NEW i \in Log!UnderWay', NEW j \in Log!UnderWay', i # j PROVE {i, j} \in together'
      BY <2>1, <2>2 DEF Log!UnderWay
    <3>1. CASE i = k
      BY <2>1, <2>2, <3>1
    <3>2. CASE j = k
      <4>1. {i, j} = {k, i}
        BY <3>2
      <4> QED BY <2>1, <2>2, <3>2, <4>1
    <3> QED BY <2>1, <2>2, <3>1, <3>2
  <2>4. PastTheWindow'
    BY <2>1, <2>2 DEF PastTheWindow, Log!UnderWay
  <2>5. CallsApart' /\ OnRecord'
    BY <2>1, CountsOnce DEF CallsApart, OnRecord, Excused
  <2> QED BY <2>2, <2>3, <2>4, <2>5, CountsOnce, PTL
<1>3. ASSUME NEW k \in Clicks, Log!Look(k) PROVE LogInv'
  <2> DEFINE found == \E c \in calls : c.time + Window > click[k].time
  <2>1. /\ click'[k].at \in {"inserting", "done"} /\ DOMAIN click' = Clicks /\ click'[k].time = click[k].time
        /\ DOMAIN click'[k] = {"at", "time", "status"} /\ \A j \in Clicks \ {k} : click'[j] = click[j]
        /\ UNCHANGED <<clock, calls, together>> /\ blind \subseteq blind' /\ click[k].at = "looking"
        /\ click'[k].at = "done" => found
        /\ click'[k].at = "inserting" /\ k \notin blind' => ~found
    BY <1>3 DEF Log!Look, Log!FindRecentManualCall
  <2>2. Where' /\ Log!UnderWay' \subseteq Log!UnderWay /\ OneCallEach' /\ UnderWayKnown'
    BY <2>1 DEF Log!UnderWay
  <2>3. PastTheWindow'
    <3> SUFFICES ASSUME NEW j \in Log!UnderWay', NEW c \in calls, c.guarded, {c.click, j} \notin together
                 PROVE  /\ c.time <= click'[j].time
                        /\ click'[j].at = "inserting" /\ j \notin blind' => c.time + Window <= click'[j].time
      BY <2>1 DEF PastTheWindow
    <3>1. CASE j = k
      BY <2>1, <2>2, <3>1 DEF PastTheWindow
    <3>2. CASE j # k
      <4>1. click'[j] = click[j] /\ j \in Log!UnderWay
        BY <2>1, <2>2, <3>2 DEF Log!UnderWay
      <4> QED BY <2>1, <4>1 DEF PastTheWindow
    <3> QED BY <3>1, <3>2
  <2>4. CallsApart' /\ OnRecord'
    BY <2>1, CountsOnce DEF CallsApart, OnRecord, Excused
  <2> QED BY <2>2, <2>3, <2>4, CountsOnce, PTL
<1>4. ASSUME NEW k \in Clicks, Log!Insert(k) PROVE LogInv'
  BY <1>4, CallAdded DEF Log!Insert
<1>5. ASSUME NEW k \in Clicks, NEW t \in 0..MaxSeconds, Log!InsertUnguarded(k, t) PROVE LogInv'
  <2>1. t \in Nat
    OBVIOUS
  <2> QED BY <1>5, <2>1, CallAdded DEF Log!InsertUnguarded
<1>6. ASSUME NEW c \in calls, NEW s \in 1..MaxPriority, Log!UpdateActivityStatus(c, s) PROVE LogInv'
  <2> DEFINE new == [c EXCEPT !.status = s]
  <2>1. calls' = (calls \ {c}) \cup {new} /\ UNCHANGED <<clock, click, together, blind>>
    BY <1>6 DEF Log!UpdateActivityStatus
  <2>2. new.click = c.click /\ new.time = c.time /\ new.guarded = c.guarded
    OBVIOUS
  <2> HIDE DEF new
  <2>3. \A d \in calls' : \E e \in calls : e.click = d.click /\ e.time = d.time /\ e.guarded = d.guarded
    BY <2>1, <2>2
  <2>4. \A e \in calls : \E d \in calls' : e.click = d.click /\ e.time = d.time
    BY <2>1, <2>2
  <2>5. \A a, b \in calls' : a.click = b.click => a = b
    BY <2>1, <2>2
  <2>6. Where' /\ UnderWayKnown' /\ OneCallEach'
    BY <2>1, <2>3, <2>5 DEF Log!UnderWay
  <2>7. PastTheWindow'
    BY <2>1, <2>3 DEF PastTheWindow, Log!UnderWay
  <2>8. CallsApart'
    <3> SUFFICES ASSUME NEW a \in calls', NEW b \in calls', a # b, a.guarded, b.guarded,
                        a.time <= b.time, b.time < a.time + Window
                 PROVE  Excused(a, b)
      BY <2>1 DEF CallsApart, Excused
    <3>1. PICK d \in calls : d.click = a.click /\ d.time = a.time /\ d.guarded = a.guarded
      BY <2>3
    <3>2. PICK e \in calls : e.click = b.click /\ e.time = b.time /\ e.guarded = b.guarded
      BY <2>3
    <3>3. d # e
      BY <2>5, <3>1, <3>2
    <3>4. Excused(d, e)
      BY <3>1, <3>2, <3>3, CountsOnce DEF CallsApart
    <3> QED BY <3>1, <3>2, <3>4 DEF Excused
  <2>9. OnRecord'
    BY <2>1, <2>4, CountsOnce DEF OnRecord
  <2> QED BY <2>6, <2>7, <2>8, <2>9, CountsOnce, PTL
<1>7. ASSUME UNCHANGED <<calls, click, together, blind>>, clock' \in Nat, clock <= clock' PROVE LogInv'
  <2>1. Where' /\ OneCallEach' /\ UnderWayKnown'
    BY <1>7 DEF Log!UnderWay
  <2>2. PastTheWindow' /\ ClicksCountOnce'
    BY <1>7 DEF PastTheWindow, ClicksCountOnce, Log!ClicksCountOnce, Log!UnderWay
  <2> QED BY <2>1, <2>2
<1>8. ASSUME Log!CreateStatus \/ (\E s \in 1..MaxPriority : Log!DeleteStatus(s)) \/ Log!Tick \/ UNCHANGED logVars
      PROVE LogInv'
  BY <1>7, <1>8 DEF Log!CreateStatus, Log!DeleteStatus, Log!Tick, logVars
<1> QED BY <1>1, <1>2, <1>3, <1>4, <1>5, <1>6, <1>8 DEF Log!Next

\* Clicks within the window are one call, but for two that were under way at
\* the same time or whose look for a recent call failed, and a click that was
\* answered is on record (create_activity_call.go:62-110).
THEOREM OneCallPerWindow == ASSUME Window \in Nat \ {0} PROVE Log!Spec => []ClicksCountOnce
<1>1. LogInv => ClicksCountOnce
  BY DEF LogInv
<1>2. LogInv /\ [Log!Next]_logVars => LogInv'
  BY LogStep
<1> QED BY <1>1, <1>2, LogInit, PTL DEF Log!Spec, Log!vars, logVars

-----------------------------------------------------------------------------
(* Streams of incoming calls. The handler and the hub must agree on who is in the map, and
   the rest of a hub's round must lie within it: the write lock of Unsubscribe is what keeps
   the second true. *)
\* A stream is in the map from Subscribe to Unsubscribe, which closes it.
Mapped ==
    /\ handler \in [Connections -> {"none", "open", "leaving", "gone"}]
    /\ clients = {s \in Connections : handler[s] \in {"open", "leaving"}}
    /\ \A s \in closed : s \in Connections /\ handler[s] = "gone"

\* A hub goes through channels of its pod that are in the map.
Rounds ==
    /\ sending \in [HubPods -> SUBSET Connections]
    /\ \A p \in HubPods : \A s \in sending[p] : PodOf[s] = p /\ s \in clients

HubInv == Mapped /\ Rounds

LEMMA HubInit == Streams!Init => HubInv
BY DEF Streams!Init, HubInv, Mapped, Rounds

\* Every step keeps the map and the rounds.
LEMMA HubStep == HubInv /\ [Streams!Next]_streamsVars => HubInv'
<1> SUFFICES ASSUME HubInv, [Streams!Next]_streamsVars PROVE HubInv'
  OBVIOUS
<1> USE DEF HubInv, Mapped, Rounds
<1>1. CASE Streams!Broadcast
  BY <1>1 DEF Streams!Broadcast
<1>2. ASSUME NEW p \in HubPods, Streams!LocalBroadcast(p) PROVE HubInv'
  BY <1>2 DEF Streams!LocalBroadcast
<1>3. ASSUME NEW s \in Connections, Streams!Subscribe(s) PROVE HubInv'
  BY <1>3 DEF Streams!Subscribe
<1>4. ASSUME NEW s \in Connections, Streams!Unsubscribe(s) PROVE HubInv'
  <2>1. Mapped'
    BY <1>4 DEF Streams!Unsubscribe
  <2>2. \A p \in HubPods : s \notin sending[p]
    BY <1>4 DEF Streams!Unsubscribe, Streams!Locked
  <2> QED BY <1>4, <2>1, <2>2 DEF Streams!Unsubscribe
<1>5. ASSUME NEW s \in Connections, Streams!SendTo(s) PROVE HubInv'
  BY <1>5 DEF Streams!SendTo
<1>6. ASSUME NEW s \in Connections, Streams!Return(s) PROVE HubInv'
  BY <1>6 DEF Streams!Return
<1>7. ASSUME NEW s \in Connections, Streams!Write(s) PROVE HubInv'
  BY <1>7 DEF Streams!Write
<1>8. ASSUME NEW s \in Connections, Streams!Leave(s) PROVE HubInv'
  BY <1>8 DEF Streams!Leave
<1>9. CASE UNCHANGED streamsVars
  BY <1>9 DEF streamsVars
<1> QED BY <1>1, <1>2, <1>3, <1>4, <1>5, <1>6, <1>7, <1>8, <1>9 DEF Streams!Next

\* No pod is ended by a send on a channel that ServeHTTP has closed.
THEOREM NeverSendsOnClosed == Streams!Spec => []NoSendOnClosed
<1>1. HubInv => NoSendOnClosed
  BY DEF HubInv, Mapped, Rounds, NoSendOnClosed, Streams!NoSendOnClosed
<1> QED BY <1>1, HubInit, HubStep, PTL DEF Streams!Spec, Streams!streamVars, streamsVars

-----------------------------------------------------------------------------
(* Users of a company, for any creations, logins, imports, deletions and mishaps. The only
   assumption is that a new account is none of the owners'. *)
\* Where a creation is, and what that says of its account and row as long as
\* its outcome is known.
Progress(c) ==
    /\ creation[c] = "idle" => c \notin keycloak \cup users \cup strangers
    /\ creation[c] \in {"password", "insert", "created", "late"} => c \in keycloak
    /\ creation[c] \in {"created", "late"} =>
          c \in users \/ \E d \in Deletions : deletion[d] = [at |-> "done", target |-> {c}]
    /\ c \notin doubts =>
          /\ creation[c] \in {"refused", "undone"} => c \notin keycloak
          /\ creation[c] \notin {"created", "late"} /\ c \in users \cup strangers => c \in entered

\* A deletion that was checked names the row it is about.
OneTarget(d) == deletion[d].at = "checked" => \E t \in Users!People : deletion[d] = [at |-> "checked", target |-> {t}]

CreationInv ==
    /\ creation \in [Creations -> {"idle", "password", "insert", "undo", "created", "late", "refused", "undone"}]
    /\ deletion \in [Deletions -> [at : {"idle", "checked", "done"}, target : SUBSET Users!People]]
    /\ \A c \in Creations : Progress(c)
    /\ \A d \in Deletions : OneTarget(d)

LEMMA CreationInit == ASSUME Creations \cap Owners = {} PROVE Users!Init => CreationInv
BY DEF Users!Init, CreationInv, Progress, OneTarget

\* Every step of creations, logins, imports and deletions keeps it.
LEMMA CreationStep ==
    ASSUME Creations \cap Owners = {} PROVE CreationInv /\ [Users!Next]_usersVars => CreationInv'
<1> SUFFICES ASSUME CreationInv, [Users!Next]_usersVars PROVE CreationInv'
  OBVIOUS
<1> USE DEF CreationInv
\* A step of one creation, which adds no row but its own.
<1>1. ASSUME NEW c \in Creations,
             Users!CreateUser(c) \/ Users!SetPassword(c) \/ Users!CreateRow(c) \/ Users!UndoAccount(c)
      PROVE CreationInv'
  <2>1. /\ creation' \in [Creations -> {"idle", "password", "insert", "undo", "created", "late", "refused", "undone"}]
        /\ UNCHANGED <<deletion, strangers, entered>>
        /\ \A b \in Creations \ {c} : /\ creation'[b] = creation[b]
                                      /\ b \in keycloak' <=> b \in keycloak
                                      /\ b \in users' <=> b \in users
                                      /\ b \in doubts' <=> b \in doubts
    BY <1>1 DEF Users!CreateUser, Users!SetPassword, Users!CreateRow, Users!UndoAccount, Users!Answer,
                Users!At, Users!Doubt
  <2>2. \A b \in Creations \ {c} : Progress(b)'
    BY <2>1 DEF Progress
  <2>3. Progress(c)'
    <3>1. CASE Users!CreateUser(c)
      BY <3>1 DEF Users!CreateUser, Users!At, Users!Doubt, Progress
    <3>2. CASE Users!SetPassword(c)
      BY <3>2 DEF Users!SetPassword, Users!At, Progress
    <3>3. CASE Users!CreateRow(c)
      BY <3>3 DEF Users!CreateRow, Users!Answer, Users!At, Users!Doubt, Progress
    <3>4. CASE Users!UndoAccount(c)
      BY <3>4 DEF Users!UndoAccount, Users!At, Users!Doubt, Progress
    <3> QED BY <1>1, <3>1, <3>2, <3>3, <3>4
  <2>4. \A d \in Deletions : OneTarget(d)'
    BY <2>1 DEF OneTarget
  <2> QED BY <2>1, <2>2, <2>3, <2>4
\* Someone without a row gets one.
<1>2. ASSUME NEW u \in Users!People, Users!JitProvisionUser(u) \/ Users!AddCompanyUser(u) PROVE CreationInv'
  <2>1. /\ UNCHANGED <<keycloak, creation, deletion, doubts>>
        /\ users \subseteq users' /\ users' \subseteq users \cup {u}
        /\ strangers' \subseteq strangers \cup {u} /\ entered' = entered \cup {u}
        /\ u \in Users!Listed \cup Users!LoggedIn
    BY <1>2 DEF Users!JitProvisionUser, Users!AddCompanyUser
  <2>2. ASSUME NEW c \in Creations PROVE Progress(c)'
    <3>1. creation[c] = "idle" => c # u
      BY <2>1 DEF Users!Listed, Users!LoggedIn, Progress
    <3> QED BY <2>1, <3>1 DEF Progress
  <2>3. \A d \in Deletions : OneTarget(d)'
    BY <2>1 DEF OneTarget
  <2> QED BY <2>1, <2>2, <2>3
<1>3. ASSUME NEW d \in Deletions, NEW u \in Users!People, NEW t \in Users!People, Users!CheckDeletion(d, u, t)
      PROVE CreationInv'
  <2>1. /\ deletion' = [deletion EXCEPT ![d] = [at |-> "checked", target |-> {t}]] /\ deletion[d].at = "idle"
        /\ UNCHANGED <<keycloak, users, strangers, creation, entered, doubts>>
    BY <1>3 DEF Users!CheckDeletion
  <2>2. deletion'[d] = [at |-> "checked", target |-> {t}] /\ \A e \in Deletions \ {d} : deletion'[e] = deletion[e]
    BY <2>1
  <2>3. \A c \in Creations : Progress(c)'
    BY <2>1, <2>2 DEF Progress
  <2> QED BY <2>1, <2>2, <2>3 DEF OneTarget
<1>4. ASSUME NEW d \in Deletions, Users!DeleteUser(d) PROVE CreationInv'
  <2>1. /\ deletion' = [deletion EXCEPT ![d].at = "done"] /\ deletion[d].at = "checked"
        /\ UNCHANGED <<keycloak, creation, entered, doubts>>
        /\ users \ deletion[d].target \subseteq users' /\ users' \subseteq users /\ strangers' \subseteq strangers
    BY <1>4 DEF Users!DeleteUser
  <2>2. PICK t \in Users!People : deletion[d] = [at |-> "checked", target |-> {t}]
    BY <2>1 DEF OneTarget
  <2>3. /\ deletion' = [deletion EXCEPT ![d] = [deletion[d] EXCEPT !.at = "done"]]
        /\ [deletion[d] EXCEPT !.at = "done"] = [at |-> "done", target |-> {t}]
    <3> DEFINE done == [at |-> "done", target |-> {t}]
    <3>1. \A T : [[at |-> "checked", target |-> T] EXCEPT !.at = "done"] = [at |-> "done", target |-> T]
      OBVIOUS
    <3> HIDE DEF done
    <3>2. [deletion[d] EXCEPT !.at = "done"] = done
      BY <2>2, <3>1, Zenon DEF done
    <3>3. deletion' = [deletion EXCEPT ![d] = [deletion[d] EXCEPT !.at = "done"]]
      BY <2>1, Zenon
    <3> QED BY <3>2, <3>3 DEF done
  <2>4. /\ deletion'[d] = [at |-> "done", target |-> {t}] /\ \A e \in Deletions \ {d} : deletion'[e] = deletion[e]
        /\ deletion' \in [Deletions -> [at : {"idle", "checked", "done"}, target : SUBSET Users!People]]
    BY <2>3
  <2>5. \A c \in Creations : c \in users /\ c \notin users' => c = t
    BY <2>1, <2>2
  <2>6. ASSUME NEW c \in Creations PROVE Progress(c)'
    <3>1. Progress(c)
      OBVIOUS
    <3>2. ASSUME NEW e \in Deletions, deletion[e] = [at |-> "done", target |-> {c}]
          PROVE  deletion'[e] = [at |-> "done", target |-> {c}]
      <4>1. deletion[e].at = "done" /\ e # d
        BY <2>1, <3>2
      <4> QED BY <2>4, <3>2, <4>1
    <3>3. CASE c \in users'
      BY <2>1, <3>1, <3>3 DEF Progress
    <3>4. CASE c \notin users' /\ c \in users
      <4>1. c = t
        BY <2>5, <3>4
      <4> QED BY <2>1, <2>4, <3>1, <3>4, <4>1 DEF Progress
    <3>5. CASE c \notin users
      BY <2>1, <3>1, <3>2, <3>5 DEF Progress
    <3> QED BY <3>3, <3>4, <3>5
  <2> QED BY <2>1, <2>4, <2>6 DEF OneTarget
<1>5. CASE UNCHANGED usersVars
  BY <1>5 DEF usersVars, Progress, OneTarget
<1> QED BY <1>1, <1>2, <1>3, <1>4, <1>5 DEF Users!Next

\* A row that was committed leaves account and row, whatever the caller was
\* told; a creation that failed leaves no account, and a row only of a person
\* who logged in or was imported, unless an answer was lost or the undoing failed.
THEOREM WholeCreations == ASSUME Creations \cap Owners = {} PROVE Users!Spec => []CreationIsWhole
<1>1. CreationInv => CreationIsWhole
  BY DEF CreationInv, Progress, CreationIsWhole, Users!CreationIsWhole
<1>2. CreationInv /\ [Users!Next]_usersVars => CreationInv'
  BY CreationStep
<1> QED BY <1>1, <1>2, CreationInit, PTL DEF Users!Spec, Users!vars, usersVars

-----------------------------------------------------------------------------
(* The Google connection of a user, for any number of grants, rotations and calls. The row
   may hold what a call under way wrote over it; the invariant follows every copy of a
   refresh token there is, in the row and in the calls. *)

Held(c) == tokenCall[c].row
Busy    == {c \in CalendarCalls : tokenCall[c].at # "idle"}

\* Every grant in use was once given by Google, and one whose consent is not
\* written yet is not in use.
GivenByGoogle ==
    /\ \A g \in consent : /\ google[g].state # "unused" /\ row.grant # g
                          /\ \A c \in Busy : Held(c).grant # g
    /\ \A g \in {row.grant, wish} \ {NoGrant} : google[g].state # "unused"
    /\ \A c \in Busy : Held(c).grant \in Grants /\ google[Held(c).grant].state # "unused"

\* A call that is under way since before the user's last wish is known as such,
\* and writes nothing but its own grant.
Strays ==
    /\ {row.grant, row.access} \ {NoGrant, wish} \subseteq astray
    /\ \A c \in Busy : Held(c).grant \in astray \cup {wish}
    /\ \A c \in Busy : tokenCall[c].at \in {"access", "rotated"} => Held(c).access = Held(c).grant

\* Nobody is ahead of Google, and a call that has a new refresh token is the only
\* one that has it.
NewestToken ==
    /\ row.grant # NoGrant => row.number <= google[row.grant].number
    /\ \A c \in Busy : Held(c).number <= google[Held(c).grant].number
    /\ \A c \in Busy : tokenCall[c].at = "rotated" =>
          /\ Held(c).number = google[Held(c).grant].number
          /\ row.grant = Held(c).grant => row.number < Held(c).number
          /\ \A b \in Busy \ {c} : Held(b).grant = Held(c).grant => Held(b).number < Held(c).number

\* A call drops the row only when Google has revoked its grant or calls rotated
\* under each other.
DropsWhatIsGone == \A c \in Busy : tokenCall[c].at = "drop" => missed \/ ~Tokens!Live(Held(c).grant)

TokenInv ==
    /\ Tokens!TypeOK
    /\ GivenByGoogle
    /\ Strays
    /\ NewestToken
    /\ DropsWhatIsGone
    /\ ConnectionIsTheUsers

LEMMA TokenInit == ASSUME NoGrant \notin Grants, MaxRotations \in Nat PROVE Tokens!Init => TokenInv
<1> SUFFICES ASSUME NoGrant \notin Grants, MaxRotations \in Nat, Tokens!Init PROVE TokenInv
  OBVIOUS
<1>1. Busy = {} /\ row = Tokens!NoRow /\ wish = NoGrant /\ consent = {} /\ astray = {} /\ missed = FALSE
  BY DEF Tokens!Init, Tokens!Rest, Busy
<1>2. Tokens!TypeOK
  <2>1. Tokens!NoRow \in Tokens!Row
    BY DEF Tokens!NoRow, Tokens!Row
  <2>2. tokenCall \in [CalendarCalls -> [at : {"idle", "use", "refresh", "access", "rotated", "drop"}, row : Tokens!Row]]
    BY <2>1 DEF Tokens!Init, Tokens!Rest
  <2>3. google \in [Grants -> [state : {"unused", "live", "revoked"}, number : 0..MaxRotations]]
    BY DEF Tokens!Init
  <2>4. missed \in BOOLEAN
    BY DEF Tokens!Init
  <2> QED BY <1>1, <2>1, <2>2, <2>3, <2>4 DEF Tokens!TypeOK
<1> QED BY <1>1, <1>2 DEF TokenInv, Tokens!NoRow, GivenByGoogle, Strays, NewestToken, DropsWhatIsGone,
           ConnectionIsTheUsers, Tokens!ConnectionIsTheUsers

LEMMA TokenTypes ==
    ASSUME NoGrant \notin Grants, MaxRotations \in Nat, TokenInv, [Tokens!Next]_tokensVars
    PROVE  Tokens!TypeOK'
<1> USE DEF Tokens!TypeOK, Tokens!Row, Tokens!NoRow, Tokens!Goes, Tokens!Ends
<1>0. Tokens!TypeOK /\ \A c \in CalendarCalls : tokenCall[c].at = "idle" \/ Held(c).grant \in Grants
  BY DEF TokenInv, GivenByGoogle, Busy
<1>00. Tokens!UnderWay \subseteq Grants
  BY <1>0 DEF Tokens!UnderWay, Held
<1>1. ASSUME NEW g \in Grants, Tokens!Exchange(g) \/ Tokens!UpsertConsent(g) \/ Tokens!RevokeAtGoogle(g) PROVE Tokens!TypeOK'
  BY <1>0, <1>00, <1>1 DEF Tokens!Exchange, Tokens!UpsertConsent, Tokens!Wishes, Tokens!RevokeAtGoogle
<1>2. ASSUME Tokens!DisconnectGoogle PROVE Tokens!TypeOK'
  BY <1>0, <1>00, <1>2 DEF Tokens!DisconnectGoogle, Tokens!Wishes
<1>3. ASSUME NEW c \in CalendarCalls, Tokens!TokenSource(c) PROVE Tokens!TypeOK'
  BY <1>0, <1>3 DEF Tokens!TokenSource
<1>4. ASSUME NEW c \in CalendarCalls, Tokens!Token(c) PROVE Tokens!TypeOK'
  <2> DEFINE held == tokenCall[c].row
  <2>1. held \in Tokens!Row /\ held.grant \in Grants /\ UNCHANGED <<row, consent, wish, astray>>
    BY <1>0, <1>4 DEF Tokens!Token, Held
  <2>2. [held EXCEPT !.access = held.grant] \in Tokens!Row
    BY <2>1
  <2>3. google[held.grant].number < MaxRotations /\ held.number = google[held.grant].number
        => [held EXCEPT !.access = held.grant, !.number = held.number + 1] \in Tokens!Row
    <3> SUFFICES ASSUME google[held.grant].number < MaxRotations, held.number = google[held.grant].number
                 PROVE  [held EXCEPT !.access = held.grant, !.number = held.number + 1] \in Tokens!Row
      OBVIOUS
    <3>1. held.number + 1 \in 0..MaxRotations
      BY <2>1
    <3> DEFINE first == [held EXCEPT !.access = held.grant]
    <3>2. [held EXCEPT !.access = held.grant, !.number = held.number + 1] = [first EXCEPT !.number = held.number + 1]
      OBVIOUS
    <3>3. \A h \in Tokens!Row, n \in 0..MaxRotations : [h EXCEPT !.number = n] \in Tokens!Row
      OBVIOUS
    <3> HIDE DEF first, Tokens!Row
    <3>4. first \in Tokens!Row
      BY <2>2 DEF first
    <3> QED BY <3>1, <3>2, <3>3, <3>4
  <2>4. google' \in [Grants -> [state : {"unused", "live", "revoked"}, number : 0..MaxRotations]]
    BY <1>0, <1>4, <2>1 DEF Tokens!Token, Tokens!Refused
  <2>5. missed' \in BOOLEAN
    BY <1>0, <1>4, Zenon DEF Tokens!Token
  <2>6. tokenCall' \in [CalendarCalls -> [at : {"idle", "use", "refresh", "access", "rotated", "drop"}, row : Tokens!Row]]
    <3>1. PICK stage \in {"idle", "access", "rotated", "drop"}, new \in Tokens!Row : Tokens!Goes(c, stage, new)
      <4> HIDE DEF Tokens!Goes, Tokens!Row
      <4>1. Tokens!NoRow \in Tokens!Row
        BY DEF Tokens!NoRow, Tokens!Row
      <4>2. \/ \E new \in {[held EXCEPT !.access = held.grant], held, Tokens!NoRow}, stage \in {"idle", "access", "drop"} :
                Tokens!Goes(c, stage, new)
            \/ /\ google[held.grant].number < MaxRotations /\ held.number = google[held.grant].number
               /\ Tokens!Goes(c, "rotated", [held EXCEPT !.access = held.grant, !.number = held.number + 1])
        BY <1>4 DEF Tokens!Token, Tokens!Refused, Tokens!Ends
      <4> QED BY <2>1, <2>2, <2>3, <4>1, <4>2
    <3> QED BY <1>0, <3>1
  <2> QED BY <1>0, <2>1, <2>4, <2>5, <2>6
<1>5. ASSUME NEW c \in CalendarCalls, Tokens!UpdateUserGoogleTokenAccess(c) PROVE Tokens!TypeOK'
  BY <1>0, <1>5 DEF Tokens!UpdateUserGoogleTokenAccess
<1>6. ASSUME NEW c \in CalendarCalls, Tokens!UpsertRotated(c) PROVE Tokens!TypeOK'
  BY <1>0, <1>6 DEF Tokens!UpsertRotated
<1>7. ASSUME NEW c \in CalendarCalls, Tokens!DropRevoked(c) \/ Tokens!Finish(c) PROVE Tokens!TypeOK'
  <2>1. missed' \in BOOLEAN
    BY <1>0, <1>7, Zenon DEF Tokens!DropRevoked, Tokens!Finish
  <2>2. row' \in Tokens!Row /\ tokenCall' = [tokenCall EXCEPT ![c] = [at |-> "idle", row |-> Tokens!NoRow]]
        /\ UNCHANGED <<google, consent, wish, astray>>
    BY <1>0, <1>7 DEF Tokens!DropRevoked, Tokens!Finish
  <2> QED BY <1>0, <2>1, <2>2
<1>8. ASSUME UNCHANGED tokensVars PROVE Tokens!TypeOK'
  BY <1>0, <1>8 DEF tokensVars
<1> QED BY <1>1, <1>2, <1>3, <1>4, <1>5, <1>6, <1>7, <1>8 DEF Tokens!Next

LEMMA TokenGoes ==
    ASSUME Tokens!TypeOK, NEW c \in CalendarCalls, NEW stage, NEW held, Tokens!Goes(c, stage, held)
    PROVE  /\ tokenCall'[c].at = stage /\ Held(c)' = held
           /\ \A b \in CalendarCalls \ {c} : tokenCall'[b].at = tokenCall[b].at /\ Held(b)' = Held(b)
BY DEF Tokens!Goes, Tokens!TypeOK, Held

\* What is known of a held row.
LEMMA HeldType ==
    ASSUME Tokens!TypeOK
    PROVE  /\ row.grant \in Grants \cup {NoGrant} /\ row.access \in Grants \cup {NoGrant} /\ row.number \in Nat
           /\ \A c \in CalendarCalls : Held(c).grant \in Grants \cup {NoGrant} /\ Held(c).number \in Nat
           /\ \A g \in Grants : google[g].number \in Nat
           /\ \A c \in Busy : c \in CalendarCalls
           /\ consent \subseteq Grants /\ wish \in Grants \cup {NoGrant}
BY DEF Tokens!TypeOK, Tokens!Row, Held, Busy

LEMMA TokenStep ==
    ASSUME NoGrant \notin Grants, MaxRotations \in Nat
    PROVE  TokenInv /\ [Tokens!Next]_tokensVars => TokenInv'
<1> SUFFICES ASSUME TokenInv, [Tokens!Next]_tokensVars
             PROVE  GivenByGoogle' /\ Strays' /\ NewestToken' /\ DropsWhatIsGone' /\ ConnectionIsTheUsers'
  BY TokenTypes DEF TokenInv
<1> DEFINE Goal == GivenByGoogle' /\ Strays' /\ NewestToken' /\ DropsWhatIsGone' /\ ConnectionIsTheUsers'
<1> USE HeldType
<1>0. Tokens!TypeOK /\ GivenByGoogle /\ Strays /\ NewestToken /\ DropsWhatIsGone /\ Tokens!ConnectionIsTheUsers
  BY DEF TokenInv, ConnectionIsTheUsers
<1>1. ASSUME NEW g \in Grants, Tokens!Exchange(g) PROVE Goal
  <2>1. /\ google[g].state = "unused" /\ google'[g].state = "live" /\ consent' = consent \cup {g}
        /\ \A h \in Grants : google'[h].number = google[h].number /\ (h # g => google'[h] = google[h])
        /\ UNCHANGED <<row, tokenCall, wish, astray, missed>>
    BY <1>0, <1>1 DEF Tokens!Exchange, Tokens!TypeOK
  <2>2. row.grant # g /\ wish # g /\ \A c \in Busy : Held(c).grant # g
    BY <1>0, <2>1 DEF GivenByGoogle
  <2>3. Busy' = Busy /\ (\A c \in CalendarCalls : Held(c)' = Held(c)) /\ wish \in Grants \cup {NoGrant}
    BY <1>0, <2>1 DEF Busy, Held, Tokens!TypeOK
  <2>4. GivenByGoogle'
    BY <1>0, <2>1, <2>2, <2>3 DEF GivenByGoogle
  <2>5. Strays' /\ NewestToken'
    BY <1>0, <2>1, <2>3 DEF GivenByGoogle, Strays, NewestToken
  <2>6. DropsWhatIsGone'
    BY <1>0, <2>1, <2>2, <2>3 DEF GivenByGoogle, DropsWhatIsGone, Tokens!Live
  <2>7. ConnectionIsTheUsers'
    BY <1>0, <2>1, <2>2, <2>3 DEF ConnectionIsTheUsers, Tokens!ConnectionIsTheUsers, Tokens!Live
  <2> QED BY <2>4, <2>5, <2>6, <2>7
\* The user asks for g, a grant or none, and it is in the row.
<1>2. ASSUME NEW g \in Grants \cup {NoGrant}, Tokens!Wishes(g), UNCHANGED <<google, tokenCall>>,
             consent' \subseteq consent, g \notin consent',
             g = NoGrant => row' = Tokens!NoRow,
             g # NoGrant => row' = [grant |-> g, number |-> google[g].number, access |-> g] /\ g \in consent
      PROVE  Goal
  <2>1. wish' = g /\ astray' = astray \cup Tokens!UnderWay /\ missed' = missed /\ row'.grant = g /\ row'.access = g
    BY <1>2 DEF Tokens!Wishes, Tokens!NoRow
  <2>2. Busy' = Busy /\ (\A c \in CalendarCalls : Held(c)' = Held(c)) /\ \A c \in Busy : Held(c).grant \in Tokens!UnderWay
    BY <1>2 DEF Busy, Held, Tokens!UnderWay
  <2>3. g # NoGrant => google[g].state # "unused" /\ row'.number = google[g].number /\ \A c \in Busy : Held(c).grant # g
    BY <1>0, <1>2 DEF GivenByGoogle
  <2>4. \A c \in Busy : Held(c).grant \in Grants
    BY <1>0 DEF GivenByGoogle
  <2>5. GivenByGoogle'
    BY <1>0, <1>2, <2>1, <2>2, <2>3 DEF GivenByGoogle
  <2>6. Strays'
    BY <1>0, <1>2, <2>1, <2>2 DEF Strays
  <2>7. NewestToken'
    BY <1>0, <1>2, <2>1, <2>2, <2>3, <2>4 DEF NewestToken
  <2>8. DropsWhatIsGone'
    BY <1>0, <1>2, <2>1, <2>2 DEF DropsWhatIsGone, Tokens!Live
  <2>9. ConnectionIsTheUsers'
    BY <1>2, <2>1, <2>3 DEF ConnectionIsTheUsers, Tokens!ConnectionIsTheUsers
  <2> QED BY <2>5, <2>6, <2>7, <2>8, <2>9
<1>3. ASSUME NEW g \in Grants, Tokens!UpsertConsent(g) PROVE Goal
  <2>1. CASE UNCHANGED <<row, wish, astray, missed>>
    <3>1. UNCHANGED <<google, tokenCall>> /\ consent' \subseteq consent
      BY <1>3 DEF Tokens!UpsertConsent
    <3>2. Busy' = Busy /\ \A c \in CalendarCalls : Held(c)' = Held(c)
      BY <3>1 DEF Busy, Held
    <3> QED BY <1>0, <2>1, <3>1, <3>2 DEF GivenByGoogle, Strays, NewestToken, DropsWhatIsGone, ConnectionIsTheUsers,
            Tokens!ConnectionIsTheUsers, Tokens!Live
  <2> QED BY <1>2, <1>3, <2>1 DEF Tokens!UpsertConsent
<1>4. ASSUME Tokens!DisconnectGoogle PROVE Goal
  BY <1>0, <1>2, <1>4 DEF Tokens!DisconnectGoogle, Tokens!TypeOK
<1>5. ASSUME NEW g \in Grants, Tokens!RevokeAtGoogle(g) PROVE Goal
  <2>1. /\ google'[g].state = "revoked" /\ UNCHANGED <<row, tokenCall, consent, wish, astray, missed>>
        /\ \A h \in Grants : google'[h].number = google[h].number /\ (h # g => google'[h] = google[h])
    BY <1>0, <1>5 DEF Tokens!RevokeAtGoogle, Tokens!TypeOK
  <2>2. Busy' = Busy /\ (\A c \in CalendarCalls : Held(c)' = Held(c)) /\ wish \in Grants \cup {NoGrant}
    BY <1>0, <2>1 DEF Busy, Held, Tokens!TypeOK
  <2>3. GivenByGoogle'
    BY <1>0, <2>1, <2>2 DEF GivenByGoogle, Tokens!TypeOK
  <2>4. Strays' /\ NewestToken'
    BY <1>0, <2>1, <2>2 DEF GivenByGoogle, Strays, NewestToken
  <2>5. DropsWhatIsGone'
    BY <1>0, <2>1, <2>2 DEF GivenByGoogle, DropsWhatIsGone, Tokens!Live
  <2>6. ConnectionIsTheUsers'
    BY <1>0, <2>1, <2>2 DEF ConnectionIsTheUsers, Tokens!ConnectionIsTheUsers, Tokens!Live
  <2> QED BY <2>3, <2>4, <2>5, <2>6
<1>6. ASSUME NEW c \in CalendarCalls, Tokens!TokenSource(c) PROVE Goal
  <2>1. PICK stage \in {"use", "refresh"} : Tokens!Goes(c, stage, row)
    BY <1>6 DEF Tokens!TokenSource
  <2>2. row.grant # NoGrant /\ UNCHANGED <<row, google, consent, wish, astray, missed>> /\ tokenCall[c].at = "idle"
    BY <1>6 DEF Tokens!TokenSource, Tokens!Connected
  <2>3. /\ tokenCall'[c].at = stage /\ Held(c)' = row
        /\ \A b \in CalendarCalls \ {c} : tokenCall'[b].at = tokenCall[b].at /\ Held(b)' = Held(b)
    BY <1>0, <2>1, TokenGoes
  <2>4. Busy' = Busy \cup {c} /\ c \notin Busy
    BY <2>2, <2>3 DEF Busy
  <2>5. GivenByGoogle'
    BY <1>0, <2>2, <2>3, <2>4 DEF GivenByGoogle
  <2>6. Strays'
    BY <1>0, <2>2, <2>3, <2>4 DEF Strays, Tokens!ConnectionIsTheUsers
  <2>7. NewestToken'
    BY <1>0, <2>2, <2>3, <2>4 DEF NewestToken
  <2>8. DropsWhatIsGone'
    BY <1>0, <2>2, <2>3, <2>4 DEF DropsWhatIsGone, Tokens!Live
  <2>9. ConnectionIsTheUsers'
    BY <1>0, <2>2, <2>3 DEF ConnectionIsTheUsers, Tokens!ConnectionIsTheUsers, Tokens!Live, Held
  <2> QED BY <2>5, <2>6, <2>7, <2>8, <2>9
\* A call goes on with the refresh token it has, or writes its access token.
<1>7. ASSUME NEW c \in Busy, NEW stage \in {"use", "access", "drop"}, NEW held, Tokens!Goes(c, stage, held),
             held.grant = Held(c).grant, held.number = Held(c).number,
             stage = "access" => held.access = held.grant,
             stage = "drop" => missed' \/ ~Tokens!Live(held.grant),
             tokenCall[c].at = "rotated" => missed', missed => missed',
             UNCHANGED <<google, consent, wish, astray>>,
             row'.grant = row.grant, row'.number = row.number,
             row'.access \in {row.access, Held(c).grant}
      PROVE  Goal
  <2>1. /\ tokenCall'[c].at = stage /\ Held(c)' = held /\ Busy' = Busy /\ c \in CalendarCalls
        /\ \A b \in CalendarCalls \ {c} : tokenCall'[b].at = tokenCall[b].at /\ Held(b)' = Held(b)
    BY <1>0, <1>7, TokenGoes DEF Busy
  <2>2. \A b \in Busy : Held(b)'.grant = Held(b).grant /\ Held(b)'.number = Held(b).number
    BY <1>7, <2>1 DEF Busy
  <2>3. \A b \in Busy : b = c \/ (tokenCall'[b].at = tokenCall[b].at /\ Held(b)' = Held(b))
    BY <2>1 DEF Busy
  <2>4. GivenByGoogle'
    BY <1>0, <1>7, <2>1, <2>2 DEF GivenByGoogle
  <2>5. Strays'
    BY <1>0, <1>7, <2>1, <2>2, <2>3 DEF Strays
  <2>6. NewestToken'
    BY <1>0, <1>7, <2>1, <2>2, <2>3 DEF NewestToken
  <2>7. DropsWhatIsGone'
    BY <1>0, <1>7, <2>1, <2>2, <2>3 DEF DropsWhatIsGone, Tokens!Live
  <2>8. ConnectionIsTheUsers'
    <3>1. {row.grant, row'.access} \ {NoGrant, wish} \subseteq astray
      BY <1>0, <1>7 DEF Tokens!ConnectionIsTheUsers, Strays
    <3>2. ~missed' => \A b \in CalendarCalls : tokenCall[b].at = "rotated" => tokenCall'[b].at = "rotated" /\ Held(b)' = Held(b)
      BY <1>7, <2>1
    <3> QED BY <1>0, <1>7, <3>1, <3>2 DEF ConnectionIsTheUsers, Tokens!ConnectionIsTheUsers, Tokens!Live, Held
  <2> QED BY <2>4, <2>5, <2>6, <2>7, <2>8
\* A call ends; the row goes only if Google refused what it had.
<1>8. ASSUME NEW c \in Busy, Tokens!Ends(c), UNCHANGED <<google, consent, wish, astray>>,
             row' \in {row, Tokens!NoRow}, row' # row => tokenCall[c].at = "drop",
             tokenCall[c].at = "rotated" => missed', missed => missed'
      PROVE  Goal
  <2>1. /\ tokenCall'[c].at = "idle" /\ Busy' = Busy \ {c} /\ c \in CalendarCalls
        /\ \A b \in CalendarCalls \ {c} : tokenCall'[b].at = tokenCall[b].at /\ Held(b)' = Held(b)
    BY <1>0, <1>8, TokenGoes DEF Busy, Tokens!Ends
  <2>2. row'.grant \in {row.grant, NoGrant} /\ (row'.grant # NoGrant => row' = row) /\ row'.access \in {row.access, NoGrant}
    BY <1>8 DEF Tokens!NoRow
  <2>3. \A b \in Busy' : b \in Busy /\ b # c /\ tokenCall'[b].at = tokenCall[b].at /\ Held(b)' = Held(b)
    BY <2>1 DEF Busy
  <2>4. GivenByGoogle'
    BY <1>0, <1>8, <2>2, <2>3 DEF GivenByGoogle
  <2>5. Strays'
    BY <1>0, <1>8, <2>2, <2>3 DEF Strays
  <2>6. NewestToken'
    <3>1. \A b \in Busy' : Held(b).grant \in Grants
      BY <1>0, <2>3 DEF GivenByGoogle
    <3> QED BY <1>0, <1>8, <2>2, <2>3, <3>1 DEF NewestToken
  <2>7. DropsWhatIsGone'
    BY <1>0, <1>8, <2>3 DEF DropsWhatIsGone, Tokens!Live
  <2>8. ConnectionIsTheUsers'
    <3>1. {row'.grant, row'.access} \ {NoGrant, wish} \subseteq astray
      BY <1>0, <2>2 DEF Tokens!ConnectionIsTheUsers
    <3>2. ~missed' => \A b \in CalendarCalls : tokenCall[b].at = "rotated" => tokenCall'[b].at = "rotated" /\ Held(b)' = Held(b)
      BY <1>8, <2>1
    <3>3. Tokens!Live(wish) /\ astray = {} /\ ~missed' => row' = row
      BY <1>0, <1>8 DEF DropsWhatIsGone, Strays
    <3> QED BY <1>0, <1>8, <3>1, <3>2, <3>3 DEF ConnectionIsTheUsers, Tokens!ConnectionIsTheUsers, Tokens!Live, Held
  <2> QED BY <2>4, <2>5, <2>6, <2>7, <2>8
<1>9. ASSUME NEW c \in CalendarCalls, Tokens!Token(c) PROVE Goal
  <2>0. c \in Busy /\ tokenCall[c].at = "refresh" /\ UNCHANGED <<row, consent, wish, astray>>
    BY <1>9 DEF Tokens!Token, Busy
  <2> PICK held \in Tokens!Row : held = Held(c)
    BY <1>0 DEF Tokens!TypeOK, Held
  <2> PICK g \in Grants : g = held.grant
    BY <1>0, <2>0 DEF GivenByGoogle
  <2> DEFINE new == [held EXCEPT !.access = g, !.number = held.number + 1]
  <2>1. /\ c \in Busy /\ tokenCall[c].at = "refresh" /\ held.number = Held(c).number
        /\ UNCHANGED <<row, consent, wish, astray>>
    BY <2>0
  <2>2. \/ UNCHANGED <<google, missed>> /\ Tokens!Goes(c, "access", [held EXCEPT !.access = g])
        \/ /\ google[g].state = "live" /\ held.number = google[g].number /\ UNCHANGED missed
           /\ google' = [google EXCEPT ![g].number = held.number + 1] /\ Tokens!Goes(c, "rotated", new)
        \/ Tokens!Goes(c, "drop", held) /\ missed' = (missed \/ Tokens!Live(g)) /\ UNCHANGED google
        \/ UNCHANGED <<google, missed>> /\ Tokens!Ends(c)
    BY <1>9 DEF Tokens!Token, Held, Tokens!Refused, Tokens!Live
  <2>3. CASE UNCHANGED <<google, missed>> /\ Tokens!Goes(c, "access", [held EXCEPT !.access = g])
    <3>1. [held EXCEPT !.access = g].grant = g /\ [held EXCEPT !.access = g].number = held.number
          /\ [held EXCEPT !.access = g].access = g
      BY <2>1 DEF Tokens!Row
    <3> QED BY <1>7, <2>1, <2>3, <3>1
  <2>4. CASE Tokens!Goes(c, "drop", held) /\ missed' = (missed \/ Tokens!Live(g)) /\ UNCHANGED google
    <3>1. (missed' \/ ~Tokens!Live(g)) /\ (missed => missed')
      BY <2>4
    <3>2. UNCHANGED google
      BY <2>4
    <3> QED BY <1>7, <2>1, <2>4, <3>1, <3>2
  <2>5. CASE UNCHANGED <<google, missed>> /\ Tokens!Ends(c)
    BY <1>8, <2>1, <2>5
  <2>6. CASE /\ google[g].state = "live" /\ held.number = google[g].number /\ UNCHANGED missed
             /\ google' = [google EXCEPT ![g].number = held.number + 1] /\ Tokens!Goes(c, "rotated", new)
    <3>1. new.grant = g /\ new.number = google[g].number + 1 /\ new.access = g
      BY <2>1, <2>6 DEF Tokens!Row
    <3> HIDE DEF new
    <3>2. /\ google'[g].number = google[g].number + 1
          /\ \A h \in Grants : google'[h].state = google[h].state /\ (h # g => google'[h] = google[h])
      BY <1>0, <2>1, <2>6 DEF Tokens!TypeOK
    <3>3. /\ tokenCall'[c].at = "rotated" /\ Held(c)' = new /\ Busy' = Busy
          /\ \A b \in CalendarCalls \ {c} : tokenCall'[b].at = tokenCall[b].at /\ Held(b)' = Held(b)
      BY <1>0, <2>1, <2>6, TokenGoes DEF Busy
    <3>4. \A b \in Busy : Held(b)'.grant = Held(b).grant /\ b \in CalendarCalls
      BY <3>1, <3>3 DEF Busy
    <3>5. \A b \in Busy : Held(b).grant = g => tokenCall[b].at # "rotated" /\ Held(b).number <= google[g].number
      <4>1. \A b \in Busy : tokenCall[b].at = "rotated" /\ Held(b).grant = g /\ b # c => held.number < Held(b).number
        BY <1>0, <2>1 DEF NewestToken
      <4>2. \A b \in Busy : Held(b).grant = g => Held(b).number <= google[g].number
        BY <1>0 DEF NewestToken
      <4>3. ASSUME NEW b \in Busy, tokenCall[b].at = "rotated", Held(b).grant = g PROVE FALSE
        <5>1. held.number < Held(b).number
          BY <2>1, <4>1, <4>3
        <5>2. held.number = google[g].number /\ google[g].number \in Nat /\ Held(b).number \in Nat
          BY <1>0, <2>6
        <5>3. Held(b).number <= google[g].number
          BY <4>2, <4>3
        <5> QED BY <5>1, <5>2, <5>3
      <4> QED BY <4>2, <4>3
    <3>6. GivenByGoogle'
      BY <1>0, <2>1, <3>2, <3>3, <3>4 DEF GivenByGoogle
    <3>7. Strays'
      BY <1>0, <2>1, <3>1, <3>3, <3>4 DEF Strays
    <3>8. NewestToken'
      <4>1. row.grant = g => row.number <= google[g].number
        BY <1>0, <2>1 DEF NewestToken
      <4>2. row'.grant # NoGrant => row'.number <= google'[row'.grant].number
        BY <1>0, <2>1, <3>2, <4>1 DEF NewestToken
      <4>3. ASSUME NEW b \in Busy PROVE Held(b)'.number <= google'[Held(b)'.grant].number
        BY <1>0, <3>1, <3>2, <3>3, <3>4, <3>5 DEF NewestToken, GivenByGoogle
      <4>4. ASSUME NEW a \in Busy, tokenCall'[a].at = "rotated"
            PROVE  /\ Held(a)'.number = google'[Held(a)'.grant].number
                   /\ row'.grant = Held(a)'.grant => row'.number < Held(a)'.number
                   /\ \A b \in Busy \ {a} : Held(b)'.grant = Held(a)'.grant => Held(b)'.number < Held(a)'.number
        <5>1. CASE a = c
          <6>1. \A b \in Busy \ {c} : Held(b).grant = g => Held(b).number <= google[g].number
            BY <3>5
          <6>2. Held(c)'.grant = g /\ Held(c)'.number = google[g].number + 1
            BY <3>1, <3>3
          <6>3. google[g].number \in Nat /\ \A b \in Busy : b \in CalendarCalls /\ Held(b).number \in Nat
            BY <1>0
          <6>4. ASSUME NEW b \in Busy \ {c}, Held(b)'.grant = g PROVE Held(b)'.number < google[g].number + 1
            <7>1. Held(b)' = Held(b)
              BY <3>3, <6>3
            <7>2. Held(b).number <= google[g].number
              BY <6>1, <6>4, <7>1
            <7> QED BY <6>3, <7>1, <7>2
          <6>5. row.grant = g => row.number < google[g].number + 1
            BY <1>0, <4>1, <6>3
          <6> QED BY <2>1, <3>2, <5>1, <6>2, <6>4, <6>5
        <5>2. CASE a # c
          <6>1. Held(a)' = Held(a) /\ tokenCall[a].at = "rotated" /\ Held(a).grant # g /\ Held(a).grant \in Grants
            BY <1>0, <3>3, <3>4, <3>5, <4>4, <5>2 DEF GivenByGoogle
          <6>2. \A b \in Busy \ {a} : Held(b)'.grant = Held(a).grant => b # c /\ Held(b)' = Held(b)
            BY <3>1, <3>3, <3>4, <6>1
          <6> QED BY <1>0, <2>1, <3>2, <6>1, <6>2 DEF NewestToken
        <5> QED BY <5>1, <5>2
      <4> QED BY <3>3, <4>2, <4>3, <4>4 DEF NewestToken
    <3>9. DropsWhatIsGone'
      BY <1>0, <2>6, <3>2, <3>3, <3>4 DEF DropsWhatIsGone, Tokens!Live, GivenByGoogle
    <3>10. ConnectionIsTheUsers'
      <4> SUFFICES ASSUME wish # NoGrant, Tokens!Live(wish)', astray = {}, ~missed
                   PROVE  /\ row.grant = wish
                          /\ \/ row.number = google'[wish].number
                             \/ \E b \in CalendarCalls : tokenCall'[b].at = "rotated" /\ Held(b)'.number = google'[wish].number
        BY <1>0, <2>1, <2>6 DEF ConnectionIsTheUsers, Tokens!ConnectionIsTheUsers, Held
      <4>1. wish \in Grants /\ g = wish
        BY <1>0, <2>1 DEF Tokens!TypeOK, Strays
      <4>2. Tokens!Live(wish)
        BY <2>1, <3>2, <4>1 DEF Tokens!Live
      <4>3. row.grant = wish
        BY <1>0, <4>2 DEF Tokens!ConnectionIsTheUsers
      <4> QED BY <3>1, <3>2, <3>3, <4>1, <4>3
    <3> QED BY <3>6, <3>7, <3>8, <3>9, <3>10
  <2> QED BY <2>2, <2>3, <2>4, <2>5, <2>6
<1>10. ASSUME NEW c \in CalendarCalls, Tokens!UpdateUserGoogleTokenAccess(c) PROVE Goal
  <2>1. /\ c \in Busy /\ tokenCall[c].at = "access" /\ Held(c).access = Held(c).grant
        /\ Tokens!Goes(c, "use", Held(c)) /\ UNCHANGED <<google, consent, wish, astray, missed>>
    BY <1>0, <1>10 DEF Tokens!UpdateUserGoogleTokenAccess, Busy, Held, Strays
  <2>2. row'.grant = row.grant /\ row'.number = row.number /\ row'.access \in {row.access, Held(c).access}
    BY <1>0, <1>10 DEF Tokens!UpdateUserGoogleTokenAccess, Held, Tokens!TypeOK, Tokens!Row
  <2> QED BY <1>7, <2>1, <2>2
<1>11. ASSUME NEW c \in CalendarCalls, Tokens!UpsertRotated(c) PROVE Goal
  <2>1. /\ c \in Busy /\ tokenCall[c].at = "rotated" /\ Tokens!Goes(c, "use", Held(c))
        /\ UNCHANGED <<google, consent, wish, astray>>
    BY <1>11 DEF Tokens!UpsertRotated, Busy, Held
  <2>2. CASE UNCHANGED row /\ missed' = TRUE
    BY <1>7, <2>1, <2>2
  <2>3. CASE row' = Held(c) /\ UNCHANGED missed
    <3>1. /\ tokenCall'[c].at = "use" /\ Busy' = Busy /\ \A b \in Busy : Held(b)' = Held(b) /\ b \in CalendarCalls
          /\ \A b \in CalendarCalls \ {c} : tokenCall'[b].at = tokenCall[b].at
      BY <1>0, <2>1, TokenGoes DEF Busy
    <3>2. /\ Held(c).grant \in Grants /\ Held(c).access = Held(c).grant /\ Held(c).grant \in astray \cup {wish}
          /\ Held(c).number = google[Held(c).grant].number
      BY <1>0, <2>1 DEF GivenByGoogle, Strays, NewestToken
    <3>3. GivenByGoogle'
      BY <1>0, <2>1, <2>3, <3>1 DEF GivenByGoogle
    <3>4. Strays'
      BY <1>0, <2>1, <2>3, <3>1, <3>2 DEF Strays
    <3>5. NewestToken'
      <4>1. \A b \in Busy : tokenCall'[b].at = "rotated" => b # c /\ tokenCall[b].at = "rotated" /\ Held(b).grant # Held(c).grant
        <5>1. \A b \in Busy \ {c} : tokenCall[b].at = "rotated" /\ Held(b).grant = Held(c).grant => FALSE
          BY <1>0, <2>1 DEF NewestToken
        <5> QED BY <3>1, <5>1
      <4> QED BY <1>0, <2>1, <2>3, <3>1, <3>2, <4>1 DEF NewestToken
    <3>6. DropsWhatIsGone'
      BY <1>0, <2>1, <2>3, <3>1 DEF DropsWhatIsGone, Tokens!Live
    <3>7. ConnectionIsTheUsers'
      BY <2>1, <2>3, <3>2 DEF ConnectionIsTheUsers, Tokens!ConnectionIsTheUsers, Tokens!Live
    <3> QED BY <3>3, <3>4, <3>5, <3>6, <3>7
  <2> QED BY <1>11, <2>2, <2>3 DEF Tokens!UpsertRotated, Held
<1>12. ASSUME NEW c \in CalendarCalls, Tokens!DropRevoked(c) \/ Tokens!Finish(c) PROVE Goal
  <2>1. /\ c \in Busy /\ Tokens!Ends(c) /\ UNCHANGED <<google, consent, wish, astray>>
        /\ row' \in {row, Tokens!NoRow} /\ (row' # row => tokenCall[c].at = "drop")
    BY <1>12 DEF Tokens!DropRevoked, Tokens!Finish, Busy
  <2>2. (tokenCall[c].at = "rotated" => missed') /\ (missed => missed')
    <3>1. CASE Tokens!DropRevoked(c)
      BY <3>1 DEF Tokens!DropRevoked
    <3>2. CASE Tokens!Finish(c)
      BY <3>2, Zenon DEF Tokens!Finish
    <3> QED BY <1>12, <3>1, <3>2
  <2> QED BY <1>8, <2>1, <2>2
<1>13. ASSUME UNCHANGED tokensVars PROVE Goal
  <2>1. Busy' = Busy /\ \A c \in CalendarCalls : Held(c)' = Held(c)
    BY <1>13 DEF tokensVars, Busy, Held
  <2> QED BY <1>0, <1>13, <2>1 DEF tokensVars, GivenByGoogle, Strays, NewestToken, DropsWhatIsGone, ConnectionIsTheUsers,
          Tokens!ConnectionIsTheUsers, Tokens!Live
<1> QED BY <1>1, <1>3, <1>4, <1>5, <1>6, <1>9, <1>10, <1>11, <1>12, <1>13 DEF Tokens!Next

\* The row is the account the user asked for last (real.go:161), whatever calls
\* refresh, rotate and fail meanwhile, for any number of grants and calls.
THEOREM ConnectionStays ==
    ASSUME NoGrant \notin Grants, MaxRotations \in Nat
    PROVE  Tokens!Spec => []ConnectionIsTheUsers
<1>1. TokenInv => ConnectionIsTheUsers
  BY DEF TokenInv
<1>2. TokenInv /\ [Tokens!Next]_tokensVars => TokenInv'
  BY TokenStep
<1>3. Tokens!Init => TokenInv
  BY TokenInit
<1> QED BY <1>1, <1>2, <1>3, PTL DEF Tokens!Spec, Tokens!vars, tokensVars

-----------------------------------------------------------------------------
(* Domains without mail, for any domains, askers and lifetime of an entry. What an asker
   says "no" by is at most one tick old when it is stored, since no lookup lasts longer. *)

\* An asker that looks something up began in this tick or the one before.
NoLongLookup ==
    \A a \in Askers : since[a] <= dnsClock /\ (Health!Idle(a) \/ since[a] >= dnsClock - 1)

\* When it is about to say "no", the domain was without mail since it began.
DeniedSince == \A a \in Askers, d \in Domains : look[a][d] = "deny" => lastGone[d] >= since[a]

\* A stored "no" is dated one tick too late at most.
StoredNo ==
    \A d \in Domains :
        cache[d].has = "no" /\ cache[d].checked # Health!Never => lastGone[d] >= cache[d].checked - 1

GoneByNow == \A d \in Domains : lastGone[d] <= dnsClock

HealthInv == Health!TypeOK /\ NoLongLookup /\ DeniedSince /\ StoredNo /\ GoneByNow

LEMMA HealthNumbers ==
    ASSUME Ttl \in Nat \ {0}, MaxHours \in Nat, Health!TypeOK
    PROVE  /\ dnsClock \in Nat /\ Health!Never = -(Ttl + 1) /\ Health!Never \in Int
           /\ \A a \in Askers : since[a] \in Nat
           /\ \A d \in Domains : lastGone[d] \in Int /\ cache[d].checked \in Int
           /\ \A d \in Domains : lastGone[d] \in Health!Ages
           /\ dnsClock \in Health!Ages
BY DEF Health!TypeOK, Health!Ages, Health!Never

LEMMA HealthGoes ==
    ASSUME Health!TypeOK, NEW a \in Askers, NEW d \in Domains, NEW stage \in Health!Stages, Health!Goes(a, d, stage)
    PROVE  /\ look' \in [Askers -> [Domains -> Health!Stages]]
           /\ look'[a][d] = stage
           /\ \A b \in Askers, e \in Domains : b # a \/ e # d => look'[b][e] = look[b][e]
<1>1. look[a] \in [Domains -> Health!Stages]
  BY DEF Health!TypeOK
<1>2. [look[a] EXCEPT ![d] = stage] \in [Domains -> Health!Stages]
  BY <1>1
<1> QED BY <1>1, <1>2 DEF Health!TypeOK, Health!Goes

LEMMA HealthInit == ASSUME Ttl \in Nat \ {0}, MaxHours \in Nat PROVE Health!Init => HealthInv
BY DEF Health!Init, HealthInv, Health!TypeOK, Health!Idle, Health!Never, Health!Records, Health!Stages, Health!Results,
       Health!Ages, NoLongLookup, DeniedSince, StoredNo, GoneByNow

\* One lookup goes on, and nothing is stored.
LEMMA LookupStep ==
    ASSUME Ttl \in Nat \ {0}, MaxHours \in Nat, HealthInv,
           NEW a \in Askers, NEW d \in Domains, NEW stage \in Health!Stages, Health!Goes(a, d, stage),
           look[a][d] # "none",
           \/ stage # "deny" /\ UNCHANGED lastGone
           \/ lastGone' = [lastGone EXCEPT ![d] = dnsClock],
           UNCHANGED <<dns, dnsClock, since>>,
           cache' = cache
    PROVE  HealthInv'
<1> USE HealthNumbers DEF HealthInv
<1>1. /\ look' \in [Askers -> [Domains -> Health!Stages]]
      /\ look'[a][d] = stage
      /\ \A b \in Askers, e \in Domains : b # a \/ e # d => look'[b][e] = look[b][e]
  BY HealthGoes
<1>2. Health!TypeOK'
  BY <1>1 DEF Health!TypeOK
<1>3. /\ \A e \in Domains : lastGone'[e] \in Int /\ lastGone'[e] >= lastGone[e] /\ lastGone'[e] <= dnsClock
      /\ stage = "deny" => lastGone'[d] = dnsClock
  BY DEF Health!TypeOK, GoneByNow
<1>4. ~Health!Idle(a) /\ \A b \in Askers \ {a} : Health!Idle(b)' => Health!Idle(b)
  BY <1>1 DEF Health!Idle
<1>5. NoLongLookup'
  BY <1>1, <1>4 DEF NoLongLookup, Health!Idle
<1>6. DeniedSince'
  BY <1>1, <1>3 DEF DeniedSince, NoLongLookup
<1>7. StoredNo' /\ GoneByNow'
  BY <1>3 DEF StoredNo, GoneByNow
<1> QED BY <1>2, <1>5, <1>6, <1>7

LEMMA HealthStep ==
    ASSUME Ttl \in Nat \ {0}, MaxHours \in Nat
    PROVE  HealthInv /\ [Health!Next]_healthVars => HealthInv'
<1> SUFFICES ASSUME HealthInv, [Health!Next]_healthVars PROVE HealthInv'
  OBVIOUS
<1> USE HealthNumbers DEF HealthInv
<1>0. {"yes", "no", "unknown", "mx", "host", "keep", "deny", "none"} \subseteq Health!Stages
  BY DEF Health!Stages, Health!Results
<1>1. ASSUME NEW d \in Domains PROVE Health!FromCache(d) \in {"yes", "no", "mx"}
  BY DEF Health!FromCache, Health!TypeOK
\* An asker begins.
<1>2. ASSUME NEW a \in Askers, \A d \in Domains : look'[a][d] \in {"yes", "no", "mx", "none"},
             \A b \in Askers \ {a} : look'[b] = look[b],
             look' \in [Askers -> [Domains -> Health!Stages]],
             since' = [since EXCEPT ![a] = dnsClock],
             UNCHANGED <<dns, cache, dnsClock, lastGone>>
      PROVE  HealthInv'
  <2>1. since' \in [Askers -> 0..MaxHours]
    BY <1>2 DEF Health!TypeOK
  <2>2. Health!TypeOK'
    BY <1>2, <2>1 DEF Health!TypeOK
  <2>3. since'[a] = dnsClock /\ \A b \in Askers \ {a} : since'[b] = since[b]
    BY <1>2 DEF Health!TypeOK
  <2>4. \A b \in Askers \ {a} : Health!Idle(b)' <=> Health!Idle(b)
    BY <1>2 DEF Health!Idle
  <2>5. NoLongLookup'
    BY <1>2, <2>3, <2>4 DEF NoLongLookup
  <2>6. DeniedSince'
    BY <1>2, <2>3 DEF DeniedSince
  <2> QED BY <1>2, <2>2, <2>5, <2>6 DEF StoredNo, GoneByNow
<1>3. ASSUME NEW a \in Askers, NEW d \in Domains, Health!Check(a, d) PROVE HealthInv'
  <2>1. PICK stage \in {"yes", "no", "mx"} : Health!Goes(a, d, stage)
    BY <1>1, <1>3 DEF Health!Check
  <2>2. /\ look' \in [Askers -> [Domains -> Health!Stages]] /\ look'[a][d] = stage
        /\ \A b \in Askers, e \in Domains : b # a \/ e # d => look'[b][e] = look[b][e]
    BY <1>0, <2>1, HealthGoes
  <2>3. \A e \in Domains : look'[a][e] \in {"yes", "no", "mx", "none"}
    BY <1>3, <2>1, <2>2 DEF Health!Check, Health!Idle
  <2>4. \A b \in Askers \ {a} : look'[b] = look[b]
    BY <2>1 DEF Health!Goes, Health!TypeOK
  <2> QED BY <1>2, <1>3, <2>2, <2>3, <2>4 DEF Health!Check
<1>4. ASSUME NEW a \in Askers, Health!CheckMany(a) PROVE HealthInv'
  <2>1. PICK f \in [Domains -> {"yes", "no", "mx"}] : look' = [look EXCEPT ![a] = f]
    <3>1. [d \in Domains |-> Health!FromCache(d)] \in [Domains -> {"yes", "no", "mx"}]
      BY <1>1
    <3>2. [d \in Domains |-> "mx"] \in [Domains -> {"yes", "no", "mx"}]
      OBVIOUS
    <3> QED BY <1>4, <3>1, <3>2 DEF Health!CheckMany
  <2>2. f \in [Domains -> Health!Stages]
    BY <1>0
  <2>3. /\ look' \in [Askers -> [Domains -> Health!Stages]] /\ look'[a] = f
        /\ \A b \in Askers \ {a} : look'[b] = look[b]
    BY <2>1, <2>2 DEF Health!TypeOK
  <2> QED BY <1>2, <1>4, <2>3 DEF Health!CheckMany
<1>5. ASSUME NEW a \in Askers, NEW d \in Domains, Health!LookupMX(a, d) \/ Health!LookupHost(a, d)
      PROVE  HealthInv'
  <2>1. PICK stage \in {"keep", "host", "unknown", "deny"} :
           /\ Health!Goes(a, d, stage)
           /\ \/ stage # "deny" /\ UNCHANGED lastGone
              \/ lastGone' = [lastGone EXCEPT ![d] = dnsClock]
    BY <1>5 DEF Health!LookupMX, Health!LookupHost
  <2>2. look[a][d] # "none" /\ UNCHANGED <<dns, cache, dnsClock, since>>
    BY <1>5 DEF Health!LookupMX, Health!LookupHost
  <2> QED BY <1>0, <2>1, <2>2, LookupStep
<1>6. ASSUME NEW a \in Askers, NEW d \in Domains, Health!UpsertDomainHealth(a, d) PROVE HealthInv'
  <2> DEFINE answer == IF look[a][d] = "keep" THEN "yes" ELSE "no"
  <2>1. /\ look[a][d] \in {"keep", "deny"} /\ UNCHANGED <<dns, dnsClock, since, lastGone>>
        /\ Health!Goes(a, d, answer)
        /\ cache' \in {cache, [cache EXCEPT ![d] = [has |-> answer, checked |-> dnsClock]]}
    BY <1>6 DEF Health!UpsertDomainHealth
  <2>2. answer = "no" => lastGone[d] >= dnsClock - 1
    <3>1. ~Health!Idle(a)
      BY <2>1 DEF Health!Idle
    <3> QED BY <2>1, <3>1 DEF DeniedSince, NoLongLookup
  <2>3. /\ look' \in [Askers -> [Domains -> Health!Stages]] /\ look'[a][d] = answer
        /\ \A b \in Askers, e \in Domains : b # a \/ e # d => look'[b][e] = look[b][e]
    BY <1>0, <2>1, HealthGoes
  <2>4. Health!TypeOK'
    <3>1. [has |-> answer, checked |-> dnsClock] \in [has : {"yes", "no"}, checked : Health!Ages]
      OBVIOUS
    <3> HIDE DEF answer
    <3>2. cache' \in [Domains -> [has : {"yes", "no"}, checked : Health!Ages]]
      BY <2>1, <3>1 DEF Health!TypeOK
    <3> QED BY <2>1, <2>3, <3>2 DEF Health!TypeOK
  <2>5. StoredNo'
    <3> HIDE DEF answer
    <3> DEFINE new == [has |-> answer, checked |-> dnsClock]
    <3>1. new.has = answer /\ new.checked = dnsClock
      OBVIOUS
    <3> HIDE DEF new
    <3>2. cache' = cache \/ cache' = [cache EXCEPT ![d] = new]
      BY <2>1 DEF new
    <3>3. \A e \in Domains : cache'[e] = cache[e] \/ (e = d /\ cache'[e] = new)
      BY <3>2 DEF Health!TypeOK
    <3> QED BY <2>1, <2>2, <3>1, <3>3 DEF StoredNo
  <2>6. \A b \in Askers : Health!Idle(b) => Health!Idle(b)'
    BY <2>1, <2>3 DEF Health!Idle
  <2>7. NoLongLookup' /\ GoneByNow'
    BY <2>1, <2>6 DEF NoLongLookup, GoneByNow
  <2>8. DeniedSince'
    <3> HIDE DEF answer
    <3>1. answer # "deny"
      BY DEF answer
    <3>2. \A b \in Askers, e \in Domains : look'[b][e] = "deny" => look[b][e] = "deny"
      BY <2>3, <3>1
    <3> QED BY <2>1, <3>2 DEF DeniedSince
  <2> QED BY <2>4, <2>5, <2>7, <2>8
<1>7. ASSUME NEW a \in Askers, Health!BudgetSpent(a) PROVE HealthInv'
  <2>1. /\ \A d \in Domains : look'[a][d] \in Health!Stages \ {"deny"}
        /\ \A b \in Askers \ {a} : look'[b] = look[b]
        /\ look' \in [Askers -> [Domains -> Health!Stages]]
    <3> DEFINE f == [d \in Domains |->
                  CASE look[a][d] = "mx" -> "unknown"
                    [] look[a][d] \in {"host", "deny"} -> "no"
                    [] look[a][d] = "keep" -> "yes"
                    [] OTHER -> look[a][d]]
    <3>1. \A d \in Domains : look[a][d] \in Health!Stages
      BY DEF Health!TypeOK
    <3>2. \A d \in Domains : f[d] \in Health!Stages \ {"deny"}
      BY <1>0, <3>1
    <3>3. look' = [look EXCEPT ![a] = f] /\ f \in [Domains -> Health!Stages]
      BY <1>7, <3>2 DEF Health!BudgetSpent
    <3> HIDE DEF f
    <3> QED BY <3>2, <3>3 DEF Health!TypeOK
  <2>2. /\ UNCHANGED <<dns, cache, dnsClock, since>> /\ ~Health!Idle(a)
        /\ lastGone' = [d \in Domains |-> IF look[a][d] = "host" THEN dnsClock ELSE lastGone[d]]
    BY <1>7 DEF Health!BudgetSpent
  <2>3. \A d \in Domains : lastGone'[d] >= lastGone[d] /\ lastGone'[d] <= dnsClock
    BY <2>2 DEF GoneByNow
  <2>4. Health!TypeOK'
    BY <2>1, <2>2 DEF Health!TypeOK
  <2>5. NoLongLookup'
    <3>1. \A b \in Askers : Health!Idle(b) => Health!Idle(b)' \/ b = a
      BY <2>1 DEF Health!Idle
    <3>2. since[a] >= dnsClock - 1
      BY <2>2 DEF NoLongLookup
    <3>3. \A b \in Askers \ {a} : Health!Idle(b) => Health!Idle(b)'
      BY <3>1
    <3>4. ASSUME NEW b \in Askers PROVE since[b] <= dnsClock /\ (Health!Idle(b)' \/ since[b] >= dnsClock - 1)
      BY <3>2, <3>3 DEF NoLongLookup
    <3> QED BY <2>2, <3>4 DEF NoLongLookup
  <2>6. DeniedSince' /\ StoredNo' /\ GoneByNow'
    <3>1. \A b \in Askers : \A d \in Domains : look'[b][d] = "deny" => look[b][d] = "deny"
      BY <2>1
    <3> QED BY <2>2, <2>3, <2>4, <3>1 DEF DeniedSince, StoredNo, GoneByNow, Health!TypeOK, Health!Ages
  <2> QED BY <2>4, <2>5, <2>6
<1>8. ASSUME NEW a \in Askers, Health!Decide(a) PROVE HealthInv'
  <2>1. /\ look' = [look EXCEPT ![a] = [d \in Domains |-> "none"]]
        /\ UNCHANGED <<dns, cache, dnsClock, since, lastGone>>
    BY <1>8 DEF Health!Decide
  <2>2. Health!TypeOK'
    BY <1>0, <2>1 DEF Health!TypeOK
  <2>3. /\ \A d \in Domains : look'[a][d] = "none"
        /\ \A b \in Askers \ {a} : look'[b] = look[b]
    BY <2>1 DEF Health!TypeOK
  <2>4. \A b \in Askers : Health!Idle(b) => Health!Idle(b)'
    BY <2>3 DEF Health!Idle
  <2>5. NoLongLookup' /\ DeniedSince' /\ StoredNo' /\ GoneByNow'
    BY <2>1, <2>3, <2>4 DEF NoLongLookup, DeniedSince, StoredNo, GoneByNow
  <2> QED BY <2>2, <2>5
<1>9. ASSUME NEW d \in Domains, Health!RecordsChange(d) PROVE HealthInv'
  <2>1. /\ dns' \in [Domains -> Health!Records] /\ UNCHANGED <<cache, dnsClock, look, since>>
        /\ lastGone' \in {lastGone, [lastGone EXCEPT ![d] = dnsClock]}
    BY <1>9 DEF Health!RecordsChange
  <2>2. Health!TypeOK'
    BY <2>1 DEF Health!TypeOK
  <2>3. \A e \in Domains : lastGone'[e] \in Int /\ lastGone'[e] >= lastGone[e] /\ lastGone'[e] <= dnsClock
    BY <2>1 DEF GoneByNow, Health!TypeOK
  <2>4. \A b \in Askers : Health!Idle(b) <=> Health!Idle(b)'
    BY <2>1 DEF Health!Idle
  <2>5. NoLongLookup' /\ DeniedSince' /\ StoredNo' /\ GoneByNow'
    BY <2>1, <2>3, <2>4 DEF NoLongLookup, DeniedSince, StoredNo, GoneByNow
  <2> QED BY <2>2, <2>5
<1>10. ASSUME Health!Tick PROVE HealthInv'
  <2>1. /\ dnsClock < MaxHours /\ dnsClock' = dnsClock + 1 /\ UNCHANGED <<dns, cache, look, since>>
        /\ \A a \in Askers : Health!Idle(a) \/ since[a] = dnsClock
        /\ lastGone' = [d \in Domains |-> IF dns[d] = "nothing" THEN dnsClock + 1 ELSE lastGone[d]]
    BY <1>10 DEF Health!Tick
  <2>2. dnsClock + 1 \in Health!Ages /\ dnsClock + 1 \in 0..MaxHours
    BY <2>1 DEF Health!Ages
  <2>3. Health!TypeOK'
    BY <2>1, <2>2 DEF Health!TypeOK
  <2>4. \A d \in Domains : lastGone'[d] \in Int /\ lastGone'[d] >= lastGone[d] /\ lastGone'[d] <= dnsClock'
    BY <2>1 DEF GoneByNow
  <2>5. \A b \in Askers : Health!Idle(b) <=> Health!Idle(b)'
    BY <2>1 DEF Health!Idle
  <2>6. NoLongLookup' /\ DeniedSince' /\ StoredNo' /\ GoneByNow'
    BY <2>1, <2>4, <2>5 DEF NoLongLookup, DeniedSince, StoredNo, GoneByNow
  <2> QED BY <2>3, <2>6
<1>11. ASSUME UNCHANGED healthVars PROVE HealthInv'
  BY <1>11 DEF healthVars, Health!TypeOK, NoLongLookup, DeniedSince, StoredNo, GoneByNow, Health!Idle
<1> QED BY <1>3, <1>4, <1>5, <1>6, <1>7, <1>8, <1>9, <1>10, <1>11 DEF Health!Next

\* Nobody is refused a mail because of what DNS said longer ago than an entry
\* lives (health.go:138).
THEOREM RefusalsHaveEvidence ==
    ASSUME Ttl \in Nat \ {0}, MaxHours \in Nat
    PROVE  Health!Spec => RefusedOnEvidence
<1> DEFINE Recent(a, d) == look'[a][d] = "no" /\ look[a][d] # "no" => dnsClock - lastGone'[d] <= Ttl
<1>1. ASSUME HealthInv, Health!Next, NEW b \in Askers, NEW e \in Domains, look'[b][e] = "no", look[b][e] # "no"
      PROVE  dnsClock - lastGone'[e] <= Ttl
  <2> USE <1>1, HealthNumbers DEF HealthInv
  <2>1. ASSUME Health!FromCache(e) = "no" PROVE dnsClock - lastGone[e] <= Ttl
    BY <2>1 DEF Health!FromCache, Health!Fresh, StoredNo
  <2>2. ASSUME look[b][e] = "deny" PROVE dnsClock - lastGone[e] <= Ttl
    <3>1. ~Health!Idle(b)
      BY <2>2 DEF Health!Idle
    <3> QED BY <2>2, <3>1 DEF DeniedSince, NoLongLookup
  <2>3. ASSUME NEW a \in Askers, NEW d \in Domains, Health!Check(a, d) PROVE dnsClock - lastGone'[e] <= Ttl
    BY <2>1, <2>3 DEF Health!Check, Health!Goes, Health!TypeOK
  <2>4. ASSUME NEW a \in Askers, Health!CheckMany(a) PROVE dnsClock - lastGone'[e] <= Ttl
    <3>1. UNCHANGED lastGone /\ look'[a][e] \in {Health!FromCache(e), "mx"}
          /\ \A c \in Askers \ {a} : look'[c] = look[c]
      BY <2>4 DEF Health!CheckMany, Health!TypeOK
    <3> QED BY <2>1, <3>1
  <2>5. ASSUME NEW a \in Askers, NEW d \in Domains, Health!LookupMX(a, d) \/ Health!LookupHost(a, d)
        PROVE  FALSE
    <3>1. PICK s \in {"keep", "host", "unknown", "deny"} :
             look' = [look EXCEPT ![a] = [look[a] EXCEPT ![d] = s]]
      BY <2>5 DEF Health!LookupMX, Health!LookupHost, Health!Goes
    <3> QED BY <3>1 DEF Health!TypeOK
  <2>6. ASSUME NEW a \in Askers, NEW d \in Domains, Health!UpsertDomainHealth(a, d)
        PROVE  dnsClock - lastGone'[e] <= Ttl
    BY <2>2, <2>6 DEF Health!UpsertDomainHealth, Health!Goes, Health!TypeOK
  <2>7. ASSUME NEW a \in Askers, Health!BudgetSpent(a) PROVE dnsClock - lastGone'[e] <= Ttl
    BY <2>2, <2>7 DEF Health!BudgetSpent, Health!TypeOK
  <2>8. ASSUME NEW a \in Askers, Health!Decide(a) PROVE FALSE
    BY <2>8 DEF Health!Decide, Health!TypeOK
  <2>9. ASSUME NEW d \in Domains, Health!RecordsChange(d) \/ Health!Tick PROVE FALSE
    BY <2>9 DEF Health!RecordsChange, Health!Tick
  <2> QED BY <2>3, <2>4, <2>5, <2>6, <2>7, <2>8, <2>9 DEF Health!Next
<1>2. HealthInv /\ [Health!Next]_healthVars => [\A a \in Askers, d \in Domains : Recent(a, d)]_healthVars
  BY <1>1
<1>3. HealthInv /\ [Health!Next]_healthVars => HealthInv'
  BY HealthStep
<1>4. Health!Init => HealthInv
  BY HealthInit
<1> QED BY <1>2, <1>3, <1>4, PTL DEF Health!Spec, RefusedOnEvidence, Health!RefusedOnEvidence, Health!vars, healthVars

-----------------------------------------------------------------------------
(* Mail accounts, for any number of requests, companies and failures. A request that runs
   alone knows what the mail server has; one that does not vouches for no row. *)

AtStage(k, stages) == k \in AccountRequests /\ request[k].at \in stages
NoneMade == \A k \in AccountRequests : ~request[k].made

\* Two requests at a time have crossed, and then every row is left behind.
CrossingKnown ==
    /\ \A j, k \in AccountRequests : Accounts!Busy(j) /\ Accounts!Busy(k) /\ j # k => j \in crossing
    /\ \A k \in crossing : request[k].at # "idle"
    /\ \A k \in crossing : Accounts!Busy(k) => stale = Companies

\* What a request that is alone knows of the account.
HasTheAccount(k) == k \notin crossing /\ AtStage(k, {"insert", "update"}) => account = k

\* The password in the row of c opens the account but while it is being changed.
RowOpens(c) ==
    mailbox[c].id # Accounts!None =>
        \/ c \in stale
        \/ account = mailbox[c].password
        \/ \E k \in AccountRequests : AtStage(k, {"update"}) /\ Company[k] = c

\* An account somebody made without a row is about to be removed or filed.
MadeIsKnown ==
    crossing = {} /\ ~orphaned /\ Accounts!Registered = {} =>
        \/ account = Accounts!None
        \/ NoneMade
        \/ \E k \in AccountRequests :
              AtStage(k, {"remove"}) \/ (AtStage(k, {"insert", "rollback"}) /\ request[k].made)

RowsMade == \A c \in Companies : mailbox[c].id # Accounts!None => mailbox[c].password \in AccountRequests

AccountsInv ==
    /\ Accounts!TypeOK
    /\ RowsMade
    /\ CrossingKnown
    /\ \A k \in AccountRequests : HasTheAccount(k)
    /\ \A c \in Companies : RowOpens(c)
    /\ MadeIsKnown

Mailboxes == [id : AccountRequests \cup {Accounts!None}, password : AccountRequests \cup {Accounts!None},
              owned : BOOLEAN]

AccountsConstants ==
    /\ AccountFaults \in Nat
    /\ Accounts!None \notin AccountRequests
    /\ Company \in [AccountRequests -> Companies]

LEMMA AccountsInit == ASSUME AccountsConstants PROVE Accounts!Init => AccountsInv
<1> SUFFICES ASSUME AccountsConstants, Accounts!Init PROVE AccountsInv
  OBVIOUS
<1>1. Accounts!TypeOK
  <2>1. Accounts!NoMailbox \in Mailboxes
    BY DEF Accounts!NoMailbox, Mailboxes
  <2>2. mailbox \in [Companies -> Mailboxes]
    BY <2>1 DEF Accounts!Init
  <2>3. request \in [AccountRequests -> [at : {"idle", "adopt", "insert", "rollback", "remove", "permit",
                                               "update", "done"},
                                         made : BOOLEAN, id : AccountRequests \cup {Accounts!None}]]
    BY DEF Accounts!Init
  <2>4. account \in AccountRequests \cup {Accounts!Foreign, Accounts!None} /\ accountFaults \in 0..AccountFaults
    BY DEF AccountsConstants, Accounts!Init
  <2> QED BY <2>2, <2>3, <2>4 DEF Accounts!Init, Accounts!TypeOK, Mailboxes, Accounts!Passwords
<1>2. /\ \A c \in Companies : mailbox[c].id = Accounts!None
      /\ \A k \in AccountRequests : request[k].at = "idle" /\ ~request[k].made /\ ~Accounts!Busy(k)
      /\ crossing = {}
  BY DEF Accounts!Init, Accounts!NoMailbox, Accounts!Busy
<1> QED BY <1>1, <1>2 DEF AccountsInv, RowsMade, CrossingKnown, HasTheAccount, AtStage, RowOpens, MadeIsKnown, NoneMade

LEMMA AccountsTypes ==
    ASSUME AccountsConstants, Accounts!TypeOK, [Accounts!Next]_accountsVars
    PROVE  Accounts!TypeOK'
<1> USE DEF AccountsConstants, Accounts!TypeOK, Accounts!Go, Accounts!Fault, Accounts!Passwords
<1> DEFINE MailRows == [Companies -> Mailboxes]
           Stages == [at : {"idle", "adopt", "insert", "rollback", "remove", "permit", "update", "done"},
                      made : BOOLEAN, id : AccountRequests \cup {Accounts!None}]
           Counted == crossing' \subseteq AccountRequests /\ stale' \subseteq Companies
<1>0. /\ mailbox \in MailRows /\ Accounts!NoMailbox \in Mailboxes
      /\ \A k \in AccountRequests : /\ [id |-> k, password |-> k, owned |-> FALSE] \in Mailboxes
                                    /\ [Accounts!Own(k) EXCEPT !.owned = TRUE] \in Mailboxes
                                    /\ [Accounts!Own(k) EXCEPT !.password = k] \in Mailboxes
                                    /\ Accounts!Own(k).id \in AccountRequests \cup {Accounts!None}
  <2>1. mailbox \in MailRows /\ Accounts!NoMailbox \in Mailboxes
    BY DEF Mailboxes, Accounts!NoMailbox
  <2>2. \A k \in AccountRequests : Accounts!Own(k) \in Mailboxes
    BY <2>1 DEF Accounts!Own
  <2> QED BY <2>1, <2>2 DEF Mailboxes
<1>b. ASSUME NEW k \in AccountRequests, Accounts!Begin(k), NEW cs \in SUBSET Companies, Accounts!Behind(k, cs)
      PROVE  Counted
  BY <1>b DEF Accounts!Begin, Accounts!Behind, Accounts!Others
<1>g. Accounts!Registered \subseteq Companies
  BY DEF Accounts!Registered
<1>w. ASSUME NEW k \in AccountRequests, NEW r \in Mailboxes, Accounts!Write(k, r) PROVE mailbox' \in MailRows
  BY <1>0, <1>w DEF Accounts!Write, MailRows
<1> HIDE DEF MailRows
<1>1. ASSUME NEW k \in AccountRequests, Accounts!CreateUser(k) PROVE Accounts!TypeOK'
  <2>1. Counted
    BY <1>1, <1>b DEF Accounts!CreateUser
  <2>2. request' \in [AccountRequests -> Stages] /\ account' \in AccountRequests \cup {Accounts!Foreign, Accounts!None}
    BY <1>1 DEF Accounts!CreateUser
  <2>3. accountFaults' \in 0..AccountFaults /\ UNCHANGED mailbox
    BY <1>1 DEF Accounts!CreateUser
  <2>4. orphaned' = orphaned \/ orphaned' = TRUE
    BY <1>1, Zenon DEF Accounts!CreateUser
  <2> QED BY <2>1, <2>2, <2>3, <2>4
<1>2. ASSUME NEW k \in AccountRequests, Accounts!Adopt(k) PROVE Accounts!TypeOK'
  BY <1>2, <1>g DEF Accounts!Adopt
<1>3. ASSUME NEW k \in AccountRequests, Accounts!Insert(k) PROVE Accounts!TypeOK'
  <2>1. mailbox' \in MailRows /\ stale' \subseteq Companies
    BY <1>0, <1>3, <1>w DEF Accounts!Insert, Accounts!Agreed
  <2> QED BY <1>3, <2>1 DEF Accounts!Insert, MailRows, Mailboxes
<1>4. ASSUME NEW k \in AccountRequests, Accounts!CreateMailboxPermit(k) PROVE Accounts!TypeOK'
  <2>1. mailbox' \in MailRows
    BY <1>0, <1>4, <1>w DEF Accounts!CreateMailboxPermit
  <2> QED BY <1>4, <2>1 DEF Accounts!CreateMailboxPermit, MailRows, Mailboxes
<1>5. ASSUME NEW k \in AccountRequests, Accounts!DeleteUser(k) PROVE Accounts!TypeOK'
  <2>1. account' \in AccountRequests \cup {Accounts!Foreign, Accounts!None} /\ stale' \subseteq Companies
    BY <1>5, <1>g DEF Accounts!DeleteUser
  <2>2. accountFaults' \in 0..AccountFaults
    BY <1>5 DEF Accounts!DeleteUser
  <2>4. orphaned' = orphaned \/ orphaned' = TRUE
    BY <1>5, Zenon DEF Accounts!DeleteUser
  <2>3. request' \in [AccountRequests -> Stages]
    BY <1>5 DEF Accounts!DeleteUser
  <2> QED BY <1>5, <2>1, <2>2, <2>3, <2>4 DEF Accounts!DeleteUser
<1>6. ASSUME NEW k \in AccountRequests, Accounts!SetPassword(k) PROVE Accounts!TypeOK'
  <2>1. Counted
    BY <1>6, <1>b, <1>g DEF Accounts!SetPassword
  <2>2. request' \in [AccountRequests -> Stages]
    <3>1. CASE request' = [request EXCEPT ![k].at = "update", ![k].id = Accounts!Own(k).id]
      <4> DEFINE id == Accounts!Own(k).id
             was == request[k]
      <4>1. id \in AccountRequests \cup {Accounts!None} /\ was \in Stages
        BY <1>0
      <4>2. request' = [request EXCEPT ![k] = [was EXCEPT !.at = "update", !.id = id]]
        BY <3>1
      <4> HIDE DEF id, was
      <4>3. [was EXCEPT !.at = "update", !.id = id] \in Stages
        BY <4>1
      <4> QED BY <4>2, <4>3
    <3> QED BY <1>6, <3>1 DEF Accounts!SetPassword
  <2> QED BY <1>6, <2>1, <2>2 DEF Accounts!SetPassword, Accounts!Begin
<1>7. ASSUME NEW k \in AccountRequests, Accounts!UpdateMailbox(k) PROVE Accounts!TypeOK'
  <2>1. mailbox' \in MailRows /\ stale' \subseteq Companies
    BY <1>0, <1>7, <1>w DEF Accounts!UpdateMailbox, Accounts!Agreed
  <2> QED BY <1>7, <2>1 DEF Accounts!UpdateMailbox, MailRows, Mailboxes
<1>8. ASSUME NEW k \in AccountRequests, Accounts!DeleteMailbox(k) PROVE Accounts!TypeOK'
  <2>1. mailbox' \in MailRows /\ Counted
    BY <1>0, <1>8, <1>b, <1>w DEF Accounts!DeleteMailbox
  <2>2. request' \in [AccountRequests -> Stages]
    <3>1. \E a \in {"remove", "done"} : request' = [request EXCEPT ![k].at = a]
      BY <1>8 DEF Accounts!DeleteMailbox
    <3> QED BY <3>1
  <2>3. accountFaults' \in 0..AccountFaults
    BY <1>8 DEF Accounts!DeleteMailbox
  <2> QED BY <1>8, <2>1, <2>2, <2>3 DEF Accounts!DeleteMailbox, MailRows, Mailboxes
<1>9. ASSUME NEW k \in AccountRequests, Accounts!Die(k) PROVE Accounts!TypeOK'
  BY <1>9 DEF Accounts!Die
<1>10. ASSUME UNCHANGED accountsVars PROVE Accounts!TypeOK'
  BY <1>10 DEF accountsVars
<1> QED BY <1>1, <1>2, <1>3, <1>4, <1>5, <1>6, <1>7, <1>8, <1>9, <1>10 DEF Accounts!Next

\* Request k goes to a stage; the others stay where they are.
LEMMA AccountsGo ==
    ASSUME Accounts!TypeOK, NEW k \in AccountRequests, NEW where, Accounts!Go(k, where)
    PROVE  /\ request'[k].at = where /\ request'[k].made = request[k].made /\ request'[k].id = request[k].id
           /\ \A j \in AccountRequests \ {k} : request'[j] = request[j]
           /\ NoneMade => NoneMade'
BY DEF Accounts!TypeOK, Accounts!Go, NoneMade

\* A step of k alone is what has to be looked at: a request that is not alone
\* leaves every row behind.
LEMMA AloneInStep ==
    ASSUME AccountsConstants, AccountsInv, NEW k \in AccountRequests, Accounts!TypeOK', RowsMade',
           \A j \in AccountRequests \ {k} : request'[j] = request[j],
           request'[k].at # "idle",
           \/ /\ Accounts!Busy(k) /\ crossing' = crossing
              /\ stale \subseteq stale' \/ Accounts!Agreed(k)
           \/ /\ Accounts!Begin(k)
              /\ Accounts!Others(k) = {} \/ stale' = Companies,
           k \notin crossing' /\ (\A j \in AccountRequests \ {k} : ~Accounts!Busy(j))
              => HasTheAccount(k)' /\ (\A c \in Companies : RowOpens(c)') /\ MadeIsKnown'
    PROVE  AccountsInv'
<1>1. CASE /\ Accounts!Busy(k) /\ crossing' = crossing
           /\ stale \subseteq stale' \/ Accounts!Agreed(k)
  <2>1. \A j \in AccountRequests \ {k} : Accounts!Busy(j) => j \in crossing /\ k \in crossing
    BY <1>1 DEF AccountsInv, CrossingKnown
  <2>2. k \in crossing => stale = Companies /\ stale' = Companies
    BY <1>1 DEF AccountsInv, CrossingKnown, Accounts!Agreed, Accounts!TypeOK
  <2>3. \A j \in AccountRequests : Accounts!Busy(j)' => Accounts!Busy(j)
    BY <1>1 DEF Accounts!Busy
  <2>4. \A j \in crossing : Accounts!Busy(j) => stale' = Companies
    <3>1. ASSUME NEW j \in crossing, Accounts!Busy(j) PROVE stale' = Companies
      <4>1. CASE j = k
        BY <2>2, <4>1
      <4>2. CASE j # k
        BY <2>1, <2>2, <3>1, <4>2 DEF AccountsInv, Accounts!TypeOK
      <4> QED BY <4>1, <4>2
    <3> QED BY <3>1
  <2>5. CrossingKnown'
    <3>1. \A i, j \in AccountRequests : Accounts!Busy(i)' /\ Accounts!Busy(j)' /\ i # j => i \in crossing'
      BY <1>1, <2>3 DEF AccountsInv, CrossingKnown
    <3>2. \A j \in crossing' : request'[j].at # "idle"
      BY <1>1 DEF AccountsInv, CrossingKnown, Accounts!TypeOK
    <3>3. \A j \in crossing' : Accounts!Busy(j)' => stale' = Companies
      BY <1>1, <2>3, <2>4 DEF AccountsInv, Accounts!TypeOK
    <3> QED BY <3>1, <3>2, <3>3 DEF CrossingKnown
  <2>6. CASE k \in crossing
    <3>1. \A j \in AccountRequests : HasTheAccount(j)'
      <4>1. ASSUME NEW j \in AccountRequests, j \notin crossing', AtStage(j, {"insert", "update"})' PROVE FALSE
        <5>1. j # k /\ Accounts!Busy(j)
          BY <1>1, <2>6, <4>1 DEF AtStage, Accounts!Busy
        <5> QED BY <1>1, <2>1, <4>1, <5>1
      <4> QED BY <4>1 DEF HasTheAccount
    <3> QED BY <1>1, <2>2, <2>5, <2>6, <3>1 DEF AccountsInv, RowOpens, MadeIsKnown
  <2>7. CASE k \notin crossing
    <3>1. \A j \in AccountRequests \ {k} : ~Accounts!Busy(j)
      BY <2>1, <2>7
    <3>2. \A j \in AccountRequests \ {k} : HasTheAccount(j)'
      BY <3>1 DEF HasTheAccount, AtStage, Accounts!Busy
    <3> QED BY <1>1, <2>5, <2>7, <3>1, <3>2 DEF AccountsInv
  <2> QED BY <2>6, <2>7
<1>2. CASE /\ Accounts!Begin(k)
           /\ Accounts!Others(k) = {} \/ stale' = Companies
  <2>1. request[k].at = "idle" /\ k \notin crossing /\ ~Accounts!Busy(k)
    BY <1>2 DEF Accounts!Begin, Accounts!Busy, AccountsInv, CrossingKnown
  <2>2. CASE Accounts!Others(k) = {}
    <3>1. crossing' = crossing /\ \A j \in AccountRequests : ~Accounts!Busy(j)
      BY <1>2, <2>1, <2>2 DEF Accounts!Begin, Accounts!Others
    <3>2. \A j \in AccountRequests \ {k} : ~Accounts!Busy(j)' /\ HasTheAccount(j)'
      BY <3>1 DEF HasTheAccount, AtStage, Accounts!Busy
    <3>3. CrossingKnown'
      BY <2>1, <3>1, <3>2 DEF AccountsInv, CrossingKnown, Accounts!TypeOK
    <3> QED BY <2>1, <3>1, <3>2, <3>3 DEF AccountsInv
  <2>3. CASE Accounts!Others(k) # {} /\ stale' = Companies
    <3>1. crossing' = crossing \cup {k} \cup Accounts!Others(k)
      BY <1>2, <2>3 DEF Accounts!Begin
    <3>2. \A j \in AccountRequests : Accounts!Busy(j)' => j \in crossing'
      BY <3>1 DEF Accounts!Busy, Accounts!Others
    <3>3. CrossingKnown'
      <4>1. \A j \in crossing' : request'[j].at # "idle"
        BY <3>1 DEF AccountsInv, CrossingKnown, Accounts!TypeOK, Accounts!Others, Accounts!Busy
      <4> QED BY <2>3, <3>2, <4>1 DEF CrossingKnown
    <3>4. \A j \in AccountRequests : HasTheAccount(j)'
      BY <3>2 DEF HasTheAccount, AtStage, Accounts!Busy
    <3> QED BY <2>3, <3>1, <3>3, <3>4 DEF AccountsInv, RowOpens, MadeIsKnown
  <2> QED BY <1>2, <2>2, <2>3
<1> QED BY <1>1, <1>2


LEMMA OwnRow ==
    ASSUME AccountsConstants, AccountsInv, NEW k \in AccountRequests
    PROVE  /\ Accounts!Own(k) = mailbox[Company[k]] /\ Accounts!Own(k) \in Mailboxes /\ Company[k] \in Companies
BY DEF AccountsConstants, AccountsInv, Accounts!TypeOK, Mailboxes, Accounts!Own

LEMMA AccountsRows ==
    ASSUME AccountsConstants, AccountsInv, NEW k \in AccountRequests, NEW r \in Mailboxes, Accounts!Write(k, r)
    PROVE  /\ mailbox'[Company[k]] = r
           /\ \A c \in Companies \ {Company[k]} : mailbox'[c] = mailbox[c]
           /\ r.id = Accounts!None \/ r.password \in AccountRequests => RowsMade'
<1>1. mailbox \in [Companies -> Mailboxes] /\ Company[k] \in Companies
  BY DEF AccountsConstants, AccountsInv, Accounts!TypeOK, Mailboxes
<1>2. /\ mailbox'[Company[k]] = r
      /\ \A c \in Companies \ {Company[k]} : mailbox'[c] = mailbox[c]
  BY <1>1 DEF Accounts!Write
<1> QED BY <1>1, <1>2 DEF AccountsInv, RowsMade

\* What is known when no request but k is under way, and k is not at "update".
LEMMA KnownAlone ==
    ASSUME AccountsInv, NEW k \in AccountRequests,
           \A j \in AccountRequests \ {k} : ~Accounts!Busy(j),
           request[k].at # "update"
    PROVE  \A c \in Companies : mailbox[c].id # Accounts!None => c \in stale \/ account = mailbox[c].password
<1>1. \A j \in AccountRequests : ~AtStage(j, {"update"})
  BY DEF AtStage, Accounts!Busy
<1> QED BY <1>1 DEF AccountsInv, RowOpens

\* ... and k has made no account that is not filed.
LEMMA MadeAlone ==
    ASSUME AccountsInv, NEW k \in AccountRequests,
           \A j \in AccountRequests \ {k} : ~Accounts!Busy(j),
           crossing = {}, ~orphaned, Accounts!Registered = {}
    PROVE  \/ account = Accounts!None
           \/ NoneMade
           \/ request[k].at = "remove" \/ (request[k].at \in {"insert", "rollback"} /\ request[k].made)
<1>1. \A j \in AccountRequests \ {k} : ~AtStage(j, {"remove"}) /\ ~AtStage(j, {"insert", "rollback"})
  BY DEF AtStage, Accounts!Busy
<1> QED BY <1>1 DEF AccountsInv, MadeIsKnown, AtStage

LEMMA AccountsStep ==
    ASSUME AccountsConstants
    PROVE  AccountsInv /\ [Accounts!Next]_accountsVars => AccountsInv'
<1> SUFFICES ASSUME AccountsInv, [Accounts!Next]_accountsVars PROVE AccountsInv'
  OBVIOUS
<1> USE DEF AccountsConstants
<1>0. Accounts!TypeOK /\ Accounts!TypeOK' /\ RowsMade
  BY AccountsTypes DEF AccountsInv
<1>r. Accounts!Registered \subseteq Companies /\ \A c \in Companies : c \in Accounts!Registered <=> mailbox[c].id # Accounts!None
  BY DEF Accounts!Registered
<1>1. ASSUME NEW k \in AccountRequests, Accounts!CreateUser(k) PROVE AccountsInv'
  <2>1. /\ Accounts!Begin(k) /\ request[k].at = "idle" /\ UNCHANGED mailbox
        /\ IF Accounts!Others(k) = {} THEN stale' = stale ELSE stale' = Companies
    BY <1>0, <1>1 DEF Accounts!CreateUser, Accounts!Begin, Accounts!Behind, Accounts!TypeOK
  <2>2. request'[k].at # "idle" /\ \A j \in AccountRequests \ {k} : request'[j] = request[j]
    BY <1>0, <1>1, AccountsGo DEF Accounts!CreateUser, Accounts!TypeOK
  <2>3. ASSUME k \notin crossing', \A j \in AccountRequests \ {k} : ~Accounts!Busy(j)
        PROVE  HasTheAccount(k)' /\ (\A c \in Companies : RowOpens(c)') /\ MadeIsKnown'
    <3>1. stale' = stale /\ crossing' = crossing
      BY <2>1, <2>3 DEF Accounts!Begin, Accounts!Others
    <3>2. \A c \in Companies : mailbox[c].id # Accounts!None => c \in stale \/ account = mailbox[c].password
      BY <2>1, <2>3, KnownAlone
    <3>3. crossing = {} /\ ~orphaned /\ Accounts!Registered = {} => account = Accounts!None \/ NoneMade
      BY <2>1, <2>3, MadeAlone
    <3>4. Accounts!Registered' = Accounts!Registered
      BY <2>1 DEF Accounts!Registered
    <3>5. CASE /\ account = Accounts!None /\ account' = k
               /\ request' = [request EXCEPT ![k].at = "insert", ![k].made = TRUE]
      <4>1. request'[k].at = "insert" /\ request'[k].made
        BY <1>0, <3>5 DEF Accounts!TypeOK
      <4>2. \A c \in Companies : RowOpens(c)'
        BY <1>0, <2>1, <3>1, <3>2, <3>5 DEF RowOpens, RowsMade
      <4> QED BY <3>5, <4>1, <4>2 DEF HasTheAccount, AtStage, MadeIsKnown
    <3>6. CASE account # Accounts!None /\ Accounts!Go(k, "adopt") /\ UNCHANGED <<account, orphaned>>
      <4>1. request'[k].at = "adopt" /\ (NoneMade => NoneMade')
        BY <1>0, <3>6, AccountsGo
      <4>2. \A c \in Companies : RowOpens(c)'
        BY <2>1, <3>1, <3>2, <3>6 DEF RowOpens
      <4>3. MadeIsKnown'
        BY <3>1, <3>3, <3>4, <3>6, <4>1 DEF MadeIsKnown
      <4> QED BY <4>1, <4>2, <4>3 DEF HasTheAccount, AtStage
    <3>7. CASE /\ account' \in {account, IF account = Accounts!None THEN k ELSE account}
               /\ Accounts!Go(k, "done") /\ orphaned' = TRUE
      <4>1. request'[k].at = "done"
        BY <1>0, <3>7, AccountsGo
      <4>2. \A c \in Companies : RowOpens(c)'
        BY <1>0, <2>1, <3>1, <3>2, <3>7 DEF RowOpens, RowsMade
      <4> QED BY <3>7, <4>1, <4>2 DEF HasTheAccount, AtStage, MadeIsKnown
    <3> QED BY <1>1, <3>5, <3>6, <3>7 DEF Accounts!CreateUser
  <2>4. RowsMade'
    BY <1>0, <2>1 DEF RowsMade
  <2> QED BY <1>0, <2>1, <2>2, <2>3, <2>4, AloneInStep
<1>2. ASSUME NEW k \in AccountRequests, Accounts!Adopt(k) PROVE AccountsInv'
  <2>1. /\ Accounts!Busy(k) /\ request[k].at = "adopt" /\ UNCHANGED <<mailbox, crossing, orphaned>>
        /\ stale \subseteq stale'
    BY <1>2 DEF Accounts!Adopt, Accounts!Busy
  <2>2. request'[k].at \in {"insert", "done"} /\ (NoneMade => NoneMade')
        /\ \A j \in AccountRequests \ {k} : request'[j] = request[j]
    BY <1>0, <1>2, AccountsGo DEF Accounts!Adopt
  <2>3. ASSUME k \notin crossing', \A j \in AccountRequests \ {k} : ~Accounts!Busy(j)
        PROVE  HasTheAccount(k)' /\ (\A c \in Companies : RowOpens(c)') /\ MadeIsKnown'
    <3>2. \A c \in Companies : mailbox[c].id # Accounts!None => c \in stale \/ account = mailbox[c].password
      BY <2>1, <2>3, KnownAlone
    <3>3. crossing = {} /\ ~orphaned /\ Accounts!Registered = {} => account = Accounts!None \/ NoneMade
      BY <2>1, <2>3, MadeAlone
    <3>4. Accounts!Registered' = Accounts!Registered
      BY <2>1 DEF Accounts!Registered
    <3>5. CASE account # Accounts!None /\ account' = k /\ stale' = stale \cup Accounts!Registered
      <4>1. \A c \in Companies : RowOpens(c)'
        BY <1>r, <2>1, <3>5 DEF RowOpens
      <4>2. MadeIsKnown'
        BY <2>1, <2>2, <3>3, <3>4, <3>5 DEF MadeIsKnown
      <4> QED BY <3>5, <4>1, <4>2 DEF HasTheAccount
    <3>6. CASE Accounts!Go(k, "done") /\ UNCHANGED <<account, stale>>
      <4>1. request'[k].at = "done"
        BY <1>0, <3>6, AccountsGo
      <4>2. \A c \in Companies : RowOpens(c)'
        BY <2>1, <3>2, <3>6 DEF RowOpens
      <4>3. MadeIsKnown'
        BY <2>1, <2>2, <3>3, <3>4, <3>6 DEF MadeIsKnown
      <4> QED BY <4>1, <4>2, <4>3 DEF HasTheAccount, AtStage
    <3> QED BY <1>2, <3>5, <3>6 DEF Accounts!Adopt
  <2>4. RowsMade'
    BY <1>0, <2>1 DEF RowsMade
  <2> QED BY <1>0, <2>1, <2>2, <2>3, <2>4, AloneInStep
<1>3. ASSUME NEW k \in AccountRequests, Accounts!Insert(k) PROVE AccountsInv'
  <2>1. Accounts!Busy(k) /\ request[k].at = "insert" /\ UNCHANGED <<account, crossing, orphaned>>
    BY <1>3 DEF Accounts!Insert, Accounts!Busy
  <2>2. request'[k].at # "idle" /\ \A j \in AccountRequests \ {k} : request'[j] = request[j]
    BY <1>0, <1>3, AccountsGo DEF Accounts!Insert
  <2>a. CASE /\ Accounts!Write(k, [id |-> k, password |-> k, owned |-> FALSE])
             /\ Accounts!Agreed(k) /\ Accounts!Go(k, "permit")
    <3>1. request'[k].at = "permit"
      BY <1>0, <2>a, AccountsGo
    <3>2. /\ mailbox'[Company[k]] = [id |-> k, password |-> k, owned |-> FALSE]
          /\ \A c \in Companies \ {Company[k]} : mailbox'[c] = mailbox[c]
          /\ RowsMade'
      <4>1. [id |-> k, password |-> k, owned |-> FALSE] \in Mailboxes
        BY DEF Mailboxes
      <4> QED BY <2>a, <4>1, AccountsRows
    <3>3. ASSUME k \notin crossing', \A j \in AccountRequests \ {k} : ~Accounts!Busy(j)
          PROVE  HasTheAccount(k)' /\ (\A c \in Companies : RowOpens(c)') /\ MadeIsKnown'
      <4>1. stale' = stale \ {Company[k]} /\ account' = k
        BY <2>1, <2>a, <3>3 DEF Accounts!Agreed, AccountsInv, HasTheAccount, AtStage
      <4>2. \A c \in Companies : mailbox[c].id # Accounts!None => c \in stale \/ account = mailbox[c].password
        BY <2>1, <3>3, KnownAlone
      <4>3. \A c \in Companies : RowOpens(c)'
        BY <2>1, <3>2, <4>1, <4>2 DEF RowOpens
      <4>4. Company[k] \in Accounts!Registered'
        BY <1>0, <3>2 DEF Accounts!Registered
      <4> QED BY <3>1, <4>3, <4>4 DEF HasTheAccount, AtStage, MadeIsKnown
    <3> QED BY <1>0, <2>1, <2>2, <2>a, <3>2, <3>3, AloneInStep
  <2>b. CASE Accounts!Go(k, IF request[k].made THEN "rollback" ELSE "done") /\ UNCHANGED <<mailbox, stale>>
    <3>1. /\ request'[k].at = IF request[k].made THEN "rollback" ELSE "done"
          /\ request'[k].made = request[k].made /\ (NoneMade => NoneMade')
      BY <1>0, <2>b, AccountsGo
    <3>3. ASSUME k \notin crossing', \A j \in AccountRequests \ {k} : ~Accounts!Busy(j)
          PROVE  HasTheAccount(k)' /\ (\A c \in Companies : RowOpens(c)') /\ MadeIsKnown'
      <4>1. \A c \in Companies : mailbox[c].id # Accounts!None => c \in stale \/ account = mailbox[c].password
        BY <2>1, <3>3, KnownAlone
      <4>2. crossing = {} /\ ~orphaned /\ Accounts!Registered = {} =>
              account = Accounts!None \/ NoneMade \/ request[k].made
        BY <2>1, <3>3, MadeAlone
      <4>3. \A c \in Companies : RowOpens(c)'
        BY <2>1, <2>b, <4>1 DEF RowOpens
      <4>4. Accounts!Registered' = Accounts!Registered
        BY <2>b DEF Accounts!Registered
      <4>5. MadeIsKnown'
        BY <2>1, <3>1, <4>2, <4>4 DEF MadeIsKnown, AtStage
      <4> QED BY <3>1, <4>3, <4>5 DEF HasTheAccount, AtStage
    <3>4. RowsMade'
      BY <1>0, <2>b DEF RowsMade
    <3> QED BY <1>0, <2>1, <2>2, <2>b, <3>3, <3>4, AloneInStep
  <2> QED BY <1>3, <2>a, <2>b DEF Accounts!Insert
<1>4. ASSUME NEW k \in AccountRequests, Accounts!CreateMailboxPermit(k) PROVE AccountsInv'
  <2>1. Accounts!Busy(k) /\ request[k].at = "permit" /\ UNCHANGED <<account, stale, crossing, orphaned>>
    BY <1>4 DEF Accounts!CreateMailboxPermit, Accounts!Busy
  <2>2. request'[k].at = "done" /\ (NoneMade => NoneMade') /\ \A j \in AccountRequests \ {k} : request'[j] = request[j]
    BY <1>0, <1>4, AccountsGo DEF Accounts!CreateMailboxPermit
  <2>3. \A c \in Companies : mailbox'[c].id = mailbox[c].id /\ mailbox'[c].password = mailbox[c].password
    <3>1. CASE Accounts!Write(k, [Accounts!Own(k) EXCEPT !.owned = TRUE])
      <4>1. [Accounts!Own(k) EXCEPT !.owned = TRUE] \in Mailboxes 
            /\ [Accounts!Own(k) EXCEPT !.owned = TRUE].id = mailbox[Company[k]].id
            /\ [Accounts!Own(k) EXCEPT !.owned = TRUE].password = mailbox[Company[k]].password
        BY OwnRow DEF Mailboxes
      <4>2. /\ mailbox'[Company[k]] = [Accounts!Own(k) EXCEPT !.owned = TRUE]
            /\ \A c \in Companies \ {Company[k]} : mailbox'[c] = mailbox[c]
        BY <3>1, <4>1, AccountsRows
      <4> QED BY <4>1, <4>2
    <3> QED BY <1>4, <3>1 DEF Accounts!CreateMailboxPermit
  <2>4. RowsMade' /\ Accounts!Registered' = Accounts!Registered
    BY <1>0, <2>3 DEF RowsMade, Accounts!Registered
  <2>5. ASSUME k \notin crossing', \A j \in AccountRequests \ {k} : ~Accounts!Busy(j)
        PROVE  HasTheAccount(k)' /\ (\A c \in Companies : RowOpens(c)') /\ MadeIsKnown'
    <3>1. \A c \in Companies : mailbox[c].id # Accounts!None => c \in stale \/ account = mailbox[c].password
      BY <2>1, <2>5, KnownAlone
    <3>2. crossing = {} /\ ~orphaned /\ Accounts!Registered = {} => account = Accounts!None \/ NoneMade
      BY <2>1, <2>5, MadeAlone
    <3>3. \A c \in Companies : RowOpens(c)'
      BY <2>1, <2>3, <3>1 DEF RowOpens
    <3> QED BY <2>1, <2>2, <2>4, <3>2, <3>3 DEF HasTheAccount, AtStage, MadeIsKnown
  <2> QED BY <1>0, <2>1, <2>2, <2>4, <2>5, AloneInStep
<1>5. ASSUME NEW k \in AccountRequests, Accounts!DeleteUser(k) PROVE AccountsInv'
  <2>1. /\ Accounts!Busy(k) /\ request[k].at \in {"rollback", "remove"} /\ UNCHANGED <<mailbox, crossing>>
        /\ stale \subseteq stale'
    BY <1>5 DEF Accounts!DeleteUser, Accounts!Busy
  <2>2. request'[k].at = "done" /\ \A j \in AccountRequests \ {k} : request'[j] = request[j]
    BY <1>0, <1>5, AccountsGo DEF Accounts!DeleteUser
  <2>3. RowsMade'
    BY <1>0, <2>1 DEF RowsMade
  <2>4. ASSUME k \notin crossing', \A j \in AccountRequests \ {k} : ~Accounts!Busy(j)
        PROVE  HasTheAccount(k)' /\ (\A c \in Companies : RowOpens(c)') /\ MadeIsKnown'
    <3>1. \A c \in Companies : mailbox[c].id # Accounts!None => c \in stale \/ account = mailbox[c].password
      BY <2>1, <2>4, KnownAlone
    <3>2. \A c \in Companies : RowOpens(c)'
      BY <1>5, <1>r, <2>1, <3>1 DEF RowOpens, Accounts!DeleteUser
    <3>3. account' = Accounts!None \/ orphaned'
      BY <1>5 DEF Accounts!DeleteUser
    <3> QED BY <2>2, <3>2, <3>3 DEF HasTheAccount, AtStage, MadeIsKnown
  <2> QED BY <1>0, <2>1, <2>2, <2>3, <2>4, AloneInStep
<1>6. ASSUME NEW k \in AccountRequests, Accounts!SetPassword(k) PROVE AccountsInv'
  <2>1. /\ Accounts!Begin(k) /\ request[k].at = "idle" /\ UNCHANGED <<mailbox, orphaned>>
        /\ Accounts!Others(k) = {} \/ stale' = Companies
    BY <1>0, <1>6, <1>r DEF Accounts!SetPassword, Accounts!Begin, Accounts!Behind, Accounts!TypeOK
  <2>2. request'[k].at # "idle" /\ \A j \in AccountRequests \ {k} : request'[j] = request[j]
    BY <1>0, <1>6, AccountsGo DEF Accounts!SetPassword, Accounts!TypeOK
  <2>3. RowsMade'
    BY <1>0, <2>1 DEF RowsMade
  <2>4. ASSUME k \notin crossing', \A j \in AccountRequests \ {k} : ~Accounts!Busy(j)
        PROVE  HasTheAccount(k)' /\ (\A c \in Companies : RowOpens(c)') /\ MadeIsKnown'
    <3>0. crossing' = crossing /\ Accounts!Others(k) = {} /\ Accounts!Registered' = Accounts!Registered
      BY <2>1, <2>4 DEF Accounts!Begin, Accounts!Others, Accounts!Registered
    <3>1. \A c \in Companies : mailbox[c].id # Accounts!None => c \in stale \/ account = mailbox[c].password
      BY <2>1, <2>4, KnownAlone
    <3>2. crossing = {} /\ ~orphaned /\ Accounts!Registered = {} => account = Accounts!None \/ NoneMade
      BY <2>1, <2>4, MadeAlone
    <3>3. CASE /\ account # Accounts!None /\ account' = k
               /\ request' = [request EXCEPT ![k].at = "update", ![k].id = Accounts!Own(k).id]
               /\ Accounts!Behind(k, Accounts!Registered \ {Company[k]})
      <4>1. request'[k].at = "update" /\ request'[k].made = request[k].made /\ (NoneMade => NoneMade')
        BY <1>0, <2>2, <3>3 DEF Accounts!TypeOK, NoneMade
      <4>2. stale' = stale \cup (Accounts!Registered \ {Company[k]})
        BY <3>0, <3>3 DEF Accounts!Behind
      <4>3. AtStage(k, {"update"})'
        BY <4>1 DEF AtStage
      <4>4. \A c \in Companies : RowOpens(c)'
        BY <1>r, <2>1, <4>2, <4>3 DEF RowOpens
      <4>5. MadeIsKnown'
        BY <2>1, <3>0, <3>2, <3>3, <4>1 DEF MadeIsKnown
      <4> QED BY <3>3, <4>4, <4>5 DEF HasTheAccount
    <3>4. CASE /\ account # Accounts!None /\ account' = k
               /\ Accounts!Go(k, "done") /\ Accounts!Behind(k, Accounts!Registered)
      <4>1. request'[k].at = "done" /\ (NoneMade => NoneMade')
        BY <1>0, <3>4, AccountsGo
      <4>2. \A c \in Companies : RowOpens(c)'
        BY <1>r, <2>1, <3>0, <3>4 DEF RowOpens, Accounts!Behind
      <4>3. MadeIsKnown'
        BY <2>1, <3>0, <3>2, <3>4, <4>1 DEF MadeIsKnown
      <4> QED BY <4>1, <4>2, <4>3 DEF HasTheAccount, AtStage
    <3>5. CASE Accounts!Go(k, "done") /\ Accounts!Behind(k, {}) /\ UNCHANGED account
      <4>1. request'[k].at = "done" /\ (NoneMade => NoneMade')
        BY <1>0, <3>5, AccountsGo
      <4>2. \A c \in Companies : RowOpens(c)'
        BY <2>1, <3>0, <3>1, <3>5 DEF RowOpens, Accounts!Behind
      <4>3. MadeIsKnown'
        BY <2>1, <3>0, <3>2, <3>5, <4>1 DEF MadeIsKnown
      <4> QED BY <4>1, <4>2, <4>3 DEF HasTheAccount, AtStage
    <3> QED BY <1>6, <3>3, <3>4, <3>5 DEF Accounts!SetPassword
  <2> QED BY <1>0, <2>1, <2>2, <2>3, <2>4, AloneInStep
<1>7. ASSUME NEW k \in AccountRequests, Accounts!UpdateMailbox(k) PROVE AccountsInv'
  <2>1. /\ Accounts!Busy(k) /\ request[k].at = "update" /\ UNCHANGED <<account, crossing, orphaned>>
        /\ stale \subseteq stale' \/ Accounts!Agreed(k)
    BY <1>7 DEF Accounts!UpdateMailbox, Accounts!Busy
  <2>2. request'[k].at = "done" /\ (NoneMade => NoneMade') /\ \A j \in AccountRequests \ {k} : request'[j] = request[j]
    BY <1>0, <1>7, AccountsGo DEF Accounts!UpdateMailbox
  <2>m. ASSUME k \notin crossing', \A j \in AccountRequests \ {k} : ~Accounts!Busy(j)
        PROVE  /\ crossing = {} /\ ~orphaned /\ Accounts!Registered = {} => account = Accounts!None \/ NoneMade
               /\ account = k
               /\ \A c \in Companies \ {Company[k]} : mailbox[c].id # Accounts!None =>
                    c \in stale \/ account = mailbox[c].password
    <3>1. \A j \in AccountRequests : AtStage(j, {"update"}) => j = k
      BY <2>m DEF AtStage, Accounts!Busy
    <3> QED BY <2>1, <2>m, <3>1, MadeAlone DEF AccountsInv, HasTheAccount, AtStage, RowOpens
  <2>a. CASE Accounts!Write(k, [Accounts!Own(k) EXCEPT !.password = k]) /\ Accounts!Agreed(k)
    <3>1. /\ [Accounts!Own(k) EXCEPT !.password = k] \in Mailboxes
          /\ [Accounts!Own(k) EXCEPT !.password = k].id = mailbox[Company[k]].id
          /\ [Accounts!Own(k) EXCEPT !.password = k].password = k
      BY OwnRow DEF Mailboxes
    <3>2. /\ mailbox'[Company[k]].id = mailbox[Company[k]].id /\ mailbox'[Company[k]].password = k
          /\ \A c \in Companies \ {Company[k]} : mailbox'[c] = mailbox[c]
          /\ RowsMade'
      <4>1. /\ mailbox'[Company[k]] = [Accounts!Own(k) EXCEPT !.password = k]
            /\ \A c \in Companies \ {Company[k]} : mailbox'[c] = mailbox[c]
            /\ RowsMade'
        <5> DEFINE r == [Accounts!Own(k) EXCEPT !.password = k]
        <5>1. r \in Mailboxes /\ r.password = k /\ Accounts!Write(k, r)
          BY <2>a, <3>1
        <5> HIDE DEF r
        <5>2. /\ mailbox'[Company[k]] = r
              /\ \A c \in Companies \ {Company[k]} : mailbox'[c] = mailbox[c]
              /\ RowsMade'
          BY <5>1, AccountsRows
        <5> QED BY <5>2 DEF r
      <4> QED BY <3>1, <4>1
    <3>3. Accounts!Registered' = Accounts!Registered
      BY <3>2 DEF Accounts!Registered
    <3>4. ASSUME k \notin crossing', \A j \in AccountRequests \ {k} : ~Accounts!Busy(j)
          PROVE  HasTheAccount(k)' /\ (\A c \in Companies : RowOpens(c)') /\ MadeIsKnown'
      <4>1. stale' = stale \ {Company[k]}
        BY <2>1, <2>a, <3>4 DEF Accounts!Agreed
      <4>2. \A c \in Companies : RowOpens(c)'
        BY <2>1, <2>m, <3>2, <3>4, <4>1 DEF RowOpens
      <4> QED BY <2>1, <2>2, <2>m, <3>3, <3>4, <4>2 DEF HasTheAccount, AtStage, MadeIsKnown
    <3> QED BY <1>0, <2>1, <2>2, <3>2, <3>4, AloneInStep
  <2>b. CASE UNCHANGED mailbox /\ stale' = stale \cup {Company[k]}
    <3>1. RowsMade' /\ Accounts!Registered' = Accounts!Registered
      BY <1>0, <2>b DEF RowsMade, Accounts!Registered
    <3>4. ASSUME k \notin crossing', \A j \in AccountRequests \ {k} : ~Accounts!Busy(j)
          PROVE  HasTheAccount(k)' /\ (\A c \in Companies : RowOpens(c)') /\ MadeIsKnown'
      <4>2. \A c \in Companies : RowOpens(c)'
        BY <2>1, <2>b, <2>m, <3>4 DEF RowOpens
      <4> QED BY <2>1, <2>2, <2>m, <3>1, <3>4, <4>2 DEF HasTheAccount, AtStage, MadeIsKnown
    <3> QED BY <1>0, <2>1, <2>2, <3>1, <3>4, AloneInStep
  <2> QED BY <1>7, <2>a, <2>b DEF Accounts!UpdateMailbox
<1>8. ASSUME NEW k \in AccountRequests, Accounts!DeleteMailbox(k) PROVE AccountsInv'
  <2>1. /\ Accounts!Begin(k) /\ request[k].at = "idle" /\ UNCHANGED <<account, orphaned>>
        /\ IF Accounts!Others(k) = {} THEN stale' = stale ELSE stale' = Companies
    BY <1>0, <1>8 DEF Accounts!DeleteMailbox, Accounts!Begin, Accounts!Behind, Accounts!TypeOK
  <2>2. request'[k].at \in {"remove", "done"} /\ (NoneMade => NoneMade')
        /\ \A j \in AccountRequests \ {k} : request'[j] = request[j]
    BY <1>0, <1>8, AccountsGo DEF Accounts!DeleteMailbox
  <2>3. /\ \A c \in Companies : mailbox'[c] = mailbox[c] \/ mailbox'[c].id = Accounts!None
        /\ RowsMade'
    <3>1. Accounts!NoMailbox \in Mailboxes /\ Accounts!NoMailbox.id = Accounts!None
      BY DEF Accounts!NoMailbox, Mailboxes
    <3> QED BY <1>0, <1>8, <3>1, AccountsRows DEF Accounts!DeleteMailbox, RowsMade
  <2>4. ASSUME k \notin crossing', \A j \in AccountRequests \ {k} : ~Accounts!Busy(j)
        PROVE  HasTheAccount(k)' /\ (\A c \in Companies : RowOpens(c)') /\ MadeIsKnown'
    <3>0. crossing' = crossing /\ stale' = stale
      BY <2>1, <2>4 DEF Accounts!Begin, Accounts!Others
    <3>1. \A c \in Companies : mailbox[c].id # Accounts!None => c \in stale \/ account = mailbox[c].password
      BY <2>1, <2>4, KnownAlone
    <3>2. \A c \in Companies : RowOpens(c)'
      BY <2>1, <2>3, <3>0, <3>1 DEF RowOpens
    <3>3. MadeIsKnown'
      <4>1. CASE Accounts!Go(k, "remove")
        BY <1>0, <4>1, AccountsGo DEF MadeIsKnown, AtStage
      <4>2. CASE UNCHANGED mailbox
        <5>1. crossing = {} /\ ~orphaned /\ Accounts!Registered = {} => account = Accounts!None \/ NoneMade
          BY <2>1, <2>4, MadeAlone
        <5> QED BY <2>1, <2>2, <3>0, <4>2, <5>1 DEF MadeIsKnown, Accounts!Registered
      <4> QED BY <1>8, <4>1, <4>2 DEF Accounts!DeleteMailbox
    <3> QED BY <2>2, <3>2, <3>3 DEF HasTheAccount, AtStage
  <2> QED BY <1>0, <2>1, <2>2, <2>3, <2>4, AloneInStep
<1>9. ASSUME NEW k \in AccountRequests, Accounts!Die(k) PROVE AccountsInv'
  <2>1. /\ Accounts!Busy(k) /\ UNCHANGED <<account, mailbox, crossing>> /\ stale \subseteq stale'
        /\ request[k].at = "update" => Company[k] \in stale'
        /\ orphaned' = (orphaned \/ request[k].at \in {"insert", "rollback", "remove"})
    BY <1>9 DEF Accounts!Die
  <2>2. request'[k].at = "done" /\ (NoneMade => NoneMade') /\ \A j \in AccountRequests \ {k} : request'[j] = request[j]
    BY <1>0, <1>9, AccountsGo DEF Accounts!Die
  <2>3. RowsMade' /\ Accounts!Registered' = Accounts!Registered
    BY <1>0, <2>1 DEF RowsMade, Accounts!Registered
  <2>4. ASSUME k \notin crossing', \A j \in AccountRequests \ {k} : ~Accounts!Busy(j)
        PROVE  HasTheAccount(k)' /\ (\A c \in Companies : RowOpens(c)') /\ MadeIsKnown'
    <3>1. \A j \in AccountRequests : AtStage(j, {"update"}) => j = k /\ request[k].at = "update"
      BY <2>4 DEF AtStage, Accounts!Busy
    <3>2. \A c \in Companies : RowOpens(c)'
      BY <2>1, <3>1 DEF AccountsInv, RowOpens
    <3>3. MadeIsKnown'
      BY <2>1, <2>2, <2>3, <2>4, MadeAlone DEF MadeIsKnown
    <3> QED BY <2>2, <3>2, <3>3 DEF HasTheAccount, AtStage
  <2> QED BY <1>0, <2>1, <2>2, <2>3, <2>4, AloneInStep
<1>10. ASSUME UNCHANGED accountsVars PROVE AccountsInv'
  BY <1>0, <1>10 DEF AccountsInv, accountsVars, RowsMade, CrossingKnown, HasTheAccount, AtStage, RowOpens, MadeIsKnown,
         NoneMade, Accounts!Busy, Accounts!Registered
<1> QED BY <1>1, <1>2, <1>3, <1>4, <1>5, <1>6, <1>7, <1>8, <1>9, <1>10 DEF Accounts!Next

\* The password in a row opens the account at the mail server, for every company
\* that has registered the address, over lost answers, failed statements, pods
\* that die and other companies (create_mailbox.go:78-80).
THEOREM RowOpensAccount ==
    ASSUME AccountsConstants PROVE Accounts!Spec => []CredentialsAgree
<1>1. AccountsInv => CredentialsAgree
  BY DEF AccountsInv, RowOpens, AtStage, CredentialsAgree, Accounts!CredentialsAgree, Accounts!Quiet, Accounts!Busy,
         Accounts!Registered
<1>2. AccountsConstants => (AccountsInv /\ [Accounts!Next]_accountsVars => AccountsInv')
  BY AccountsStep
<1>3. AccountsConstants => (Accounts!Init => AccountsInv)
  BY AccountsInit
<1> QED BY <1>1, <1>2, <1>3, PTL DEF Accounts!Spec, Accounts!vars, accountsVars

\* An account that a request has made does not outlast its rows
\* (create_mailbox.go:110-111).
THEOREM NoAccountLeft ==
    ASSUME AccountsConstants PROVE Accounts!Spec => []NoOrphan
<1>1. AccountsInv => NoOrphan
  BY DEF AccountsInv, MadeIsKnown, AtStage, NoneMade, NoOrphan, Accounts!NoOrphan, Accounts!Quiet, Accounts!Busy
<1>2. AccountsConstants => (AccountsInv /\ [Accounts!Next]_accountsVars => AccountsInv')
  BY AccountsStep
<1>3. AccountsConstants => (Accounts!Init => AccountsInv)
  BY AccountsInit
<1> QED BY <1>1, <1>2, <1>3, PTL DEF Accounts!Spec, Accounts!vars, accountsVars

-----------------------------------------------------------------------------
(* Planned calls, for any number of requests and failures. As long as no two requests crossed
   and nothing was lost, one request runs at a time, and its stage says what is in the
   calendar. *)

\* In the calendar are the events of `ids`, with the version of the row.
Calendared(ids) == \A k \in RedialRequests : calendar[k] = IF k \in ids THEN redial.version ELSE 0
Quiet           == \A k \in RedialRequests : ~Planned!Busy(k)
InStep          == slips \subseteq {"harmless"}

\* Requests that did not cross run one at a time, and there is no row without one.
Requested ==
    /\ "crossed" \notin slips => \A j, k \in RedialRequests : Planned!Busy(j) /\ Planned!Busy(k) => j = k
    /\ Planned!Live => \E k \in RedialRequests : call[k].at # "idle"
    /\ redial.event # Planned!None => Planned!Live

\* What is in the calendar and in the hands of k, by the stage of k.
Underway(k) ==
    /\ call[k].at = "create" => /\ redial.event = Planned!None /\ Planned!Live /\ Calendared({})
                                /\ call[k].version = redial.version
    /\ call[k].at = "set"    => redial.event = Planned!None /\ Planned!Live /\ Calendared({k})
    /\ call[k].at = "patch"  => /\ redial.event \in RedialRequests /\ calendar[redial.event] # 0
                                /\ call[k].event = redial.event /\ call[k].version = redial.version
                                /\ \A j \in RedialRequests : j # redial.event => calendar[j] = 0
    /\ call[k].at = "unlist" => call[k].event = redial.event /\ redial.event \in RedialRequests
                                /\ Calendared({redial.event})
    /\ call[k].at = "delete" => Calendared({})

RedialInv ==
    /\ Planned!TypeOK
    /\ Requested
    /\ InStep => \A k \in RedialRequests : Underway(k)
    /\ InStep /\ Quiet => Calendared({redial.event})

LEMMA RedialGoes ==
    ASSUME Planned!TypeOK, NEW k \in RedialRequests, NEW where, NEW v, NEW id, Planned!Go(k, where, v, id)
    PROVE  /\ call'[k].at = where /\ call'[k].version = v /\ call'[k].event = id
           /\ \A j \in RedialRequests \ {k} : call'[j] = call[j]
           /\ (where \in {"idle", "create", "set", "patch", "unlist", "delete", "done"}
               /\ v \in 0..MaxVersion /\ id \in RedialRequests \cup {Planned!None}) =>
                  call' \in [RedialRequests ->
                               [at : {"idle", "create", "set", "patch", "unlist", "delete", "done"},
                                version : 0..MaxVersion, event : RedialRequests \cup {Planned!None}]]
BY DEF Planned!Go, Planned!TypeOK

LEMMA RedialInit == ASSUME RedialFaults \in Nat, MaxVersion \in Nat PROVE Planned!Init => RedialInv
BY DEF Planned!Init, RedialInv, Planned!TypeOK, Requested, Underway, Calendared, Quiet, InStep,
       Planned!NoRedial, Planned!Live, Planned!Busy, Planned!None

LEMMA RedialTypes ==
    ASSUME RedialFaults \in Nat, MaxVersion \in Nat \ {0}, Planned!TypeOK, [Planned!Next]_redialsVars
    PROVE  Planned!TypeOK'
<1> USE DEF Planned!TypeOK, Planned!End
<1> HIDE DEF Planned!Go
<1>0. Planned!Loss => losses' \in 0..RedialFaults
  BY DEF Planned!Loss
<1> HIDE DEF Planned!Loss
<1>1. ASSUME NEW k \in RedialRequests, Planned!CreateRedial(k) PROVE Planned!TypeOK'
  BY <1>1, RedialGoes DEF Planned!CreateRedial, Planned!Begin, Planned!Slip
<1>2. ASSUME NEW k \in RedialRequests, Planned!ResyncRedial(k) PROVE Planned!TypeOK'
  BY <1>2, RedialGoes DEF Planned!ResyncRedial, Planned!Begin, Planned!Slip
<1>3. ASSUME NEW k \in RedialRequests, Planned!CreateEvent(k) PROVE Planned!TypeOK'
  <2>1. losses' \in 0..RedialFaults /\ slips' \subseteq Planned!Slip /\ redial' = redial /\ connected' \in BOOLEAN
    <3>1. losses' \in 0..RedialFaults /\ slips' \subseteq Planned!Slip /\ redial' = redial
      BY <1>0, <1>3 DEF Planned!CreateEvent, Planned!Slip
    <3>2. connected' \in BOOLEAN
      BY <1>3, Zenon DEF Planned!CreateEvent
    <3> QED BY <3>1, <3>2
  <2>2. calendar' \in [RedialRequests -> 0..MaxVersion]
    BY <1>3 DEF Planned!CreateEvent
  <2>3. \E where \in {"set", "done"}, id \in {k, Planned!None} : Planned!Go(k, where, 0, id)
    BY <1>3 DEF Planned!CreateEvent
  <2> QED BY <2>1, <2>2, <2>3, RedialGoes
<1>4. ASSUME NEW k \in RedialRequests, Planned!SetRedialGcalSynced(k) PROVE Planned!TypeOK'
  <2>1. losses' \in 0..RedialFaults /\ slips' \subseteq Planned!Slip /\ connected' = connected
    BY <1>0, <1>4 DEF Planned!SetRedialGcalSynced, Planned!Slip
  <2>2. /\ calendar' \in [RedialRequests -> 0..MaxVersion]
        /\ redial' \in [version : 0..MaxVersion, event : RedialRequests \cup {Planned!None}]
    BY <1>4 DEF Planned!SetRedialGcalSynced
  <2>3. Planned!Go(k, "done", 0, Planned!None)
    BY <1>4 DEF Planned!SetRedialGcalSynced
  <2> QED BY <2>1, <2>2, <2>3, RedialGoes
<1>5. ASSUME NEW k \in RedialRequests, Planned!UpdateRedial(k) PROVE Planned!TypeOK'
  <2>1. redial' = [redial EXCEPT !.version = redial.version + 1] /\ redial.version + 1 \in 0..MaxVersion
    BY <1>5 DEF Planned!UpdateRedial
  <2> QED BY <1>5, <2>1, RedialGoes DEF Planned!UpdateRedial, Planned!Slip
<1>6. ASSUME NEW k \in RedialRequests, Planned!PatchEvent(k) PROVE Planned!TypeOK'
  <2>1. losses' \in 0..RedialFaults /\ slips' \subseteq Planned!Slip /\ connected' = connected
    BY <1>0, <1>6 DEF Planned!PatchEvent, Planned!Slip
  <2>2. /\ calendar' \in [RedialRequests -> 0..MaxVersion]
        /\ redial' \in [version : 0..MaxVersion, event : RedialRequests \cup {Planned!None}]
    BY <1>6 DEF Planned!PatchEvent
  <2>3. Planned!Go(k, "done", 0, Planned!None)
    BY <1>6 DEF Planned!PatchEvent
  <2> QED BY <2>1, <2>2, <2>3, RedialGoes
<1>7. ASSUME NEW k \in RedialRequests, Planned!DeleteRedial(k) PROVE Planned!TypeOK'
  BY <1>7, RedialGoes DEF Planned!DeleteRedial, Planned!Begin, Planned!Slip
<1>8. ASSUME NEW k \in RedialRequests, Planned!DeleteEvent(k) PROVE Planned!TypeOK'
  <2>1. losses' \in 0..RedialFaults /\ slips' \subseteq Planned!Slip /\ connected' = connected
    BY <1>0, <1>8 DEF Planned!DeleteEvent, Planned!Slip
  <2>2. /\ calendar' \in [RedialRequests -> 0..MaxVersion]
        /\ redial' \in [version : 0..MaxVersion, event : RedialRequests \cup {Planned!None}]
    BY <1>8 DEF Planned!DeleteEvent
  <2>3. Planned!Go(k, "delete", 0, Planned!None)
    BY <1>8 DEF Planned!DeleteEvent
  <2> QED BY <2>1, <2>2, <2>3, RedialGoes
<1>9. ASSUME NEW k \in RedialRequests, Planned!DeleteRow(k) PROVE Planned!TypeOK'
  <2>1. losses' \in 0..RedialFaults /\ slips' \subseteq Planned!Slip /\ connected' = connected
    BY <1>0, <1>9 DEF Planned!DeleteRow, Planned!Slip
  <2>2. /\ calendar' \in [RedialRequests -> 0..MaxVersion]
        /\ redial' \in [version : 0..MaxVersion, event : RedialRequests \cup {Planned!None}]
    BY <1>9 DEF Planned!DeleteRow, Planned!NoRedial
  <2>3. Planned!Go(k, "done", 0, Planned!None)
    BY <1>9 DEF Planned!DeleteRow
  <2> QED BY <2>1, <2>2, <2>3, RedialGoes
<1>10. ASSUME NEW k \in RedialRequests, Planned!CutOff(k) PROVE Planned!TypeOK'
  <2>1. call[k].at \in {"create", "set", "patch", "unlist", "delete"}
    BY <1>10 DEF Planned!CutOff, Planned!Busy
  <2>2. slips' \subseteq slips \cup {"harmless", "lost", "unpatched", "undeleted"}
    BY <1>10, <2>1 DEF Planned!CutOff
  <2>3. losses' \in 0..RedialFaults /\ slips' \subseteq Planned!Slip /\ UNCHANGED <<redial, calendar, connected>>
    BY <1>0, <1>10, <2>2 DEF Planned!CutOff, Planned!Slip
  <2>4. Planned!Go(k, "done", 0, Planned!None)
    BY <1>10 DEF Planned!CutOff
  <2> QED BY <2>3, <2>4, RedialGoes
<1>11. CASE Planned!Connection
  <2>1. connected' \in BOOLEAN
    BY <1>11, Zenon DEF Planned!Connection
  <2> QED BY <1>11, <2>1 DEF Planned!Connection
<1>12. CASE UNCHANGED redialsVars
  BY <1>12 DEF redialsVars
<1> QED BY <1>1, <1>2, <1>3, <1>4, <1>5, <1>6, <1>7, <1>8, <1>9, <1>10, <1>11, <1>12 DEF Planned!Next

LEMMA RedialStep ==
    ASSUME RedialFaults \in Nat, MaxVersion \in Nat \ {0}, Planned!None \notin RedialRequests
    PROVE  RedialInv /\ [Planned!Next]_redialsVars => RedialInv'
<1> SUFFICES ASSUME RedialInv, [Planned!Next]_redialsVars PROVE RedialInv'
  OBVIOUS
<1>0. Planned!TypeOK /\ Planned!TypeOK'
  BY RedialTypes DEF RedialInv
<1> USE DEF Planned!Busy, Planned!Live, InStep
\* It is enough to look at the request that moves.
<1>a. ASSUME NEW k \in RedialRequests,
             \A j \in RedialRequests \ {k} : call'[j] = call[j],
             "crossed" \notin slips' => \A j \in RedialRequests \ {k} : ~Planned!Busy(j),
             slips \subseteq slips',
             call'[k].at # "idle",
             redial'.event # Planned!None => redial'.version > 0,
             InStep' => Underway(k)' /\ (~Planned!Busy(k)' => Calendared({redial.event})')
      PROVE  RedialInv'
  <2>1. Requested'
    BY <1>a DEF Requested
  <2>2. InStep' => \A j \in RedialRequests : Underway(j)'
    BY <1>a DEF Underway
  <2>3. InStep' /\ Quiet' => Calendared({redial.event})'
    BY <1>a DEF Quiet
  <2> QED BY <1>0, <2>1, <2>2, <2>3 DEF RedialInv
\* A request that goes on is alone, and the others stay.
<1>b. ASSUME NEW k \in RedialRequests, call[k].at \notin {"idle", "done"}, "crossed" \notin slips
      PROVE  \A j \in RedialRequests \ {k} : ~Planned!Busy(j)
  BY <1>b DEF RedialInv, Requested
<1>c. ASSUME NEW k \in RedialRequests, call[k].at = "idle", InStep,
             \A j \in RedialRequests : ~Planned!Busy(j)
      PROVE  Calendared({redial.event})
  BY <1>c DEF RedialInv, Quiet
<1>e. redial.event # Planned!None => redial.version > 0
  BY DEF RedialInv, Requested
<1>1. ASSUME NEW k \in RedialRequests, Planned!CreateRedial(k) PROVE RedialInv'
  <2>1. /\ \A j \in RedialRequests : call[j].at = "idle"
        /\ redial' = [version |-> 1, event |-> Planned!None]
        /\ calendar' = calendar /\ slips' = slips
    BY <1>1 DEF Planned!CreateRedial, Planned!Begin
  <2>2. redial.version = 0 /\ redial.event = Planned!None
    BY <1>0, <2>1 DEF RedialInv, Requested, Planned!TypeOK
  <2>3. /\ \A j \in RedialRequests \ {k} : call'[j] = call[j]
        /\ call'[k].at \in {"create", "done"} /\ (call'[k].at = "create" => call'[k].version = 1)
    BY <1>0, <1>1, RedialGoes DEF Planned!CreateRedial, Planned!End
  <2>4. InStep' => \A j \in RedialRequests : calendar[j] = 0
    BY <1>c, <2>1, <2>2 DEF Calendared
  <2>5. InStep' => Underway(k)' /\ Calendared({redial.event})'
    BY <2>1, <2>3, <2>4 DEF Underway, Calendared
  <2> QED BY <1>a, <2>1, <2>3, <2>5
<1>2. ASSUME NEW k \in RedialRequests, Planned!ResyncRedial(k) PROVE RedialInv'
  <2>1. /\ call[k].at = "idle" /\ redial.version > 0
        /\ redial' = redial /\ calendar' = calendar /\ slips \subseteq slips'
        /\ "crossed" \notin slips' => \A j \in RedialRequests : ~Planned!Busy(j)
    BY <1>2 DEF Planned!ResyncRedial, Planned!Begin
  <2>2. /\ \A j \in RedialRequests \ {k} : call'[j] = call[j]
        /\ \/ call'[k].at = "create" /\ call'[k].version = redial.version /\ redial.event = Planned!None
           \/ call'[k].at = "done"
    BY <1>0, <1>2, RedialGoes DEF Planned!ResyncRedial, Planned!End
  <2>3. InStep' => Calendared({redial.event})
    BY <1>c, <2>1
  <2>4. InStep' => Underway(k)' /\ Calendared({redial.event})'
    BY <2>1, <2>2, <2>3 DEF Underway, Calendared
  <2> QED BY <1>a, <1>e, <2>1, <2>2, <2>4
<1>3. ASSUME NEW k \in RedialRequests, Planned!CreateEvent(k) PROVE RedialInv'
  <2>1. /\ call[k].at = "create" /\ slips \subseteq slips'
        /\ ("crossed" \in slips' => "crossed" \in slips) /\ redial' = redial
    BY <1>3 DEF Planned!CreateEvent, Planned!Loss
  <2>2. /\ \A j \in RedialRequests \ {k} : call'[j] = call[j]
        /\ \/ calendar' = [calendar EXCEPT ![k] = call[k].version] /\ call'[k].at = "set"
           \/ "lost" \in slips' /\ call'[k].at = "done"
           \/ calendar' = calendar /\ call'[k].at = "done"
    BY <1>0, <1>3, RedialGoes DEF Planned!CreateEvent, Planned!End
  <2>3. InStep' => InStep /\ Underway(k)
    BY <2>1 DEF RedialInv
  <2>4. InStep' => Underway(k)' /\ (~Planned!Busy(k)' => Calendared({redial.event})')
    BY <1>0, <2>1, <2>2, <2>3 DEF Underway, Calendared, Planned!TypeOK
  <2> QED BY <1>a, <1>b, <1>e, <2>1, <2>2, <2>4
<1>4. ASSUME NEW k \in RedialRequests, Planned!SetRedialGcalSynced(k) PROVE RedialInv'
  <2>1. /\ call[k].at = "set" /\ slips \subseteq slips'
        /\ ("crossed" \in slips' => "crossed" \in slips) /\ calendar' = calendar
    BY <1>4 DEF Planned!SetRedialGcalSynced, Planned!Loss
  <2>2. /\ \A j \in RedialRequests \ {k} : call'[j] = call[j]
        /\ call'[k].at = "done"
        /\ \/ redial' = (IF Planned!Live THEN [redial EXCEPT !.event = k] ELSE redial)
           \/ "lost" \in slips' /\ redial' = redial
    BY <1>0, <1>4, RedialGoes DEF Planned!SetRedialGcalSynced, Planned!End
  <2>3. InStep' => InStep /\ Underway(k)
    BY <2>1 DEF RedialInv
  <2>4. InStep' => Underway(k)' /\ (~Planned!Busy(k)' => Calendared({redial.event})')
    BY <1>0, <2>1, <2>2, <2>3 DEF Underway, Calendared, Planned!TypeOK
  <2>5. redial'.event # Planned!None => redial'.version > 0
    BY <1>0, <1>e, <2>2 DEF Planned!TypeOK
  <2> QED BY <1>a, <1>b, <2>1, <2>2, <2>4, <2>5
<1>5. ASSUME NEW k \in RedialRequests, Planned!UpdateRedial(k) PROVE RedialInv'
  <2>1. /\ call[k].at = "idle" /\ redial.version > 0 /\ calendar' = calendar /\ slips \subseteq slips'
        /\ redial' = [redial EXCEPT !.version = redial.version + 1]
        /\ ("crossed" \notin slips' => \A j \in RedialRequests : ~Planned!Busy(j))
    BY <1>5 DEF Planned!UpdateRedial
  <2>2. /\ \A j \in RedialRequests \ {k} : call'[j] = call[j]
        /\ \/ /\ call'[k].at = "patch" /\ call'[k].version = redial.version + 1 /\ call'[k].event = redial.event
              /\ redial.event # Planned!None
           \/ call'[k].at = "done" /\ (redial.event = Planned!None \/ "unpatched" \in slips')
    <3>1. CASE connected /\ redial.event # Planned!None
      BY <1>0, <1>5, <3>1, RedialGoes DEF Planned!UpdateRedial, Planned!End
    <3>2. CASE ~(connected /\ redial.event # Planned!None)
      <4>1. Planned!Go(k, "done", 0, Planned!None)
        BY <1>5, <3>2 DEF Planned!UpdateRedial, Planned!End
      <4>2. redial.event = Planned!None \/ "unpatched" \in slips'
        BY <1>5, <3>2 DEF Planned!UpdateRedial
      <4> QED BY <1>0, <4>1, <4>2, RedialGoes
    <3> QED BY <3>1, <3>2
  <2>3. redial'.version = redial.version + 1 /\ redial'.event = redial.event /\ redial.version \in Nat
        /\ redial.event \in RedialRequests \cup {Planned!None}
    BY <1>0, <2>1 DEF Planned!TypeOK
  <2>4. InStep' => Calendared({redial.event})
    BY <1>c, <2>1
  <2>5. InStep' => Underway(k)' /\ (~Planned!Busy(k)' => Calendared({redial.event})')
    BY <2>1, <2>2, <2>3, <2>4 DEF Underway, Calendared
  <2> QED BY <1>a, <2>1, <2>2, <2>3, <2>5
<1>6. ASSUME NEW k \in RedialRequests, Planned!PatchEvent(k) PROVE RedialInv'
  <2>1. /\ call[k].at = "patch" /\ slips \subseteq slips'
        /\ ("crossed" \in slips' => "crossed" \in slips) /\ redial' = redial
    BY <1>6 DEF Planned!PatchEvent, Planned!Loss
  <2>2. /\ \A j \in RedialRequests \ {k} : call'[j] = call[j]
        /\ call'[k].at = "done"
        /\ \/ calendar' = [calendar EXCEPT ![call[k].event] = IF calendar[call[k].event] = 0 THEN 0 ELSE call[k].version]
           \/ "unpatched" \in slips'
    BY <1>0, <1>6, RedialGoes DEF Planned!PatchEvent, Planned!End
  <2>3. InStep' => InStep /\ Underway(k)
    BY <2>1 DEF RedialInv
  <2>4. InStep' => Underway(k)' /\ (~Planned!Busy(k)' => Calendared({redial.event})')
    BY <1>0, <2>1, <2>2, <2>3 DEF Underway, Calendared, Planned!TypeOK
  <2> QED BY <1>a, <1>b, <1>e, <2>1, <2>2, <2>4
<1>7. ASSUME NEW k \in RedialRequests, Planned!DeleteRedial(k) PROVE RedialInv'
  <2>1. /\ call[k].at = "idle" /\ redial' = redial /\ calendar' = calendar /\ slips \subseteq slips'
        /\ ("crossed" \notin slips' => \A j \in RedialRequests : ~Planned!Busy(j))
    BY <1>7 DEF Planned!DeleteRedial, Planned!Begin
  <2>2. /\ \A j \in RedialRequests \ {k} : call'[j] = call[j]
        /\ call'[k].event = redial.event
        /\ call'[k].at = IF redial.event = Planned!None THEN "delete" ELSE "unlist"
    BY <1>0, <1>7, RedialGoes DEF Planned!DeleteRedial
  <2>3. redial.event \in RedialRequests \cup {Planned!None}
    BY <1>0 DEF Planned!TypeOK
  <2>4. InStep' => Calendared({redial.event})
    BY <1>c, <2>1
  <2>5. InStep' => Underway(k)' /\ Planned!Busy(k)'
    BY <2>1, <2>2, <2>3, <2>4 DEF Underway, Calendared
  <2> QED BY <1>a, <1>e, <2>1, <2>2, <2>5
<1>8. ASSUME NEW k \in RedialRequests, Planned!DeleteEvent(k) PROVE RedialInv'
  <2>1. /\ call[k].at = "unlist" /\ slips \subseteq slips'
        /\ ("crossed" \in slips' => "crossed" \in slips) /\ redial' = redial
    BY <1>8 DEF Planned!DeleteEvent, Planned!Loss
  <2>2. /\ \A j \in RedialRequests \ {k} : call'[j] = call[j]
        /\ call'[k].at = "delete"
        /\ \/ calendar' = [calendar EXCEPT ![call[k].event] = 0]
           \/ "undeleted" \in slips'
    BY <1>0, <1>8, RedialGoes DEF Planned!DeleteEvent, Planned!End
  <2>3. InStep' => InStep /\ Underway(k)
    BY <2>1 DEF RedialInv
  <2>4. InStep' => Underway(k)' /\ (~Planned!Busy(k)' => Calendared({redial.event})')
    BY <1>0, <2>1, <2>2, <2>3 DEF Underway, Calendared, Planned!TypeOK
  <2> QED BY <1>a, <1>b, <1>e, <2>1, <2>2, <2>4
<1>9. ASSUME NEW k \in RedialRequests, Planned!DeleteRow(k) PROVE RedialInv'
  <2>1. /\ call[k].at = "delete" /\ slips \subseteq slips'
        /\ ("crossed" \in slips' => "crossed" \in slips) /\ calendar' = calendar
    BY <1>9 DEF Planned!DeleteRow, Planned!Loss
  <2>2. /\ \A j \in RedialRequests \ {k} : call'[j] = call[j]
        /\ call'[k].at = "done"
        /\ \/ redial' = [version |-> 0, event |-> Planned!None]
           \/ "undeleted" \in slips' /\ redial' = redial
    BY <1>0, <1>9, RedialGoes DEF Planned!DeleteRow, Planned!End, Planned!NoRedial
  <2>3. InStep' => InStep /\ Underway(k)
    BY <2>1 DEF RedialInv
  <2>4. InStep' => Underway(k)' /\ (~Planned!Busy(k)' => Calendared({redial.event})')
    BY <1>0, <2>1, <2>2, <2>3 DEF Underway, Calendared, Planned!TypeOK
  <2> QED BY <1>a, <1>b, <1>e, <2>1, <2>2, <2>4
<1>10. ASSUME NEW k \in RedialRequests, Planned!CutOff(k) PROVE RedialInv'
  <2>1. /\ call[k].at \in {"create", "set", "patch", "unlist", "delete"}
        /\ redial' = redial /\ calendar' = calendar
    BY <1>0, <1>10 DEF Planned!CutOff, Planned!TypeOK
  <2>2. /\ \/ call[k].at \in {"create", "unlist"} /\ slips' = slips \cup {"harmless"}
           \/ \E what \in {"lost", "unpatched", "undeleted"} : slips' = slips \cup {what}
        /\ \A j \in RedialRequests \ {k} : call'[j] = call[j]
        /\ call'[k].at = "done"
    BY <1>0, <1>10, <2>1, RedialGoes DEF Planned!CutOff, Planned!End
  <2>3. InStep' => InStep /\ Underway(k)
    BY <2>2 DEF RedialInv
  <2>4. InStep' => Underway(k)' /\ Calendared({redial.event})'
    BY <1>0, <2>1, <2>2, <2>3 DEF Underway, Calendared, Planned!TypeOK
  <2> QED BY <1>a, <1>b, <1>e, <2>1, <2>2, <2>4
<1>11. CASE Planned!Connection
  BY <1>0, <1>11 DEF Planned!Connection, RedialInv, Requested, Underway, Calendared, Quiet
<1>12. CASE UNCHANGED redialsVars
  BY <1>0, <1>12 DEF redialsVars, RedialInv, Requested, Underway, Calendared, Quiet
<1> QED BY <1>1, <1>2, <1>3, <1>4, <1>5, <1>6, <1>7, <1>8, <1>9, <1>10, <1>11, <1>12 DEF Planned!Next

\* When no request is under way the calendar shows the planned call exactly when
\* its row says so, and at its time, for any requests at it, unless two of them
\* crossed, an answer was lost, or a change could not be sent.
THEOREM CalendarFollowsRow ==
    ASSUME RedialFaults \in Nat, MaxVersion \in Nat \ {0}, Planned!None \notin RedialRequests
    PROVE  Planned!Spec => []EventMatchesRow
<1>1. RedialInv => EventMatchesRow
  BY DEF RedialInv, Planned!TypeOK, EventMatchesRow, Planned!EventMatchesRow, Planned!Quiet, Quiet,
         InStep, Calendared
<1>2. Planned!Init => RedialInv
  BY RedialInit
<1>3. RedialInv /\ [Planned!Next]_redialsVars => RedialInv'
  BY RedialStep
<1> QED BY <1>1, <1>2, <1>3, PTL DEF Planned!Spec, Planned!vars, redialsVars

-----------------------------------------------------------------------------
(* The date of an offer, for any table of holidays that leaves a working day in two weeks and
   any number of rows. First the date: the recursive function finds the first working day. *)
DayOff(d) == Offer!Weekend(d) \/ Offer!JpHoliday(d)

\* w is the first working day from d on.
FirstWorkingDay(d, w) ==
    /\ w \in Nat /\ d <= w /\ w <= d + 14
    /\ ~DayOff(w) /\ \A v \in Nat : d <= v /\ v < w => DayOff(v)

LEMMA WorkingDay ==
    ASSUME LastTabled \in Nat, NEW d \in Nat
    PROVE  FirstWorkingDay(d, Offer!WorkingDayFrom(d))
<1>1. \E w \in d..(d + 14) : ~DayOff(w)
  <2>1. CASE d <= LastTabled
    BY <2>1, WorkingDaysReturn DEF DayOff
  <2>2. CASE d > LastTabled
    <3>1. PICK w \in {d, d + 2} : ~(w % 7 \in {0, 6})
      OBVIOUS
    <3>2. w \in d..(d + 14) /\ ~(w <= LastTabled)
      BY <2>2
    <3> QED BY <3>1, <3>2 DEF DayOff, Offer!Weekend, Offer!JpHoliday
  <2> QED BY <2>1, <2>2
<1> DEFINE S == {w \in d..(d + 14) : ~DayOff(w)}
<1>2. PICK w \in S : \A v \in S : w <= v
  <2>1. S \in SUBSET Nat /\ S # {}
    BY <1>1
  <2> HIDE DEF S
  <2> QED BY <2>1, SmallestNat
<1>3. w \in d..(d + 14) /\ ~DayOff(w) /\ \A v \in d..(w - 1) : DayOff(v)
  BY <1>2
<1>4. \E x \in d..(d + 14) : /\ ~Offer!Weekend(x) /\ ~Offer!JpHoliday(x)
                             /\ \A v \in d..(x - 1) : Offer!Weekend(v) \/ Offer!JpHoliday(v)
  BY <1>3 DEF DayOff
<1> HIDE DEF S
<1> DEFINE x == Offer!WorkingDayFrom(d)
<1>5. /\ x \in d..(d + 14) /\ ~Offer!Weekend(x) /\ ~Offer!JpHoliday(x)
      /\ \A v \in d..(x - 1) : Offer!Weekend(v) \/ Offer!JpHoliday(v)
  BY <1>4, Zenon DEF Offer!WorkingDayFrom
<1> HIDE DEF x
<1>6. \A v \in Nat : d <= v /\ v < x => v \in d..(x - 1)
  BY <1>5
<1>7. FirstWorkingDay(d, x)
  BY <1>5, <1>6 DEF FirstWorkingDay, DayOff
<1> QED BY <1>7 DEF x

\* A day off has the working day of the next day.
LEMMA NextWorkingDay ==
    ASSUME LastTabled \in Nat, NEW d \in Nat
    PROVE  Offer!WorkingDayFrom(d) = IF DayOff(d) THEN Offer!WorkingDayFrom(d + 1) ELSE d
<1>1. FirstWorkingDay(d, Offer!WorkingDayFrom(d)) /\ FirstWorkingDay(d + 1, Offer!WorkingDayFrom(d + 1))
  BY WorkingDay
<1>2. ASSUME NEW v, NEW w, FirstWorkingDay(d, v), FirstWorkingDay(d + 1, w)
      PROVE  v = IF DayOff(d) THEN w ELSE d
  <2>1. v \in Nat /\ w \in Nat
    BY <1>2 DEF FirstWorkingDay
  <2>2. CASE DayOff(d)
    <3>1. v # d /\ v >= d + 1
      BY <1>2, <2>1, <2>2 DEF FirstWorkingDay
    <3>2. ~(v < w) /\ ~(w < v)
      BY <1>2, <2>1, <3>1 DEF FirstWorkingDay
    <3> QED BY <2>1, <2>2, <3>2
  <2>3. CASE ~DayOff(d)
    BY <1>2, <2>1, <2>3 DEF FirstWorkingDay
  <2> QED BY <2>2, <2>3
<1> QED BY <1>1, <1>2

\* The recursive function of OfferDeadlineDate finds the first working day.
LEMMA OfferDate ==
    ASSUME LastTabled \in Nat, OfferDays \in Nat, NEW day \in Nat
    PROVE  Offer!OfferDeadlineDate(day) = Offer!WorkingDayFrom(day + OfferDays)
<1> DEFINE from == CHOOSE f : f = [d \in Nat |-> IF DayOff(d) THEN f[d + 1] ELSE d]
<1>1. Offer!OfferDeadlineDate(day) = from[day + OfferDays]
  BY DEF Offer!OfferDeadlineDate, DayOff
<1> DEFINE first == [d \in Nat |-> Offer!WorkingDayFrom(d)]
<1>2. first = [d \in Nat |-> IF DayOff(d) THEN first[d + 1] ELSE d]
  <2>1. \A d \in Nat : first[d] = Offer!WorkingDayFrom(d)
    OBVIOUS
  <2>2. \A d \in Nat : first[d] = IF DayOff(d) THEN first[d + 1] ELSE d
    BY <2>1, NextWorkingDay
  <2> QED BY <2>2
<1>3. from = [d \in Nat |-> IF DayOff(d) THEN from[d + 1] ELSE d]
  <2> HIDE DEF first
  <2>1. \E f : f = [d \in Nat |-> IF DayOff(d) THEN f[d + 1] ELSE d]
    BY <1>2
  <2> QED BY <2>1, Zenon
<1>4. \A d \in Nat : from[d] = IF DayOff(d) THEN from[d + 1] ELSE d
  <2> HIDE DEF from
  <2> QED BY <1>3
<1> HIDE DEF from, first
<1> DEFINE Far == {d \in Nat : from[d] # Offer!WorkingDayFrom(d)}
           Dist == {n \in Nat : \E d \in Far : Offer!WorkingDayFrom(d) = d + n}
<1>5. Far = {}
  <2> SUFFICES ASSUME Far # {} PROVE FALSE
    OBVIOUS
  <2>1. \A d \in Nat : Offer!WorkingDayFrom(d) \in Nat /\ d <= Offer!WorkingDayFrom(d)
    BY WorkingDay DEF FirstWorkingDay
  <2>2. Dist # {} /\ Dist \in SUBSET Nat
    <3>1. PICK d \in Far : TRUE
      OBVIOUS
    <3>2. Offer!WorkingDayFrom(d) - d \in Nat /\ Offer!WorkingDayFrom(d) = d + (Offer!WorkingDayFrom(d) - d)
      BY <2>1
    <3>3. Offer!WorkingDayFrom(d) - d \in Dist
      BY <3>2
    <3> QED BY <3>3
  <2>3. PICK n \in Dist : \A m \in Dist : n <= m
    <3> HIDE DEF Dist
    <3> QED BY <2>2, SmallestNat
  <2>4. PICK d \in Far : Offer!WorkingDayFrom(d) = d + n
    BY <2>3
  <2>5. DayOff(d) /\ from[d] = from[d + 1] /\ Offer!WorkingDayFrom(d) = Offer!WorkingDayFrom(d + 1)
    BY <1>4, NextWorkingDay
  <2>6. d + 1 \in Far
    BY <2>4, <2>5
  <2>7. n # 0
    <3>1. FirstWorkingDay(d, Offer!WorkingDayFrom(d))
      BY WorkingDay
    <3> QED BY <2>4, <2>5, <3>1 DEF FirstWorkingDay
  <2>8. n - 1 \in Dist
    BY <2>3, <2>4, <2>5, <2>6, <2>7
  <2> QED BY <2>3, <2>8
<1> QED BY <1>1, <1>5

(* Then the mails: while nobody strays, the date is decided once and every worker that holds
   a date holds that one. *)
Straight == strayed.why = {}

\* The date is decided with the day it was counted from.
DecidedDate ==
    \/ deadline = Offer!NoDate /\ decided = 0
    \/ deadline = Offer!WorkingDayFrom(decided + OfferDays) /\ deadline # Offer!NoDate /\ decided # 0

\* A worker holds the date, or it may still decide, or its row is an old one.
HoldsDate(r) ==
    LET undated == send[r].date = Offer!NoDate
    IN  /\ send[r].step = 2 /\ ~send[r].old => deadline # Offer!NoDate
        /\ send[r].at = "loaded" => /\ send[r].now # 0
                                    /\ undated \/ send[r].date = deadline
                                    /\ undated => send[r].step = 1 \/ send[r].old
        /\ send[r].at = "composed" => /\ undated \/ send[r].date = deadline
                                      /\ undated => send[r].step = 2 /\ send[r].old

OfferInv ==
    /\ Offer!TypeOK
    /\ Straight => DecidedDate /\ OneDeadline /\ \A r \in OfferRows : HoldsDate(r)

OfferConstants ==
    /\ LastTabled \in Nat /\ OfferDays \in Nat /\ LastDay \in Nat \ {0} /\ MaxTries \in Nat /\ MaxSlips \in Nat

LEMMA OfferInit == ASSUME OfferConstants PROVE Offer!Init => OfferInv
<1> SUFFICES ASSUME Offer!Init PROVE OfferInv
  OBVIOUS
<1>1. PICK started \in SUBSET OfferRows :
        send = [r \in OfferRows |-> [at |-> "queued", old |-> r \in started,
                                     step |-> IF r \in started THEN 2 ELSE 1,
                                     tries |-> 0, now |-> 0, date |-> Offer!NoDate]]
  BY DEF Offer!Init
<1>2. \A r \in OfferRows : /\ send[r].at = "queued" /\ (send[r].step = 2 => send[r].old)
                           /\ send[r] \in [at : {"queued", "loaded", "composed", "done"}, old : BOOLEAN,
                                           step : 1..2, tries : 0..MaxTries, now : 0..LastDay, date : Offer!Dates]
  <2> SUFFICES ASSUME NEW r \in OfferRows
               PROVE  /\ send[r].at = "queued" /\ (send[r].step = 2 => send[r].old)
                      /\ send[r] \in [at : {"queued", "loaded", "composed", "done"}, old : BOOLEAN,
                                      step : 1..2, tries : 0..MaxTries, now : 0..LastDay, date : Offer!Dates]
    OBVIOUS
  <2>1. CASE r \in started
    <3>1. send[r] = [at |-> "queued", old |-> TRUE, step |-> 2, tries |-> 0, now |-> 0, date |-> Offer!NoDate]
      BY <1>1, <2>1
    <3> QED BY <3>1 DEF OfferConstants, Offer!Dates
  <2>2. CASE r \notin started
    BY <1>1, <2>2 DEF OfferConstants, Offer!Dates
  <2> QED BY <2>1, <2>2
<1>3. Offer!TypeOK
  BY <1>1, <1>2 DEF Offer!Init, Offer!TypeOK, OfferConstants, Offer!Dates, Offer!Closed
<1> QED BY <1>2, <1>3 DEF Offer!Init, OfferInv, Straight, DecidedDate, HoldsDate, OneDeadline, Offer!OneDeadline

LEMMA OwnDate ==
    ASSUME OfferConstants, NEW now \in 0..LastDay
    PROVE  /\ Offer!OfferDeadlineDate(now) = Offer!WorkingDayFrom(now + OfferDays)
           /\ Offer!OfferDeadlineDate(now) \in Offer!Dates
           /\ now # 0 => Offer!OfferDeadlineDate(now) # Offer!NoDate
<1>1. now \in Nat /\ now + OfferDays \in Nat
  BY DEF OfferConstants
<1>2. FirstWorkingDay(now + OfferDays, Offer!WorkingDayFrom(now + OfferDays))
  BY <1>1, WorkingDay DEF OfferConstants
<1>3. Offer!OfferDeadlineDate(now) = Offer!WorkingDayFrom(now + OfferDays)
  BY <1>1, OfferDate DEF OfferConstants
<1> QED BY <1>2, <1>3 DEF FirstWorkingDay, OfferConstants, Offer!Dates, Offer!NoDate

\* What a step makes of the row it is about.
LEMMA OfferSends ==
    ASSUME OfferConstants, Offer!TypeOK, NEW r \in OfferRows, NEW new,
           send' = [send EXCEPT ![r] = new],
           DOMAIN new = {"at", "old", "step", "tries", "now", "date"},
           new = [f \in DOMAIN new |-> new[f]],
           new.at \in {"queued", "loaded", "composed", "done"}, new.old = send[r].old, new.step \in 1..2,
           new.tries \in 0..MaxTries, new.now \in 0..LastDay, new.date \in Offer!Dates
    PROVE  /\ send'[r] = new /\ \A q \in OfferRows \ {r} : send'[q] = send[q]
           /\ send' \in [OfferRows -> [at : {"queued", "loaded", "composed", "done"}, old : BOOLEAN,
                                       step : 1..2, tries : 0..MaxTries, now : 0..LastDay, date : Offer!Dates]]
<1>1. send[r].old \in BOOLEAN
  BY DEF Offer!TypeOK
<1>2. new \in [at : {"queued", "loaded", "composed", "done"}, old : BOOLEAN,
               step : 1..2, tries : 0..MaxTries, now : 0..LastDay, date : Offer!Dates]
  BY <1>1
<1> QED BY <1>2 DEF Offer!TypeOK

LEMMA OfferComposed ==
    ASSUME OfferConstants, Offer!TypeOK, NEW r \in OfferRows, NEW d \in Offer!Dates, Offer!Composed(r, d)
    PROVE  /\ send'[r].at = "composed" /\ send'[r].date = d /\ send'[r].now = send[r].now
           /\ send'[r].old = send[r].old /\ send'[r].step = send[r].step
           /\ \A q \in OfferRows \ {r} : send'[q] = send[q]
           /\ send' \in [OfferRows -> [at : {"queued", "loaded", "composed", "done"}, old : BOOLEAN,
                                       step : 1..2, tries : 0..MaxTries, now : 0..LastDay, date : Offer!Dates]]
<1> DEFINE new == [send[r] EXCEPT !.at = "composed", !.date = d]
<1>1. send' = [send EXCEPT ![r] = new]
  BY DEF Offer!Composed
<1>2. /\ new.at = "composed" /\ new.date = d
      /\ \A f \in {"old", "step", "tries", "now"} : new[f] = send[r][f]
      /\ DOMAIN new = {"at", "old", "step", "tries", "now", "date"}
      /\ new = [f \in DOMAIN new |-> new[f]]
  BY DEF Offer!TypeOK
<1>3. new.step \in 1..2 /\ new.tries \in 0..MaxTries /\ new.now \in 0..LastDay
  BY <1>2 DEF Offer!TypeOK
<1> HIDE DEF new
<1> QED BY <1>1, <1>2, <1>3, OfferSends

LEMMA OfferStep ==
    ASSUME OfferConstants
    PROVE  OfferInv /\ [Offer!Next]_offerVars => OfferInv'
<1> SUFFICES ASSUME OfferInv, [Offer!Next]_offerVars PROVE OfferInv'
  OBVIOUS
<1>0. Offer!TypeOK
  BY DEF OfferInv
<1> DEFINE Sends == [OfferRows -> [at : {"queued", "loaded", "composed", "done"}, old : BOOLEAN, step : 1..2,
                                   tries : 0..MaxTries, now : 0..LastDay, date : Offer!Dates]]
<1>d. 0 \in 0..LastDay /\ Offer!NoDate \in Offer!Dates
  BY DEF OfferConstants, Offer!Dates
<1>1. ASSUME NEW r \in OfferRows, Offer!LoadVars(r) PROVE OfferInv'
  <2> DEFINE new == [send[r] EXCEPT !.at = "loaded", !.now = today, !.date = deadline, !.tries = @ + 1]
  <2>1. /\ send' = [send EXCEPT ![r] = new] /\ UNCHANGED <<today, deadline, form, decided, printed, strayed>>
        /\ send[r].tries < MaxTries
    BY <1>1 DEF Offer!LoadVars
  <2>2. /\ new.at = "loaded" /\ new.now = today /\ new.date = deadline /\ new.tries = send[r].tries + 1
        /\ new.old = send[r].old /\ new.step = send[r].step
        /\ DOMAIN new = {"at", "old", "step", "tries", "now", "date"}
        /\ new = [f \in DOMAIN new |-> new[f]]
    BY <1>0 DEF Offer!TypeOK
  <2>3. /\ new.at \in {"queued", "loaded", "composed", "done"} /\ new.step \in 1..2
        /\ new.tries \in 0..MaxTries /\ new.now \in 0..LastDay /\ new.now # 0 /\ new.date \in Offer!Dates
    BY <1>0, <2>1, <2>2 DEF Offer!TypeOK, OfferConstants
  <2> HIDE DEF new
  <2>4. send'[r] = new /\ (\A q \in OfferRows \ {r} : send'[q] = send[q]) /\ send' \in Sends
    BY <1>0, <2>1, <2>2, <2>3, OfferSends
  <2>5. Offer!TypeOK'
    BY <1>0, <2>1, <2>4 DEF Offer!TypeOK
  <2>6. Straight => HoldsDate(r)'
    BY <2>1, <2>2, <2>3, <2>4 DEF OfferInv, HoldsDate
  <2>7. Straight => \A q \in OfferRows : HoldsDate(q)'
    BY <2>1, <2>4, <2>6 DEF OfferInv, HoldsDate
  <2>8. Straight => OneDeadline'
    BY <2>1, <2>2, <2>4 DEF OfferInv, Straight, OneDeadline, Offer!OneDeadline
  <2> QED BY <2>1, <2>5, <2>7, <2>8 DEF OfferInv, Straight, DecidedDate
\* While nobody strays it is enough to look at the row that moves and at the date.
<1>a. ASSUME NEW r \in OfferRows, \A q \in OfferRows \ {r} : send'[q] = send[q],
             Offer!TypeOK', Straight' => Straight, Straight' => HoldsDate(r)' /\ DecidedDate' /\ OneDeadline',
             Straight' /\ deadline # Offer!NoDate => deadline' = deadline,
             Straight' => \A q \in OfferRows \ {r} : send[q].date = Offer!NoDate \/ send[q].date = deadline
                                                     \/ send[q].at \in {"queued", "done"}
      PROVE  OfferInv'
  <2>1. Straight' => \A q \in OfferRows \ {r} : HoldsDate(q)'
    BY <1>a DEF OfferInv, HoldsDate
  <2> QED BY <1>a, <2>1 DEF OfferInv
<1>b. Straight => \A q \in OfferRows : send[q].date = Offer!NoDate \/ send[q].date = deadline
                                       \/ send[q].at \in {"queued", "done"}
  BY <1>0 DEF OfferInv, HoldsDate, Offer!TypeOK
\* Nothing is printed: the mails keep the date they have, also when it is decided.
<1>c. ASSUME NEW r \in OfferRows, \A q \in OfferRows \ {r} : send'[q] = send[q], send'[r].old = send[r].old,
             printed' = printed, Straight, decided' = decided \/ decided = 0
      PROVE  OneDeadline'
  <2>1. \A m \in printed : send'[m.row].old = send[m.row].old
    BY <1>0, <1>c DEF Offer!TypeOK
  <2> QED BY <1>c, <2>1 DEF OfferInv, Straight, OneDeadline, Offer!OneDeadline
<1>2. ASSUME NEW r \in OfferRows, Offer!KeepVars(r) PROVE OfferInv'
  <2>1. /\ send[r].at = "loaded" /\ (send[r].date # Offer!NoDate \/ send[r].step # 1)
        /\ Offer!Composed(r, send[r].date) /\ UNCHANGED <<today, deadline, form, decided, printed, strayed>>
    BY <1>2 DEF Offer!KeepVars, Offer!Decides
  <2>2. send[r].date \in Offer!Dates /\ send[r].step \in 1..2
    BY <1>0 DEF Offer!TypeOK
  <2>3. /\ send'[r].at = "composed" /\ send'[r].date = send[r].date
        /\ send'[r].old = send[r].old /\ send'[r].step = send[r].step
        /\ (\A q \in OfferRows \ {r} : send'[q] = send[q]) /\ send' \in Sends
    BY <1>0, <2>1, <2>2, OfferComposed
  <2>4. Offer!TypeOK'
    BY <1>0, <2>1, <2>3 DEF Offer!TypeOK
  <2>5. Straight => HoldsDate(r)'
    BY <2>1, <2>2, <2>3 DEF OfferInv, HoldsDate
  <2>6. Straight => OneDeadline'
    BY <1>c, <2>1, <2>3
  <2>7. Straight => DecidedDate'
    BY <2>1 DEF OfferInv, DecidedDate
  <2> QED BY <1>a, <1>b, <2>1, <2>3, <2>4, <2>5, <2>6, <2>7 DEF Straight
<1>3. ASSUME NEW r \in OfferRows, Offer!SetIfAbsent(r) PROVE OfferInv'
  <2> DEFINE own == Offer!OfferDeadlineDate(send[r].now)
  <2>1. /\ send[r].at = "loaded" /\ send[r].date = Offer!NoDate /\ send[r].step = 1
        /\ deadline' = (IF deadline = Offer!NoDate THEN own ELSE deadline)
        /\ decided' = (IF deadline = Offer!NoDate THEN send[r].now ELSE decided)
        /\ Offer!Composed(r, deadline') /\ UNCHANGED <<today, form, printed, strayed>>
    BY <1>3 DEF Offer!SetIfAbsent, Offer!Decides
  <2>2. send[r].now \in 0..LastDay /\ deadline \in Offer!Dates /\ decided \in 0..LastDay
    BY <1>0 DEF Offer!TypeOK
  <2>3. /\ own \in Offer!Dates /\ own = Offer!WorkingDayFrom(send[r].now + OfferDays)
        /\ send[r].now # 0 => own # Offer!NoDate
    BY <2>2, OwnDate
  <2> HIDE DEF own
  <2>4. deadline' \in Offer!Dates /\ decided' \in 0..LastDay
    BY <2>1, <2>2, <2>3
  <2>5. /\ send'[r].at = "composed" /\ send'[r].date = deadline'
        /\ send'[r].old = send[r].old /\ send'[r].step = send[r].step
        /\ (\A q \in OfferRows \ {r} : send'[q] = send[q]) /\ send' \in Sends
    BY <1>0, <2>1, <2>4, OfferComposed
  <2>6. Offer!TypeOK'
    BY <1>0, <2>1, <2>4, <2>5 DEF Offer!TypeOK
  <2>7. Straight => DecidedDate' /\ deadline' # Offer!NoDate
    BY <2>1, <2>3 DEF OfferInv, DecidedDate, HoldsDate
  <2>8. Straight => HoldsDate(r)'
    BY <2>1, <2>5, <2>7 DEF OfferInv, HoldsDate
  <2>9. Straight => OneDeadline'
    <3>1. Straight => (decided' = decided \/ decided = 0)
      BY <2>1 DEF OfferInv, DecidedDate, Offer!NoDate
    <3> QED BY <1>c, <2>1, <2>5, <3>1
  <2> QED BY <1>a, <1>b, <2>1, <2>5, <2>6, <2>7, <2>8, <2>9 DEF Straight
<1>4. ASSUME NEW r \in OfferRows, Offer!SetFails(r) PROVE OfferInv'
  <2> DEFINE own == Offer!OfferDeadlineDate(send[r].now)
  <2>1. /\ deadline' \in {deadline, own} /\ Offer!Composed(r, own)
        /\ Offer!Stray("unsaved") /\ UNCHANGED <<today, form, decided, printed>>
    BY <1>4 DEF Offer!SetFails
  <2>2. send[r].now \in 0..LastDay /\ deadline \in Offer!Dates
    BY <1>0 DEF Offer!TypeOK
  <2>3. own \in Offer!Dates
    BY <2>2, OwnDate
  <2>4. send' \in Sends
    <3> HIDE DEF own
    <3> QED BY <1>0, <2>1, <2>3, OfferComposed
  <2>5. strayed' \in [why : SUBSET {"unsaved", "overwritten"}, times : 0..MaxSlips] /\ ~Straight'
    BY <1>0, <2>1 DEF Offer!Stray, Offer!TypeOK, OfferConstants, Straight
  <2> HIDE DEF own
  <2>6. Offer!TypeOK'
    BY <1>0, <2>1, <2>2, <2>3, <2>4, <2>5 DEF Offer!TypeOK
  <2> QED BY <2>5, <2>6 DEF OfferInv
<1>5. ASSUME NEW r \in OfferRows, Offer!Send(r) PROVE OfferInv'
  <2> DEFINE out == [row |-> r, step |-> send[r].step, date |-> send[r].date]
             new(where, step) == [send[r] EXCEPT !.at = where, !.step = step, !.now = 0, !.date = Offer!NoDate]
  <2>1. send[r].at = "composed" /\ UNCHANGED <<today, deadline, form, decided, strayed>>
    BY <1>5 DEF Offer!Send
  <2>2. PICK where \in {"queued", "done"}, step \in {2, send[r].step} :
          /\ send' = [send EXCEPT ![r] = new(where, step)]
          /\ \/ printed' = printed \cup {out} /\ step = 2
             \/ printed' = printed /\ step = send[r].step
    <3>1. CASE printed' = printed \cup {out} /\ send' = [send EXCEPT ![r] = new(IF send[r].step = 2 THEN "done" ELSE "queued", 2)]
      BY <3>1
    <3>2. CASE printed' = printed /\ send' = [send EXCEPT ![r] = [send[r] EXCEPT !.at = "queued", !.now = 0, !.date = Offer!NoDate]]
      <4>1. [send[r] EXCEPT !.at = "queued", !.now = 0, !.date = Offer!NoDate] = new("queued", send[r].step)
        BY <1>0 DEF Offer!TypeOK
      <4> QED BY <3>2, <4>1
    <3> QED BY <1>5, <3>1, <3>2 DEF Offer!Send
  <2>3. /\ new(where, step).at = where /\ new(where, step).step = step /\ new(where, step).now = 0
        /\ new(where, step).date = Offer!NoDate /\ new(where, step).tries = send[r].tries
        /\ new(where, step).old = send[r].old
        /\ DOMAIN new(where, step) = {"at", "old", "step", "tries", "now", "date"}
        /\ new(where, step) = [f \in DOMAIN new(where, step) |-> new(where, step)[f]]
    BY <1>0 DEF Offer!TypeOK
  <2>4. step \in 1..2 /\ send[r].step \in 1..2 /\ send[r].tries \in 0..MaxTries /\ out.date \in Offer!Dates
    BY <1>0, <2>2 DEF Offer!TypeOK
  <2>5. /\ send'[r] = new(where, step) /\ (\A q \in OfferRows \ {r} : send'[q] = send[q]) /\ send' \in Sends
    <3> DEFINE n == new(where, step)
    <3>1. send' = [send EXCEPT ![r] = n]
      BY <2>2
    <3>2. n.at = where /\ n.step = step /\ n.now = 0 /\ n.date = Offer!NoDate /\ n.tries = send[r].tries
          /\ n.old = send[r].old /\ DOMAIN n = {"at", "old", "step", "tries", "now", "date"}
          /\ n = [f \in DOMAIN n |-> n[f]]
      BY <2>3
    <3> HIDE DEF n
    <3>3. send'[r] = n /\ (\A q \in OfferRows \ {r} : send'[q] = send[q]) /\ send' \in Sends
      BY <1>0, <1>d, <2>4, <3>1, <3>2, OfferSends
    <3> QED BY <3>3 DEF n
  <2>6. send'[r].at \in {"queued", "done"} /\ send'[r].step = step /\ send'[r].old = send[r].old
    BY <2>3, <2>5
  <2> HIDE DEF new
  <2>7. out.row = r /\ out.step = send[r].step /\ out.date = send[r].date
        /\ out \in [row : OfferRows, step : 1..2, date : Offer!Dates]
    BY <2>4
  <2> HIDE DEF out
  <2>8. Offer!TypeOK'
    BY <1>0, <2>1, <2>2, <2>5, <2>7 DEF Offer!TypeOK
  <2>9. Straight => HoldsDate(r)'
    BY <2>1, <2>2, <2>4, <2>6 DEF OfferInv, HoldsDate
  <2>10. Straight => DecidedDate'
    BY <2>1 DEF OfferInv, DecidedDate
  <2>11. Straight => OneDeadline'
    <3>1. Straight => \/ out.date = Offer!WorkingDayFrom(decided + OfferDays) /\ decided # 0
                      \/ out.date = Offer!NoDate /\ out.step = 2 /\ send[r].old
      BY <2>1, <2>7 DEF OfferInv, HoldsDate, DecidedDate
    <3>2. \A q \in OfferRows : send'[q].old = send[q].old
      BY <2>5, <2>6
    <3>3. \A m \in printed : m.row \in OfferRows
      BY <1>0 DEF Offer!TypeOK
    <3> QED BY <2>1, <2>2, <2>7, <3>1, <3>2, <3>3 DEF OfferInv, Straight, OneDeadline, Offer!OneDeadline
  <2> QED BY <1>a, <1>b, <2>1, <2>5, <2>8, <2>9, <2>10, <2>11 DEF Straight
<1>6. CASE Offer!Midnight
  <2>1. today' \in 1..LastDay /\ UNCHANGED <<deadline, send, form, decided, printed, strayed>>
    BY <1>0, <1>6 DEF Offer!Midnight, Offer!TypeOK, OfferConstants
  <2> QED BY <2>1 DEF OfferInv, Offer!TypeOK, Straight, DecidedDate, HoldsDate, OneDeadline, Offer!OneDeadline
<1>7. CASE Offer!OpenForm
  BY <1>7 DEF Offer!OpenForm, OfferInv, Offer!TypeOK, Straight, DecidedDate, HoldsDate, OneDeadline, Offer!OneDeadline
<1>8. CASE Offer!UpdateCustomer
  <2>1. /\ form # Offer!Closed /\ deadline' = form /\ form' = Offer!Closed
        /\ UNCHANGED <<today, send, decided, printed>>
        /\ \/ form = deadline /\ UNCHANGED strayed
           \/ Offer!Stray("overwritten")
    BY <1>8 DEF Offer!UpdateCustomer
  <2>2. \/ deadline' = deadline /\ strayed' = strayed
        \/ strayed' \in [why : SUBSET {"unsaved", "overwritten"}, times : 0..MaxSlips] /\ ~Straight'
    BY <1>0, <2>1 DEF Offer!Stray, Offer!TypeOK, OfferConstants, Straight
  <2>3. Offer!TypeOK'
    BY <1>0, <2>1, <2>2 DEF Offer!TypeOK
  <2> QED BY <2>1, <2>2, <2>3 DEF OfferInv, Straight, DecidedDate, HoldsDate, OneDeadline, Offer!OneDeadline
<1>9. CASE UNCHANGED offerVars
  BY <1>9 DEF offerVars, OfferInv, Offer!TypeOK, Straight, DecidedDate, HoldsDate, OneDeadline, Offer!OneDeadline
<1> QED BY <1>1, <1>2, <1>3, <1>4, <1>5, <1>6, <1>7, <1>8, <1>9 DEF Offer!Next

\* Every out of every campaign prints the same date, the first working day when the
\* days of the offer are over, for any number of rows, attempts and campaigns.
THEOREM OneDateForAll == ASSUME OfferConstants PROVE Offer!Spec => []OneDeadline
<1>1. OfferInv => OneDeadline
  BY DEF OfferInv, Straight, OneDeadline, Offer!OneDeadline
<1>2. Offer!Init => OfferInv
  BY OfferInit
<1>3. OfferInv /\ [Offer!Next]_offerVars => OfferInv'
  BY OfferStep
<1> QED BY <1>1, <1>2, <1>3, PTL DEF Offer!Spec, Offer!vars, offerVars

-----------------------------------------------------------------------------
(* Links of a campaign, for any workers, URLs, mails and faults, also when the row with the
   largest number is the last a token can name. A number that was given while two workers
   composed is doubtful; no other is given twice. *)
USE LinkConstants

\* The rows have the numbers from 0 on.
Contiguous == \E n \in 0..MaxRows : Rows = 0..(n - 1)

\* Workers that compose at the same time are known as such.
CrossingsKnown ==
    /\ crossed \subseteq Composing
    /\ \A v, w \in Composing : v # w => v \in crossed

Leads(i, u) == i \in doubtful \/ links[i] = u

\* What a worker that composes a mail knows: a number that was free when it read
\* the list, and still is if it is alone; where its entries and its links lead.
KnowsRows(w) ==
    /\ pc[w] = "rewrite" => 0..(next[w] - 1) \subseteq Rows
    /\ pc[w] = "rewrite" /\ w \notin crossed => next[w] \notin Rows
    /\ \A u \in Urls : known[w][u] # NoIdx => Leads(known[w][u], u)
    /\ \A m \in mail[w] : Leads(m[1], m[2])

LinkInv ==
    /\ TypeOK
    /\ Contiguous
    /\ CrossingsKnown
    /\ ClickGoesWhereTheMailSaid
    /\ \A w \in Workers : KnowsRows(w)

-----------------------------------------------------------------------------
LEMMA IdxType == Idx = {i \in Nat : i < MaxRows} /\ NoIdx \notin Idx /\ NoIdx = MaxRows
BY DEF Idx, NoIdx

\* The row that wins when one URL has several.
LEMMA LastRow ==
    ASSUME TypeOK, NEW u \in Urls, \E i \in Rows : links[i] = u
    PROVE  \E i \in Rows : links[i] = u /\ \A j \in Rows : links[j] = u => j <= i
<1> DEFINE S == {i \in Rows : links[i] = u}
           D == {MaxRows - i : i \in S}
<1>1. S \subseteq Nat /\ \A i \in S : i < MaxRows
  BY IdxType DEF Rows
<1>2. D \subseteq Nat /\ D # {}
  BY <1>1
<1>3. PICK d \in D : \A e \in D : d <= e
  <2> HIDE DEF D
  <2> QED BY <1>2, SmallestNat
<1>4. PICK i \in S : d = MaxRows - i
  OBVIOUS
<1>5. ASSUME NEW j \in S PROVE j <= i
  <2>1. MaxRows - j \in D
    OBVIOUS
  <2>2. MaxRows - i <= MaxRows - j
    BY <1>3, <1>4, <2>1
  <2>3. i \in Nat /\ j \in Nat
    BY <1>1
  <2> HIDE DEF S, D
  <2> QED BY <2>2, <2>3
<1> QED BY <1>5

\* Where each URL leads when the list is read.
LEMMA ListedUrls ==
    ASSUME TypeOK, NEW w \in Workers, NEW us \in SUBSET Urls, ListLinks(w, us), NEW u \in Urls
    PROVE  /\ known'[w][u] \in Idx \cup {NoIdx}
           /\ known'[w][u] # NoIdx => links[known'[w][u]] = u
<1> DEFINE Wins(i) == links[i] = u /\ \A j \in Rows : links[j] = u => j <= i
<1>1. known'[w][u] = IF \E i \in Rows : links[i] = u THEN CHOOSE i \in Rows : Wins(i) ELSE NoIdx
  BY DEF ListLinks, TypeOK
<1>2. CASE \E i \in Rows : links[i] = u
  <2>1. \E i \in Rows : Wins(i)
    BY <1>2, LastRow
  <2> HIDE DEF Wins
  <2>2. known'[w][u] \in Rows /\ Wins(known'[w][u])
    BY <1>1, <1>2, <2>1, Zenon
  <2> QED BY <2>2 DEF Wins, Rows
<1>3. CASE ~\E i \in Rows : links[i] = u
  BY <1>1, <1>3
<1> QED BY <1>2, <1>3

\* The list is as long as the first free number.
LEMMA NextIsFree ==
    ASSUME TypeOK, Contiguous
    PROVE  Cardinality(Rows) \in 0..MaxRows /\ Rows = 0..(Cardinality(Rows) - 1)
<1>1. PICK n \in 0..MaxRows : Rows = 0..(n - 1)
  BY DEF Contiguous
<1>2. Cardinality(0..(n - 1)) = n
  <2>1. 0 \in Int /\ n - 1 \in Int /\ n \in Nat
    BY <1>1
  <2>2. Cardinality(0..(n - 1)) = IF 0 > n - 1 THEN 0 ELSE (n - 1) - 0 + 1
    BY <2>1, FS_Interval
  <2> QED BY <2>1, <2>2
<1> QED BY <1>1, <1>2

LEMMA LinkInit == Init => LinkInv
<1> SUFFICES ASSUME Init PROVE LinkInv
  OBVIOUS
<1>1. Rows = {}
  BY DEF Init, Rows
<1>2. 0 \in 0..MaxRows /\ Rows = 0..(0 - 1)
  BY <1>1
<1>3. Contiguous
  BY <1>2 DEF Contiguous
<1>4. TypeOK
  BY IdxType DEF Init, TypeOK
<1> QED
  BY <1>3, <1>4, IdxType DEF Init, LinkInv, KnowsRows, ClickGoesWhereTheMailSaid, CrossingsKnown, Composing

\* A number that is taken again is doubtful from then on.
LEMMA LeadsStill ==
    ASSUME LinkInv, NEW w \in Workers, NEW u \in Urls, CreateLink(w, u), NEW i \in Idx, NEW v \in Urls, Leads(i, v)
    PROVE  i \in doubtful' \/ links'[i] = v
<1>1. /\ links' = [links EXCEPT ![next[w]] = u] /\ pc[w] = "rewrite"
      /\ doubtful' = doubtful \cup (IF w \in crossed THEN {next[w]} ELSE {})
  BY DEF CreateLink
<1>2. CASE i = next[w] /\ i \notin doubtful
  <2>1. i \in Rows
    BY <1>2, LinkConstants DEF Leads, Rows
  <2>2. w \in crossed
    BY <1>1, <1>2, <2>1 DEF LinkInv, KnowsRows
  <2> QED BY <1>1, <1>2, <2>2 DEF Leads
<1>3. CASE i # next[w] \/ i \in doubtful
  BY <1>1, <1>3 DEF Leads, LinkInv, TypeOK
<1> QED BY <1>2, <1>3

LEMMA LinkStep == LinkInv /\ [Next]_vars => LinkInv'
<1> SUFFICES ASSUME LinkInv, [Next]_vars PROVE LinkInv'
  OBVIOUS
<1> USE IdxType DEF LinkInv
<1>1. ASSUME NEW w \in Workers, NEW us \in SUBSET Urls, ListLinks(w, us) PROVE LinkInv'
  <2>1. Cardinality(Rows) \in 0..MaxRows /\ Rows = 0..(Cardinality(Rows) - 1)
    BY NextIsFree
  <2>2. /\ next' = [next EXCEPT ![w] = Cardinality(Rows)] /\ UNCHANGED <<links, mail, faults, sent, doubtful>>
        /\ crossed' = crossed \cup (IF Composing = {} THEN {} ELSE Composing \cup {w})
        /\ pc' = [pc EXCEPT ![w] = "rewrite"]
    BY <1>1 DEF ListLinks
  <2>3. known' \in [Workers -> [Urls -> Idx \cup {NoIdx}]]
        /\ \A v \in Workers \ {w} : known'[v] = known[v]
    <3>1. \A u \in Urls : known'[w][u] \in Idx \cup {NoIdx}
      BY <1>1, ListedUrls
    <3>2. known' = [known EXCEPT ![w] = known'[w]] /\ known'[w] = [u \in Urls |-> known'[w][u]]
      BY <1>1 DEF ListLinks, TypeOK
    <3> QED BY <3>1, <3>2 DEF TypeOK
  <2>4. TypeOK'
    BY <1>1, <2>1, <2>2, <2>3 DEF ListLinks, TypeOK, Composing
  <2>5. Rows' = Rows /\ Composing' = Composing \cup {w}
    BY <2>2 DEF Rows, Composing, TypeOK
  <2>6. CrossingsKnown'
    BY <2>2, <2>5 DEF CrossingsKnown
  <2>7. KnowsRows(w)'
    <3>1. \A u \in Urls : known'[w][u] # NoIdx => links[known'[w][u]] = u
      BY <1>1, ListedUrls
    <3>2. next'[w] = Cardinality(Rows)
      BY <2>2 DEF TypeOK
    <3> QED BY <2>1, <2>2, <2>5, <3>1, <3>2 DEF KnowsRows, Leads
  <2>8. ASSUME NEW v \in Workers \ {w} PROVE KnowsRows(v)'
    <3>1. KnowsRows(v) /\ pc'[v] = pc[v] /\ next'[v] = next[v]
      BY <2>2 DEF TypeOK
    <3>2. crossed \subseteq crossed'
      BY <2>2
    <3> QED BY <2>2, <2>3, <2>5, <3>1, <3>2 DEF KnowsRows, Leads
  <2>9. ClickGoesWhereTheMailSaid' /\ Contiguous'
    BY <2>2, <2>5 DEF Contiguous, ClickGoesWhereTheMailSaid, Target
  <2> QED BY <2>4, <2>6, <2>7, <2>8, <2>9
<1>2. ASSUME NEW w \in Workers, NEW u \in Urls, Reuse(w, u) PROVE LinkInv'
  <2>1. /\ mail' = [mail EXCEPT ![w] = @ \cup Token(known[w][u], u)]
        /\ UNCHANGED <<links, pc, known, next, faults, sent, crossed, doubtful>>
    BY <1>2 DEF Reuse, Rewritten
  <2>2. known[w][u] \in Idx /\ Leads(known[w][u], u)
    BY <1>2 DEF Reuse, TypeOK, KnowsRows
  <2>3. Token(known[w][u], u) \subseteq (Idx \cap 0..MaxIdx) \X Urls
    BY <2>2 DEF Token
  <2>4. TypeOK'
    BY <1>2, <2>1, <2>3 DEF Reuse, Rewritten, TypeOK
  <2>5. ASSUME NEW m \in mail'[w] PROVE Leads(m[1], m[2])
    BY <2>1, <2>2 DEF TypeOK, Token, KnowsRows
  <2>6. KnowsRows(w)'
    BY <2>1, <2>5 DEF KnowsRows, Rows, Leads
  <2>7. \A v \in Workers \ {w} : KnowsRows(v)'
    BY <2>1 DEF KnowsRows, Rows, Leads, TypeOK
  <2> QED BY <2>1, <2>4, <2>6, <2>7
          DEF Contiguous, Rows, ClickGoesWhereTheMailSaid, Target, CrossingsKnown, Composing
<1>3. ASSUME NEW w \in Workers, NEW u \in Urls, CreateLink(w, u) PROVE LinkInv'
  <2> DEFINE n == next[w]
             Then(i, v) == i \in doubtful' \/ links'[i] = v
  <2>1. /\ n \in Idx /\ 0..(n - 1) \subseteq Rows /\ pc[w] = "rewrite"
        /\ links' = [links EXCEPT ![n] = u]
        /\ known' = [known EXCEPT ![w] = [known[w] EXCEPT ![u] = n]]
        /\ next' = [next EXCEPT ![w] = n + 1]
        /\ mail' = [mail EXCEPT ![w] = @ \cup Token(n, u)]
        /\ body' = [body EXCEPT ![w] = @ \ {u}]
        /\ doubtful' = doubtful \cup (IF w \in crossed THEN {n} ELSE {})
        /\ UNCHANGED <<pc, faults, sent, crossed>>
    BY <1>3 DEF CreateLink, Rewritten, KnowsRows
  <2>2. links' \in [Idx -> Urls \cup {NoUrl}] /\ Then(n, u)
    BY <2>1 DEF TypeOK, Leads
  <2>3. Token(n, u) \subseteq (Idx \cap 0..MaxIdx) \X Urls
    BY <2>1 DEF Token
  <2>4. TypeOK'
    <3>1. n + 1 \in 0..MaxRows
      BY <2>1
    <3>2. [known[w] EXCEPT ![u] = n] \in [Urls -> Idx \cup {NoIdx}]
      BY <2>1 DEF TypeOK
    <3> QED BY <2>1, <2>2, <2>3, <3>1, <3>2 DEF TypeOK
  <2>5. Rows' = Rows \cup {n}
    BY <2>1 DEF Rows, TypeOK
  <2>6. Contiguous'
    <3>1. PICK k \in 0..MaxRows : Rows = 0..(k - 1)
      BY DEF Contiguous
    <3>2. CASE n \in Rows
      BY <2>5, <3>1, <3>2 DEF Contiguous
    <3>3. CASE n \notin Rows
      <4>1. n = k
        <5>1. n \in Nat /\ k \in Nat /\ ~(n <= k - 1)
          BY <2>1, <3>1, <3>3
        <5>2. n > k => k \in 0..(n - 1)
          BY <5>1
        <5>3. k \notin Rows
          BY <3>1
        <5> QED BY <2>1, <5>1, <5>2, <5>3
      <4>2. Rows' = 0..((n + 1) - 1) /\ n + 1 \in 0..MaxRows
        BY <2>1, <2>5, <3>1, <4>1
      <4> QED BY <4>2 DEF Contiguous
    <3> QED BY <3>2, <3>3
  <2>7. ASSUME NEW m \in mail'[w] PROVE Then(m[1], m[2])
    <3>1. m \in mail[w] \/ m = <<n, u>>
      BY <2>1 DEF TypeOK, Token
    <3>2. CASE m \in mail[w]
      <4>1. m[1] \in Idx /\ Leads(m[1], m[2]) /\ m[2] \in Urls
        BY <3>2 DEF TypeOK, KnowsRows
      <4> QED BY <1>3, <4>1, LeadsStill
    <3> QED BY <2>2, <3>1, <3>2 DEF Leads
  <2>8. ASSUME NEW v \in Urls, known'[w][v] # NoIdx PROVE Then(known'[w][v], v)
    <3>1. known'[w][v] = IF v = u THEN n ELSE known[w][v]
      BY <2>1 DEF TypeOK
    <3>2. CASE v # u
      <4>1. known[w][v] \in Idx /\ Leads(known[w][v], v)
        BY <2>8, <3>1, <3>2 DEF TypeOK, KnowsRows
      <4> QED BY <1>3, <3>1, <3>2, <4>1, LeadsStill DEF Leads
    <3> QED BY <2>2, <3>1, <3>2 DEF Leads
  <2>9. KnowsRows(w)'
    <3>1. next'[w] = n + 1 /\ pc'[w] = "rewrite"
      BY <2>1 DEF TypeOK
    <3>2. 0..((n + 1) - 1) \subseteq Rows'
      BY <2>1, <2>5
    <3>3. w \notin crossed => n + 1 \notin Rows'
      <4>1. ASSUME n + 1 \in Rows, w \notin crossed PROVE FALSE
        <5>1. PICK k \in 0..MaxRows : Rows = 0..(k - 1)
          BY DEF Contiguous
        <5>2. n \in Rows
          BY <2>1, <4>1, <5>1
        <5> QED BY <2>1, <4>1, <5>2 DEF KnowsRows
      <4> QED BY <2>1, <2>5, <4>1
    <3> QED BY <2>1, <2>7, <2>8, <3>1, <3>2, <3>3 DEF KnowsRows, Leads
  <2>10. ASSUME NEW v \in Workers \ {w} PROVE KnowsRows(v)'
    <3>1. KnowsRows(v) /\ UNCHANGED <<pc[v], next[v], known[v], mail[v]>> /\ Rows \subseteq Rows'
      BY <2>1, <2>5 DEF TypeOK
    <3>2. pc[v] = "rewrite" => v \in crossed
      BY <2>1 DEF CrossingsKnown, Composing
    <3>3. ASSUME NEW x \in Urls, known[v][x] # NoIdx PROVE Then(known[v][x], x)
      <4>1. known[v][x] \in Idx /\ Leads(known[v][x], x)
        BY <3>1, <3>3 DEF TypeOK, KnowsRows
      <4> QED BY <1>3, <4>1, LeadsStill
    <3>4. ASSUME NEW m \in mail[v] PROVE Then(m[1], m[2])
      <4>1. m[1] \in Idx /\ m[2] \in Urls /\ Leads(m[1], m[2])
        BY <3>1 DEF TypeOK, KnowsRows
      <4> QED BY <1>3, <4>1, LeadsStill
    <3> QED BY <2>1, <3>1, <3>2, <3>3, <3>4 DEF KnowsRows, Leads
  <2>11. ClickGoesWhereTheMailSaid'
    <3> SUFFICES ASSUME NEW m \in sent PROVE Then(m[1], m[2])
      BY <2>1 DEF ClickGoesWhereTheMailSaid, Target, Leads
    <3>1. m[1] \in Idx /\ m[2] \in Urls /\ Leads(m[1], m[2])
      BY DEF TypeOK, ClickGoesWhereTheMailSaid, Target, Leads
    <3> QED BY <1>3, <3>1, LeadsStill
  <2>12. CrossingsKnown'
    BY <2>1 DEF CrossingsKnown, Composing
  <2> QED BY <2>4, <2>6, <2>9, <2>10, <2>11, <2>12
<1>4. ASSUME NEW w \in Workers, NEW u \in Urls, CreateFails(w, u) PROVE LinkInv'
  <2>1. UNCHANGED <<links, pc, known, next, mail, sent, crossed, doubtful>>
    BY <1>4 DEF CreateFails
  <2>2. TypeOK'
    BY <1>4 DEF CreateFails, Fault, TypeOK
  <2>3. \A v \in Workers : KnowsRows(v)'
    BY <2>1 DEF KnowsRows, Rows, Leads
  <2> QED BY <2>1, <2>2, <2>3 DEF Contiguous, Rows, ClickGoesWhereTheMailSaid, Target, CrossingsKnown, Composing
<1>5. ASSUME NEW w \in Workers, Send(w) \/ Crash(w) PROVE LinkInv'
  <2>1. /\ Reset(w) /\ UNCHANGED <<links, doubtful>> /\ sent' \in {sent, sent \cup mail[w]}
        /\ faults' \in 0..MaxFaults
    BY <1>5 DEF Send, Crash, Fault, TypeOK
  <2>2. TypeOK'
    BY <2>1 DEF Reset, TypeOK
  <2>3. KnowsRows(w)'
    BY <2>1 DEF Reset, TypeOK, KnowsRows
  <2>4. \A v \in Workers \ {w} : KnowsRows(v)'
    BY <2>1 DEF Reset, TypeOK, KnowsRows, Rows, Leads
  <2>5. ClickGoesWhereTheMailSaid'
    BY <2>1 DEF ClickGoesWhereTheMailSaid, Target, KnowsRows, Leads
  <2>6. CrossingsKnown'
    <3>1. crossed' = crossed \ {w} /\ Composing' = Composing \ {w}
      BY <2>1 DEF Reset, Composing, TypeOK
    <3> QED BY <3>1 DEF CrossingsKnown
  <2> QED BY <2>1, <2>2, <2>3, <2>4, <2>5, <2>6 DEF Contiguous, Rows
<1>6. CASE UNCHANGED vars
  <2>1. \A v \in Workers : KnowsRows(v)'
    BY <1>6 DEF vars, KnowsRows, Rows, Leads
  <2> QED BY <1>6, <2>1 DEF vars, TypeOK, Contiguous, Rows, ClickGoesWhereTheMailSaid, Target, CrossingsKnown, Composing
<1> QED BY <1>1, <1>2, <1>3, <1>4, <1>5, <1>6 DEF Next

\* Any number of workers, over crashes and failed statements: every click goes
\* where the mail said, unless its number was given while two workers composed
\* (worker.go:453-454 takes for granted that none ever do).
THEOREM ClicksArrive == Spec => []ClickGoesWhereTheMailSaid
<1>1. LinkInv => ClickGoesWhereTheMailSaid
  BY DEF LinkInv
<1>2. LinkInv /\ [Next]_vars => LinkInv'
  BY LinkStep
<1> QED BY <1>1, <1>2, LinkInit, PTL DEF Spec

-----------------------------------------------------------------------------
(* The types of all parts, for any constants. Of most parts they are in the invariants
   above; the others follow here. *)

\* Users of a company.
LEMMA UserTypes ==
    ASSUME MaxMishaps \in Nat PROVE Users!TypeOK /\ [Users!Next]_usersVars => Users!TypeOK'
<1> SUFFICES ASSUME Users!TypeOK, [Users!Next]_usersVars PROVE Users!TypeOK'
  OBVIOUS
<1> USE DEF Users!TypeOK, Users!At, Users!Doubt, Users!Mishap, Users!People
<1>1. ASSUME NEW c \in Creations, Users!CreateUser(c) PROVE Users!TypeOK'
  BY <1>1 DEF Users!CreateUser
<1>2. ASSUME NEW c \in Creations, Users!SetPassword(c) PROVE Users!TypeOK'
  BY <1>2 DEF Users!SetPassword
<1>3. ASSUME NEW c \in Creations, Users!CreateRow(c) PROVE Users!TypeOK'
  BY <1>3 DEF Users!CreateRow, Users!Answer
<1>4. ASSUME NEW c \in Creations, Users!UndoAccount(c) PROVE Users!TypeOK'
  BY <1>4 DEF Users!UndoAccount
<1>5. ASSUME NEW u \in Users!People, Users!JitProvisionUser(u) \/ Users!AddCompanyUser(u) PROVE Users!TypeOK'
  BY <1>5 DEF Users!JitProvisionUser, Users!AddCompanyUser
<1>6. ASSUME NEW d \in Deletions, NEW u \in Users!People, NEW t \in Users!People, Users!CheckDeletion(d, u, t)
      PROVE Users!TypeOK'
  BY <1>6 DEF Users!CheckDeletion
<1>7. ASSUME NEW d \in Deletions, Users!DeleteUser(d) PROVE Users!TypeOK'
  BY <1>7 DEF Users!DeleteUser
<1>8. CASE UNCHANGED usersVars
  BY <1>8 DEF usersVars
<1> QED BY <1>1, <1>2, <1>3, <1>4, <1>5, <1>6, <1>7, <1>8 DEF Users!Next

\* Calls: the page chooses a status from those there are.
LEMMA LogTypes ==
    ASSUME MaxSeconds \in Nat, MaxPriority \in Nat
    PROVE  Log!TypeOK /\ [Log!Next]_logVars => Log!TypeOK'
<1> SUFFICES ASSUME Log!TypeOK, [Log!Next]_logVars PROVE Log!TypeOK'
  OBVIOUS
<1> USE DEF Log!TypeOK
<1> DEFINE Recorded == [click : Clicks, time : 0..MaxSeconds, status : 1..MaxPriority, guarded : BOOLEAN]
           Stages   == [at : {"idle", "chosen", "looking", "inserting", "done", "refused"},
                        time : 0..MaxSeconds, status : 0..MaxPriority]
<1>0. \A r \in Stages, a \in {"looking", "done"}, t \in 0..MaxSeconds : [r EXCEPT !.at = a, !.time = t] \in Stages
  OBVIOUS
<1>1. ASSUME NEW k \in Clicks, Log!ChooseStatus(k) PROVE Log!TypeOK'
  <2>1. statuses # {} /\ statuses \subseteq Nat
    BY <1>1 DEF Log!ChooseStatus
  <2>2. \E s \in statuses : \A t \in statuses : s <= t
    BY <2>1, SmallestNat
  <2>3. Log!Default \in statuses
    BY <2>2, Zenon DEF Log!Default
  <2> QED BY <1>1, <2>3 DEF Log!ChooseStatus
<1>2. ASSUME NEW k \in Clicks, Log!CreateActivityCall(k) PROVE Log!TypeOK'
  <2>1. together' \subseteq SUBSET Clicks
    <3>1. \A j \in Log!UnderWay : {k, j} \in SUBSET Clicks
      BY DEF Log!UnderWay
    <3>2. together' = together \cup {{k, j} : j \in Log!UnderWay}
      BY <1>2 DEF Log!CreateActivityCall
    <3> QED BY <3>1, <3>2
  <2>2. click' = [click EXCEPT ![k] = [click[k] EXCEPT !.at = "looking", !.time = clock]]
    BY <1>2 DEF Log!CreateActivityCall
  <2>3. [click[k] EXCEPT !.at = "looking", !.time = clock] \in Stages
    <3> HIDE DEF Stages
    <3>1. click[k] \in Stages /\ clock \in 0..MaxSeconds
      BY DEF Stages
    <3> QED BY <1>0, <3>1
  <2> QED BY <1>2, <2>1, <2>2, <2>3 DEF Log!CreateActivityCall
<1>3. ASSUME NEW k \in Clicks, Log!Look(k) PROVE Log!TypeOK'
  BY <1>3 DEF Log!Look
<1>4. ASSUME NEW k \in Clicks, NEW t \in 0..MaxSeconds, NEW g \in BOOLEAN, Log!CreateActivity(k, t, g)
      PROVE  /\ calls' \subseteq Recorded
             /\ click' \in [Clicks -> Stages]
  <2>1. CASE UNCHANGED calls /\ click' = [click EXCEPT ![k].at = "refused"]
    BY <2>1
  <2>2. CASE /\ click[k].status \in statuses
             /\ calls' = calls \cup {[click |-> k, time |-> t, status |-> click[k].status, guarded |-> g]}
             /\ click' = [click EXCEPT ![k].at = "done", ![k].time = t]
    <3>1. [click |-> k, time |-> t, status |-> click[k].status, guarded |-> g] \in Recorded
      BY <2>2
    <3>2. [click[k] EXCEPT !.at = "done", !.time = t] \in Stages
      <4> HIDE DEF Stages
      <4>1. click[k] \in Stages
        BY DEF Stages
      <4> QED BY <1>0, <4>1
    <3>3. click' = [click EXCEPT ![k] = [click[k] EXCEPT !.at = "done", !.time = t]]
      BY <2>2
    <3>4. calls' \subseteq Recorded
      BY <2>2, <3>1
    <3> QED BY <3>2, <3>3, <3>4
  <2> QED BY <1>4, <2>1, <2>2 DEF Log!CreateActivity
<1>5. ASSUME NEW k \in Clicks, Log!Insert(k) PROVE Log!TypeOK'
  <2>1. Log!CreateActivity(k, click[k].time, TRUE) /\ click[k].time \in 0..MaxSeconds /\ TRUE \in BOOLEAN
        /\ UNCHANGED <<clock, statuses, together, blind>>
    BY <1>5 DEF Log!Insert
  <2> QED BY <1>4, <2>1
<1>6. ASSUME NEW k \in Clicks, NEW t \in 0..MaxSeconds, Log!InsertUnguarded(k, t) PROVE Log!TypeOK'
  <2>1. Log!CreateActivity(k, t, FALSE) /\ FALSE \in BOOLEAN /\ UNCHANGED <<clock, statuses, together, blind>>
    BY <1>6 DEF Log!InsertUnguarded
  <2> QED BY <1>4, <2>1
<1>7. ASSUME Log!CreateStatus PROVE Log!TypeOK'
  BY <1>7 DEF Log!CreateStatus
<1>8. ASSUME NEW s \in 1..MaxPriority, Log!DeleteStatus(s) PROVE Log!TypeOK'
  BY <1>8 DEF Log!DeleteStatus
<1>9. ASSUME NEW c \in calls, NEW s \in 1..MaxPriority, Log!UpdateActivityStatus(c, s) PROVE Log!TypeOK'
  <2>1. [c EXCEPT !.status = s] \in Recorded
    OBVIOUS
  <2> QED BY <1>9, <2>1 DEF Log!UpdateActivityStatus
<1>10. ASSUME Log!Tick PROVE Log!TypeOK'
  BY <1>10 DEF Log!Tick
<1>11. CASE UNCHANGED logVars
  BY <1>11 DEF logVars
<1> QED BY <1>1, <1>2, <1>3, <1>5, <1>6, <1>7, <1>8, <1>9, <1>10, <1>11 DEF Log!Next

\* Streams: no pod has more to send than there were notifications.
StreamsTyped == Streams!TypeOK /\ \A p \in HubPods : redis[p] <= notices

LEMMA StreamTypes ==
    ASSUME MaxNotices \in Nat, Slots \in Nat, PodOf \in [Connections -> HubPods]
    PROVE  StreamsTyped /\ [Streams!Next]_streamsVars => StreamsTyped'
<1> SUFFICES ASSUME StreamsTyped, [Streams!Next]_streamsVars PROVE StreamsTyped'
  OBVIOUS
<1> USE DEF StreamsTyped, Streams!TypeOK
<1>1. CASE Streams!Broadcast
  BY <1>1 DEF Streams!Broadcast
<1>2. ASSUME NEW p \in HubPods, Streams!LocalBroadcast(p) PROVE StreamsTyped'
  BY <1>2 DEF Streams!LocalBroadcast
<1>3. ASSUME NEW s \in Connections, Streams!Subscribe(s) PROVE StreamsTyped'
  BY <1>3 DEF Streams!Subscribe
<1>4. ASSUME NEW s \in Connections, Streams!Unsubscribe(s) PROVE StreamsTyped'
  BY <1>4 DEF Streams!Unsubscribe
<1>5. ASSUME NEW s \in Connections, Streams!SendTo(s) PROVE StreamsTyped'
  BY <1>5 DEF Streams!SendTo
<1>6. ASSUME NEW s \in Connections, Streams!Return(s) PROVE StreamsTyped'
  BY <1>6 DEF Streams!Return
<1>7. ASSUME NEW s \in Connections, Streams!Write(s) PROVE StreamsTyped'
  BY <1>7 DEF Streams!Write
<1>8. ASSUME NEW s \in Connections, Streams!Leave(s) PROVE StreamsTyped'
  BY <1>8 DEF Streams!Leave
<1>9. CASE UNCHANGED streamsVars
  BY <1>9 DEF streamsVars
<1> QED BY <1>1, <1>2, <1>3, <1>4, <1>5, <1>6, <1>7, <1>8, <1>9 DEF Streams!Next

(* The ingest. A step that ends a batch or begins one has the types of all it writes. *)
\* The types of the polls, of the cursors, and of the rest.
PollsTyped ==
    /\ at \in [PollPods -> {"idle", "select", "fetch", "store", "file", "finish"}]
    /\ poll \in [PollPods -> Ingest!Poll]
    /\ \A p \in PollPods : at[p] \in {"store", "file"} <=> poll[p].todo # {}

CursorTyped == cursor \in [PollPods -> [Ingest!Folders -> [validity : Nat, next : Nat]]]

RestTyped ==
    /\ uid \in [Messages -> Nat]
    /\ uidNext \in [Ingest!Folders -> Nat \ {0}]
    /\ validity \in [Ingest!Folders -> Nat]
    /\ old \subseteq Messages
    /\ synced \in BOOLEAN
    /\ stored \subseteq Messages /\ answered \subseteq Messages /\ timeline \subseteq Messages
    /\ pollFaults \in 0..PollFaults
    /\ unread \subseteq Messages /\ dropped \subseteq Messages

LEMMA NextFolderTypes ==
    ASSUME Ingest!TypeOK, NEW p \in PollPods, NEW q \in Ingest!Poll, Ingest!NextFolder(p, q)
    PROVE  PollsTyped'
<1>1. [q EXCEPT !.folder = "INBOX", !.todo = {}] \in Ingest!Poll
  BY DEF Ingest!Poll, Ingest!Folders
<1>2. [q EXCEPT !.folder = "INBOX", !.todo = {}].todo = {}
  BY DEF Ingest!Poll
<1> QED BY <1>1, <1>2 DEF Ingest!NextFolder, Ingest!TypeOK, PollsTyped

LEMMA BatchTypes ==
    ASSUME Ingest!TypeOK, NEW p \in PollPods, NEW msgs \in SUBSET Messages, msgs # {},
           at' = [at EXCEPT ![p] = "store"],
           poll' = [poll EXCEPT ![p] = [poll[p] EXCEPT !.todo = msgs]]
    PROVE  PollsTyped'
<1>1. poll[p] \in Ingest!Poll
  BY DEF Ingest!TypeOK
<1>2. [poll[p] EXCEPT !.todo = msgs] \in Ingest!Poll /\ [poll[p] EXCEPT !.todo = msgs].todo = msgs
  BY <1>1 DEF Ingest!Poll
<1> QED BY <1>2 DEF Ingest!TypeOK, PollsTyped

LEMMA FetchedTypes ==
    ASSUME Ingest!TypeOK, NEW p \in PollPods, NEW msgs \in SUBSET Messages, Ingest!Fetched(p, msgs)
    PROVE  PollsTyped'
<1>1. poll[p] \in Ingest!Poll
  BY DEF Ingest!TypeOK
<1> QED BY <1>1, NextFolderTypes, BatchTypes DEF Ingest!Fetched

LEMMA AdvanceTypes ==
    ASSUME Ingest!TypeOK, NEW p \in PollPods, Ingest!Advance(p)
    PROVE  CursorTyped'
<1> DEFINE f == poll[p].folder
           entry == [validity |-> validity[f], next |-> poll[p].sel]
<1>1. f \in Ingest!Folders /\ entry \in [validity : Nat, next : Nat]
  BY DEF Ingest!TypeOK, Ingest!Poll
<1>2. cursor' = [cursor EXCEPT ![p] = [cursor[p] EXCEPT ![f] = entry]]
  BY DEF Ingest!Advance
<1>3. [cursor[p] EXCEPT ![f] = entry] \in [Ingest!Folders -> [validity : Nat, next : Nat]]
  BY <1>1 DEF Ingest!TypeOK
<1> QED BY <1>2, <1>3 DEF Ingest!TypeOK, CursorTyped

LEMMA IngestTypes ==
    ASSUME Ingest!IngestConstants
    PROVE  Ingest!TypeOK /\ [Ingest!Next]_ingestVars => Ingest!TypeOK'
<1> SUFFICES ASSUME Ingest!TypeOK, [Ingest!Next]_ingestVars PROVE Ingest!TypeOK'
  OBVIOUS
<1>0. /\ Ingest!TypeOK <=> PollsTyped /\ CursorTyped /\ RestTyped
      /\ (PollsTyped' /\ CursorTyped' /\ RestTyped') => Ingest!TypeOK'
      /\ PollFaults \in Nat
  BY DEF Ingest!TypeOK, PollsTyped, CursorTyped, RestTyped, Ingest!IngestConstants
<1>1. \A kind : Ingest!Fault(kind) => pollFaults' \in 0..PollFaults
  BY <1>0 DEF Ingest!Fault, RestTyped
<1>2. ASSUME NEW p \in PollPods, Ingest!Tick(p) PROVE Ingest!TypeOK'
  <2> DEFINE new == [Ingest!NoPoll EXCEPT !.backfill = ~synced, !.seen = {m \in Messages : uid[m] > 0}]
  <2>1. new \in Ingest!Poll /\ new.todo = {}
    BY DEF Ingest!NoPoll, Ingest!Poll, Ingest!Folders
  <2>2. poll' = [poll EXCEPT ![p] = new] /\ at' = [at EXCEPT ![p] = "select"]
    BY <1>2 DEF Ingest!Tick
  <2> HIDE DEF new
  <2>3. PollsTyped'
    BY <1>0, <2>1, <2>2 DEF PollsTyped
  <2> QED BY <1>0, <1>2, <2>3 DEF Ingest!Tick, CursorTyped, RestTyped, Ingest!serverVars, Ingest!dbVars
<1>3. ASSUME NEW p \in PollPods, Ingest!Select(p) PROVE Ingest!TypeOK'
  <2> DEFINE new == [poll[p] EXCEPT !.sel = uidNext[poll[p].folder]]
  <2>1. poll[p] \in Ingest!Poll /\ poll[p].todo = {}
    BY <1>0, <1>3 DEF PollsTyped, Ingest!Select
  <2>2. new \in Ingest!Poll /\ new.todo = {}
    BY <1>0, <2>1 DEF Ingest!Poll, RestTyped
  <2>3. poll' = [poll EXCEPT ![p] = new] /\ at' = [at EXCEPT ![p] = "fetch"]
    BY <1>3 DEF Ingest!Select
  <2> HIDE DEF new
  <2>4. PollsTyped'
    BY <1>0, <2>2, <2>3 DEF PollsTyped
  <2> QED BY <1>0, <1>3, <2>4 DEF Ingest!Select, CursorTyped, RestTyped, Ingest!serverVars, Ingest!dbVars
<1>4. ASSUME NEW p \in PollPods PROVE Ingest!Selected(p) \subseteq Messages
  BY DEF Ingest!Selected, Ingest!InFolder
<1>5. ASSUME NEW p \in PollPods, Ingest!Fetch(p) PROVE Ingest!TypeOK'
  <2>1. PollsTyped' /\ CursorTyped'
    BY <1>4, <1>5, FetchedTypes, AdvanceTypes DEF Ingest!Fetch
  <2> QED BY <1>0, <1>5, <2>1 DEF Ingest!Fetch, RestTyped, Ingest!serverVars, Ingest!dbVars
<1>6. ASSUME NEW p \in PollPods, Ingest!FetchSkips(p) PROVE Ingest!TypeOK'
  <2>1. PICK m \in Ingest!Selected(p) :
           Ingest!Fetched(p, Ingest!Selected(p) \ {m}) /\ unread' = unread \cup {m}
    BY <1>6 DEF Ingest!FetchSkips
  <2>2. PollsTyped' /\ CursorTyped'
    BY <1>4, <1>6, <2>1, FetchedTypes, AdvanceTypes DEF Ingest!FetchSkips
  <2> QED BY <1>0, <1>1, <1>4, <1>6, <2>1, <2>2 DEF Ingest!FetchSkips, RestTyped, Ingest!serverVars, Ingest!dbVars
<1>7. ASSUME NEW p \in PollPods, Ingest!ListingCut(p) PROVE Ingest!TypeOK'
  <2>1. PICK listed \in SUBSET Ingest!Selected(p) :
           Ingest!Fetched(p, listed) /\ unread' = unread \cup (Ingest!Selected(p) \ listed)
    BY <1>7 DEF Ingest!ListingCut
  <2>2. PollsTyped' /\ CursorTyped'
    BY <1>4, <1>7, <2>1, FetchedTypes, AdvanceTypes DEF Ingest!ListingCut
  <2> QED BY <1>0, <1>1, <1>4, <1>7, <2>1, <2>2 DEF Ingest!ListingCut, RestTyped, Ingest!serverVars, Ingest!dbVars
<1>8. ASSUME NEW p \in PollPods, Ingest!FetchFails(p) PROVE Ingest!TypeOK'
  <2>1. [poll[p] EXCEPT !.ok = FALSE] \in Ingest!Poll
    BY <1>0 DEF PollsTyped, Ingest!Poll
  <2>2. PollsTyped'
    BY <1>8, <2>1, NextFolderTypes DEF Ingest!FetchFails
  <2> QED BY <1>0, <1>1, <1>8, <2>2 DEF Ingest!FetchFails, CursorTyped, RestTyped, Ingest!serverVars, Ingest!dbVars
<1>9. ASSUME NEW p \in PollPods, NEW m \in Messages, Ingest!Store(p, m) PROVE Ingest!TypeOK'
  BY <1>0, <1>1, <1>9 DEF Ingest!Store, PollsTyped, CursorTyped, RestTyped, Ingest!serverVars
<1>10. ASSUME NEW p \in PollPods, NEW m \in Messages, Ingest!File(p, m) PROVE Ingest!TypeOK'
  <2>1. Ingest!NextMail(p, m) /\ m \in poll[p].todo
    BY <1>10 DEF Ingest!File, Ingest!Current
  <2>2. poll[p] \in Ingest!Poll
    BY <1>0 DEF PollsTyped
  <2>3. PollsTyped'
    <3>1. CASE poll[p].todo = {m}
      BY <2>1, <2>2, <3>1, NextFolderTypes DEF Ingest!NextMail
    <3>2. CASE poll[p].todo # {m}
      <4>1. poll[p].todo \ {m} # {} /\ poll[p].todo \ {m} \in SUBSET Messages
        BY <2>1, <2>2, <3>2 DEF Ingest!Poll
      <4> QED BY <2>1, <3>2, <4>1, BatchTypes DEF Ingest!NextMail
    <3> QED BY <3>1, <3>2
  <2>4. RestTyped'
    BY <1>0, <1>1, <1>10 DEF Ingest!File, RestTyped, Ingest!serverVars
  <2> QED BY <1>0, <1>10, <2>3, <2>4 DEF Ingest!File, CursorTyped
<1>11. ASSUME NEW p \in PollPods, Ingest!Finish(p) PROVE Ingest!TypeOK'
  <2>1. RestTyped'
    BY <1>0, <1>1, <1>11 DEF Ingest!Finish, PollsTyped, Ingest!Poll, RestTyped, Ingest!serverVars
  <2> QED BY <1>0, <1>11, <2>1 DEF Ingest!Finish, PollsTyped, CursorTyped
<1>12. ASSUME NEW p \in PollPods, Ingest!Crash(p) PROVE Ingest!TypeOK'
  <2>1. Ingest!NoPoll \in Ingest!Poll /\ Ingest!NoPoll.todo = {} /\ Ingest!NoEntry \in [validity : Nat, next : Nat]
    BY DEF Ingest!NoPoll, Ingest!Poll, Ingest!Folders, Ingest!NoEntry
  <2>2. PollsTyped' /\ CursorTyped'
    BY <1>0, <1>12, <2>1 DEF Ingest!Crash, PollsTyped, CursorTyped
  <2> QED BY <1>0, <1>1, <1>12, <2>2 DEF Ingest!Crash, RestTyped, Ingest!serverVars, Ingest!dbVars
<1>13. ASSUME NEW m \in Messages, Ingest!Arrive(m) PROVE Ingest!TypeOK'
  <2>1. Ingest!FolderOf(m) \in Ingest!Folders
    BY DEF Ingest!FolderOf, Ingest!Folders
  <2> QED BY <1>0, <1>13, <2>1 DEF Ingest!Arrive, PollsTyped, CursorTyped, RestTyped, Ingest!dbVars
<1>14. ASSUME NEW m \in Messages, Ingest!Age(m) PROVE Ingest!TypeOK'
  BY <1>0, <1>14 DEF Ingest!Age, PollsTyped, CursorTyped, RestTyped, Ingest!dbVars
<1>15. ASSUME NEW f \in Ingest!Folders, Ingest!Rebuild(f) PROVE Ingest!TypeOK'
  BY <1>0, <1>1, <1>15 DEF Ingest!Rebuild, PollsTyped, CursorTyped, RestTyped, Ingest!dbVars
<1>16. CASE UNCHANGED ingestVars
  BY <1>0, <1>16 DEF ingestVars, PollsTyped, CursorTyped, RestTyped
<1> QED BY <1>2, <1>3, <1>5, <1>6, <1>7, <1>8, <1>9, <1>10, <1>11, <1>12, <1>13, <1>14, <1>15, <1>16
        DEF Ingest!Next, Ingest!PollStep, Ingest!PollTrouble

-----------------------------------------------------------------------------
(* All parts together. *)

\* What the code gives the parts: numbers for limits, users apart from new
\* accounts, a pod for every stream.
ServicesConstants ==
    /\ AccountsConstants
    /\ RedialFaults \in Nat /\ MaxVersion \in Nat \ {0}
    /\ OfferConstants
    /\ MaxMishaps \in Nat
    /\ MaxSeconds \in Nat /\ MaxPriority \in Nat \ {0}
    /\ MaxNotices \in Nat /\ Slots \in Nat /\ PodOf \in [Connections -> HubPods]
    /\ NoGrant \notin Grants /\ MaxRotations \in Nat
    /\ Ttl \in Nat \ {0} /\ MaxHours \in Nat
    /\ Ingest!IngestConstants

ServicesTyped ==
    /\ LinkInv
    /\ Accounts!TypeOK
    /\ Planned!TypeOK
    /\ OfferInv
    /\ Users!TypeOK
    /\ Log!TypeOK
    /\ StreamsTyped
    /\ TokenInv
    /\ HealthInv
    /\ Ingest!TypeOK

\* A step of one part is one of its own steps, and a stutter of the others.
LEMMA PartSteps ==
    [AllNext]_allVars =>
        /\ [Next]_vars
        /\ [Accounts!Next]_accountsVars
        /\ [Planned!Next]_redialsVars
        /\ [Offer!Next]_offerVars
        /\ [Users!Next]_usersVars
        /\ [Log!Next]_logVars
        /\ [Streams!Next]_streamsVars
        /\ [Tokens!Next]_tokensVars
        /\ [Health!Next]_healthVars
        /\ [Ingest!Next]_ingestVars
BY DEF AllNext, Others, allVars

LEMMA TypedAtFirst == ASSUME ServicesConstants PROVE AllInit => ServicesTyped
<1> SUFFICES ASSUME AllInit PROVE ServicesTyped
  OBVIOUS
<1> USE DEF ServicesConstants, AllInit
<1>1. LinkInv
  BY LinkInit
<1>2. Accounts!TypeOK
  BY AccountsInit DEF AccountsInv
<1>3. Planned!TypeOK
  BY RedialInit DEF RedialInv
<1>4. OfferInv
  BY OfferInit
<1>5. Users!TypeOK
  BY DEF Users!Init, Users!TypeOK, Users!People
<1>6. Log!TypeOK
  BY DEF Log!Init, Log!TypeOK
<1>7. StreamsTyped
  BY DEF Streams!Init, StreamsTyped, Streams!TypeOK
<1>8. TokenInv
  BY TokenInit
<1>9. HealthInv
  BY HealthInit
<1>10. Ingest!TypeOK
  <2>1. Ingest!NoPoll \in Ingest!Poll /\ Ingest!NoPoll.todo = {} /\ Ingest!NoEntry \in [validity : Nat, next : Nat]
    BY DEF Ingest!NoPoll, Ingest!Poll, Ingest!Folders, Ingest!NoEntry
  <2>2. PollFaults \in Nat
    BY DEF Ingest!IngestConstants
  <2>3. PollsTyped /\ CursorTyped
    BY <2>1 DEF Ingest!Init, PollsTyped, CursorTyped
  <2>4. RestTyped
    <3>1. /\ uid \in [Messages -> Nat]
          /\ uidNext \in [Ingest!Folders -> Nat \ {0}]
          /\ validity \in [Ingest!Folders -> Nat]
      BY DEF Ingest!Init
    <3>2. synced \in BOOLEAN
      BY DEF Ingest!Init
    <3>3. pollFaults \in 0..PollFaults
      BY <2>2 DEF Ingest!Init
    <3> QED BY <3>1, <3>2, <3>3 DEF Ingest!Init, RestTyped
  <2> QED BY <2>3, <2>4 DEF PollsTyped, CursorTyped, RestTyped, Ingest!TypeOK
<1> QED BY <1>1, <1>2, <1>3, <1>4, <1>5, <1>6, <1>7, <1>8, <1>9, <1>10 DEF ServicesTyped

LEMMA TypedAfterStep ==
    ASSUME ServicesConstants PROVE ServicesTyped /\ [AllNext]_allVars => ServicesTyped'
<1> SUFFICES ASSUME ServicesTyped, [AllNext]_allVars PROVE ServicesTyped'
  OBVIOUS
<1> USE PartSteps DEF ServicesConstants, ServicesTyped
<1>1. LinkInv'
  BY LinkStep
<1>2. Accounts!TypeOK'
  BY AccountsTypes
<1>3. Planned!TypeOK'
  BY RedialTypes
<1>4. OfferInv'
  BY OfferStep
<1>5. Users!TypeOK'
  BY UserTypes
<1>6. Log!TypeOK'
  BY LogTypes
<1>7. StreamsTyped'
  BY StreamTypes
<1>8. TokenInv'
  BY TokenStep
<1>9. HealthInv'
  BY HealthStep
<1>10. Ingest!TypeOK'
  BY IngestTypes
<1> QED BY <1>1, <1>2, <1>3, <1>4, <1>5, <1>6, <1>7, <1>8, <1>9, <1>10 DEF ServicesTyped

\* Every reachable state of every part is well typed.
THEOREM AllPartsTyped == ASSUME ServicesConstants PROVE AllSpec => []AllTypesOK
<1>1. ServicesTyped => AllTypesOK
  BY DEF ServicesTyped, AllTypesOK, LinkInv, OfferInv, StreamsTyped, TokenInv, HealthInv
<1>2. ServicesTyped /\ [AllNext]_allVars => ServicesTyped'
  BY TypedAfterStep
<1>3. AllInit => ServicesTyped
  BY TypedAtFirst
<1> QED BY <1>1, <1>2, <1>3, PTL DEF AllSpec

\* What one run explores is each service by itself: the theorems above, which
\* speak of the services, hold of what TLC checks.
THEOREM PartsRunAlone ==
    AllSpec =>
        /\ Spec
        /\ Accounts!Spec
        /\ Planned!Spec
        /\ Offer!Spec
        /\ Users!Spec
        /\ Log!Spec
        /\ Streams!Init /\ [][Streams!Next]_streamsVars
        /\ Tokens!Spec
        /\ Health!Spec
        /\ Ingest!Spec
<1>1. AllInit => /\ Init /\ Accounts!Init /\ Planned!Init /\ Offer!Init /\ Users!Init /\ Log!Init /\ Streams!Init
                 /\ Tokens!Init /\ Health!Init /\ Ingest!Init
  BY DEF AllInit
<1> QED BY <1>1, PartSteps, PTL
        DEF AllSpec, Spec, Accounts!Spec, Planned!Spec, Offer!Spec, Users!Spec, Log!Spec, Tokens!Spec, Health!Spec,
            Ingest!Spec, Accounts!vars, Planned!vars, Offer!vars, Users!vars, Log!vars, Tokens!vars, Health!vars,
            Ingest!vars, accountsVars, redialsVars, offerVars, usersVars, logVars, tokensVars, healthVars, ingestVars
=============================================================================

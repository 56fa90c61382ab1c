----------------------------- MODULE CallStream -----------------------------
(***************************************************************************)
(* The streams on which browsers hear of calls (internal/zoom/sse.go): a    *)
(* hub in every pod knows the channel of each stream, a notification comes  *)
(* to all hubs over Redis, and the handler of a stream takes it from the    *)
(* channel and writes it.                                                  *)
(*                                                                         *)
(* The hub sends under its read lock, streams come and go under the write   *)
(* lock, and the proxy may hide that the browser has gone.                  *)
(***************************************************************************)
EXTENDS Naturals, FiniteSets

CONSTANTS
    Streams,        \* streams of one user, each of one connection
    Pods,           \* the pods
    PodOf,          \* the pod a stream is connected to
    Slots,          \* room in a channel, 16
    MaxNotices      \* bound: notifications

VARIABLES
    handler,     \* where the handler of each stream is
    clients,     \* streams whose channel is in the hub
    closed,      \* streams whose channel is closed
    queue,       \* notifications in each channel
    redis,       \* notifications on their way to each pod
    sending,     \* channels a hub has still to send to; it holds the read lock
    away,        \* streams whose browser has gone
    notices      \* notifications so far

streamVars == <<handler, clients, closed, queue, redis, sending, away, notices>>

Init ==
    /\ handler = [s \in Streams |-> "none"]
    /\ clients = {}
    /\ closed = {}
    /\ queue = [s \in Streams |-> 0]
    /\ redis = [p \in Pods |-> 0]
    /\ sending = [p \in Pods |-> {}]
    /\ away = {}
    /\ notices = 0

-----------------------------------------------------------------------------
\* The write lock: no hub of the pod is sending.
Locked(s) == sending[PodOf[s]] = {}

Subscribe(s) ==
    /\ handler[s] = "none"
    /\ Locked(s)
    /\ clients' = clients \cup {s}
    /\ handler' = [handler EXCEPT ![s] = "open"]
    /\ UNCHANGED <<closed, queue, redis, sending, away, notices>>

\* Faulty: the channel is closed without the lock.
UnsubscribeUnlocked(s) ==
    /\ handler[s] = "leaving"
    /\ clients' = clients \ {s}
    /\ closed' = closed \cup {s}
    /\ handler' = [handler EXCEPT ![s] = "gone"]
    /\ UNCHANGED <<queue, redis, sending, away, notices>>

Unsubscribe(s) ==
    /\ handler[s] = "leaving"
    /\ Locked(s)
    /\ clients' = clients \ {s}
    /\ closed' = closed \cup {s}
    /\ handler' = [handler EXCEPT ![s] = "gone"]
    /\ UNCHANGED <<queue, redis, sending, away, notices>>

\* Broadcast: Redis brings it to the pods that listen just then.
Broadcast ==
    /\ notices < MaxNotices
    /\ notices' = notices + 1
    /\ \E ps \in SUBSET Pods :
          redis' = [p \in Pods |-> IF p \in ps THEN redis[p] + 1 ELSE redis[p]]
    /\ UNCHANGED <<handler, clients, closed, queue, sending, away>>

\* localBroadcast takes the read lock and goes through the channels of the user.
LocalBroadcast(p) ==
    /\ redis[p] > 0
    /\ sending[p] = {}
    /\ redis' = [redis EXCEPT ![p] = @ - 1]
    /\ sending' = [sending EXCEPT ![p] = {s \in clients : PodOf[s] = p}]
    /\ UNCHANGED <<handler, clients, closed, queue, away, notices>>

\* A full channel loses the notification.
SendTo(s) ==
    /\ s \in sending[PodOf[s]]
    /\ sending' = [sending EXCEPT ![PodOf[s]] = @ \ {s}]
    /\ queue' = [queue EXCEPT ![s] = IF @ < Slots THEN @ + 1 ELSE @]
    /\ UNCHANGED <<handler, clients, closed, redis, away, notices>>

-----------------------------------------------------------------------------
(* ServeHTTP                                                               *)

\* Faulty: without heartbeat and deadline only a notification finds out.
ReturnOnFailedNotice(s) ==
    /\ handler[s] = "open"
    /\ s \in away
    /\ queue[s] > 0
    /\ handler' = [handler EXCEPT ![s] = "leaving"]
    /\ UNCHANGED <<clients, closed, queue, redis, sending, away, notices>>

\* The context is done, a write fails, or sseMaxLifetime is over. A proxy may
\* swallow the first two.
Return(s) ==
    /\ handler[s] = "open"
    /\ handler' = [handler EXCEPT ![s] = "leaving"]
    /\ UNCHANGED <<clients, closed, queue, redis, sending, away, notices>>

\* Into the buffer of the connection, whoever is at its other end.
Write(s) ==
    /\ handler[s] = "open"
    /\ queue[s] > 0
    /\ queue' = [queue EXCEPT ![s] = @ - 1]
    /\ UNCHANGED <<handler, clients, closed, redis, sending, away, notices>>

Leave(s) ==
    /\ s \in clients \ away
    /\ away' = away \cup {s}
    /\ UNCHANGED <<handler, clients, closed, queue, redis, sending, notices>>

Next ==
    \/ Broadcast
    \/ \E p \in Pods : LocalBroadcast(p)
    \/ \E s \in Streams : Subscribe(s) \/ Unsubscribe(s) \/ SendTo(s) \/ Return(s) \/ Write(s) \/ Leave(s)

\* The timer of the deadline fires; a hub goes on sending; a writer that waits
\* keeps new readers out of sync.RWMutex, so it gets the lock.
Fairness ==
    \A s \in Streams :
        WF_streamVars(Return(s)) /\ WF_streamVars(SendTo(s)) /\ SF_streamVars(Unsubscribe(s))

Spec == Init /\ [][Next]_streamVars /\ Fairness

-----------------------------------------------------------------------------
(* Properties                                                              *)

TypeOK ==
    /\ handler \in [Streams -> {"none", "open", "leaving", "gone"}]
    /\ clients \subseteq Streams
    /\ closed \subseteq Streams
    /\ queue \in [Streams -> 0..Slots]
    /\ redis \in [Pods -> 0..MaxNotices]
    /\ sending \in [Pods -> SUBSET Streams]
    /\ away \subseteq Streams
    /\ notices \in 0..MaxNotices

\* A hub never sends on a closed channel, which would end the pod (sse.go:124-134
\* closes outside of the map, 163-186 sends): the channel leaves the hub before
\* it is closed, and no hub is in the middle of its round then.
NoSendOnClosed == \A p \in Pods : sending[p] \cap closed = {}

\* A stream whose browser has gone leaves the hub ("「永遠に生きる接続」を無くす",
\* sse.go:225-227), also when the proxy hides it and the channel is full.
ClientsLeave == \A s \in Streams : (s \in away) ~> (s \notin clients)
=============================================================================

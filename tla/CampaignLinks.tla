--------------------------- MODULE CampaignLinks ----------------------------
(***************************************************************************)
(* Click tracking: buildTrackedHTML of internal/campaign/worker.go numbers *)
(* the URLs of a campaign in CampaignLink, the mail carries the number in  *)
(* a signed token (token.go, 16 bits), and the Click handler of            *)
(* tracking.go redirects to the URL the row has when somebody clicks.      *)
(*                                                                         *)
(* A worker lists the links, then numbers the URLs it does not find one    *)
(* after the other, then sends. The Redis lock is to keep it alone, but it *)
(* expires under a slow tick, and then two workers number at a time.       *)
(***************************************************************************)
EXTENDS Naturals, FiniteSets

CONSTANTS
    Workers,    \* pods that send for the campaign
    Urls,       \* the URLs of its mails, placeholders filled in
    MaxIdx,     \* the largest idx a token holds, 65535
    MaxRows,    \* bound: CampaignLink rows
    MaxFaults,  \* bound: crashes and failed statements
    NoUrl       \* no CampaignLink row

ASSUME LinkConstants ==
    /\ MaxIdx \in Nat /\ MaxRows \in Nat /\ MaxFaults \in Nat
    /\ IsFiniteSet(Urls)
    /\ NoUrl \notin Urls

VARIABLES
    links,    \* CampaignLink: idx to url
    pc,       \* where each worker is
    known,    \* urlToIdx of each worker; NoIdx if it has no entry
    next,     \* next of each worker
    body,     \* URLs of the mail that are still to be rewritten
    mail,     \* <<idx, url>>: the links already in the mail
    faults,
    sent,     \* history: <<idx, url>> of all mails that went out
    crossed,  \* history: workers that are composing and have not been alone
    doubtful  \* history: numbers given by such a worker

vars == <<links, pc, known, next, body, mail, faults, sent, crossed, doubtful>>

-----------------------------------------------------------------------------
Idx   == 0 .. (MaxRows - 1)
NoIdx == MaxRows

\* ListCampaignLinks
Rows  == {i \in Idx : links[i] # NoUrl}

Init ==
    /\ links = [i \in Idx |-> NoUrl]
    /\ pc = [w \in Workers |-> "idle"]
    /\ known = [w \in Workers |-> [u \in Urls |-> NoIdx]]
    /\ next = [w \in Workers |-> 0]
    /\ body = [w \in Workers |-> {}]
    /\ mail = [w \in Workers |-> {}]
    /\ faults = 0
    /\ sent = {} /\ crossed = {} /\ doubtful = {}

Fault == faults < MaxFaults /\ faults' = faults + 1
Composing == {w \in Workers : pc[w] = "rewrite"}

Reset(w) ==
    /\ pc' = [pc EXCEPT ![w] = "idle"]
    /\ known' = [known EXCEPT ![w] = [u \in Urls |-> NoIdx]]
    /\ next' = [next EXCEPT ![w] = 0]
    /\ body' = [body EXCEPT ![w] = {}]
    /\ mail' = [mail EXCEPT ![w] = {}]
    /\ crossed' = crossed \ {w}

\* The next mail has the URLs us. When two rows have one URL the later wins.
\* If the list cannot be read the mail goes without tracking.
ListLinks(w, us) ==
    /\ pc[w] = "idle"
    /\ body' = [body EXCEPT ![w] = us]
    /\ known' = [known EXCEPT ![w] = [u \in Urls |->
          IF \E i \in Rows : links[i] = u
          THEN CHOOSE i \in Rows : links[i] = u /\ \A j \in Rows : links[j] = u => j <= i
          ELSE NoIdx]]
    /\ next' = [next EXCEPT ![w] = Cardinality(Rows)]
    /\ pc' = [pc EXCEPT ![w] = "rewrite"]
    /\ crossed' = crossed \cup (IF Composing = {} THEN {} ELSE Composing \cup {w})
    /\ UNCHANGED <<links, mail, faults, sent, doubtful>>

\* Faulty: the number is cut to the width of the token.
TokenCut(i, u) == {<<i % (MaxIdx + 1), u>>}

\* Faulty: the number is not compared with the width of the token.
TokenUnchecked(i, u) == {<<i, u>>}

\* A number beyond the width of the token leaves the URL as it is.
Token(i, u) == IF i > MaxIdx THEN {} ELSE {<<i, u>>}

Rewritten(w, u, i) ==
    /\ body' = [body EXCEPT ![w] = @ \ {u}]
    /\ mail' = [mail EXCEPT ![w] = @ \cup Token(i, u)]

Reuse(w, u) ==
    /\ pc[w] = "rewrite"
    /\ u \in body[w]
    /\ known[w][u] # NoIdx
    /\ Rewritten(w, u, known[w][u])
    /\ UNCHANGED <<links, pc, known, next, faults, sent, crossed, doubtful>>

\* CreateCampaignLink ON CONFLICT DO UPDATE SET url: the last one has the number.
CreateLink(w, u) ==
    /\ pc[w] = "rewrite"
    /\ u \in body[w]
    /\ known[w][u] = NoIdx
    /\ next[w] \in Idx
    /\ links' = [links EXCEPT ![next[w]] = u]
    /\ known' = [known EXCEPT ![w] = [@ EXCEPT ![u] = next[w]]]
    /\ next' = [next EXCEPT ![w] = @ + 1]
    /\ Rewritten(w, u, next[w])
    /\ doubtful' = doubtful \cup (IF w \in crossed THEN {next[w]} ELSE {})
    /\ UNCHANGED <<pc, faults, sent, crossed>>

\* It fails, and the URL stays as it is. next does not move.
CreateFails(w, u) ==
    /\ pc[w] = "rewrite"
    /\ u \in body[w]
    /\ known[w][u] = NoIdx
    /\ Fault
    /\ body' = [body EXCEPT ![w] = @ \ {u}]
    /\ UNCHANGED <<links, pc, known, next, mail, sent, crossed, doubtful>>

\* The mail goes out, or the server refuses it and it is composed anew later.
Send(w) ==
    /\ pc[w] = "rewrite"
    /\ body[w] = {}
    /\ sent' \in {sent, sent \cup mail[w]}
    /\ Reset(w)
    /\ UNCHANGED <<links, faults, doubtful>>

\* The pod dies; what it numbered stays.
Crash(w) ==
    /\ pc[w] = "rewrite"
    /\ Fault
    /\ Reset(w)
    /\ UNCHANGED <<links, sent, doubtful>>

Next ==
    \E w \in Workers :
        \/ \E us \in SUBSET Urls : us # {} /\ ListLinks(w, us)
        \/ \E u \in Urls : Reuse(w, u) \/ CreateLink(w, u) \/ CreateFails(w, u)
        \/ Send(w) \/ Crash(w)

Spec == Init /\ [][Next]_vars

-----------------------------------------------------------------------------
(* Properties *)

TypeOK ==
    /\ links \in [Idx -> Urls \cup {NoUrl}]
    /\ pc \in [Workers -> {"idle", "rewrite"}]
    /\ known \in [Workers -> [Urls -> Idx \cup {NoIdx}]]
    /\ next \in [Workers -> 0..MaxRows]
    /\ body \in [Workers -> SUBSET Urls]
    /\ mail \in [Workers -> SUBSET ((Idx \cap 0..MaxIdx) \X Urls)]
    /\ faults \in 0..MaxFaults
    /\ sent \subseteq (Idx \cap 0..MaxIdx) \X Urls
    /\ crossed \subseteq Workers /\ doubtful \subseteq Idx

\* Where a click leads: GetCampaignLink, NoUrl is a 404.
Target(i) == links[i]

\* Every click goes where the mail said, whatever is numbered, refused or sent
\* later and by whom. worker.go:453-454 says so of all ("worker は単一 leader な
\* ので競合しない"); when the lock has expired under one of two workers that are
\* composing, the numbers they then give may be given twice, and the later URL
\* takes the clicks. Numbers given before or after are not touched by it.
ClickGoesWhereTheMailSaid == \A m \in sent : m[1] \in doubtful \/ Target(m[1]) = m[2]
=============================================================================

------------------------------ MODULE AutoDraft -----------------------------
(***************************************************************************)
(* How a Book becomes a campaign draft: AutoDraftWorker                    *)
(* (internal/campaign/autodraft_worker.go) with the lock of lock.go, the   *)
(* query for candidates (campaign_autodraft.sql), DraftCreator.Create      *)
(* (draft.go), DeleteCampaign, and the import that fills a Book customer   *)
(* by customer (internal/service/book/import_book.go).                     *)
(*                                                                         *)
(* Both pods run the worker. The Redis lock lets one tick at a time, and   *)
(* when it is lost the UNIQUE index on source_book_id decides.             *)
(***************************************************************************)
EXTENDS Naturals, Sequences, FiniteSets

CONSTANTS
    Workers,         \* the pods
    Books,
    Templates,       \* enabled CampaignAutoDraft rows, of all companies
    Since,           \* created_at of each template
    Matches,         \* books whose name matches the pattern of each template
    Editable,        \* books the creator of each template is an editor of
    Mailboxes,
    Pool,            \* mailbox_ids of each template
    Granted,         \* mailboxes of its company its creator is an editor of
    Size,            \* customers in the file of each book
    Reachable,       \* those of them with an address a mail can be sent to
    MaxRecipients,   \* MaxRecipients of draft.go
    CandidateLimit,  \* autoDraftCandidateLimit
    MaxBooksPerTick, \* autoDraftMaxBooksPerTick
    MaxRequests,     \* bound: drafts deleted, mailboxes switched on or off
    MaxFaults,       \* bound: crashes, lost locks, failed transactions
    Free, Dead,      \* lock values: no key, key of a pod that is gone
    None             \* no template, no book

ASSUME AutoDraftConstants ==
    /\ Since \in [Templates -> Nat]
    /\ Matches \in [Templates -> SUBSET Books]
    /\ Editable \in [Templates -> SUBSET Books]
    /\ Pool \in [Templates -> SUBSET Mailboxes]
    /\ Granted \in [Templates -> SUBSET Mailboxes]
    /\ Size \in [Books -> Nat]
    /\ Reachable \in [Books -> SUBSET Nat]
    /\ MaxRecipients \in Nat
    /\ CandidateLimit \in Nat \ {0}
    /\ MaxBooksPerTick \in Nat \ {0}
    /\ MaxRequests \in Nat
    /\ MaxFaults \in Nat
    /\ Free \notin Workers /\ Dead \notin Workers /\ Free # Dead
    /\ None \notin Books /\ None \notin Templates

VARIABLES
    books,     \* the Book rows, oldest first
    filled,    \* customers imported so far, per book
    active,    \* the mailboxes that are switched on
    drafts,    \* Campaign rows with this source_book_id
    lock,      \* the Redis key phox:campaign:autodraft:lock
    pc,        \* where each worker is
    todo,      \* templates its tick has still to visit
    template,  \* the template it is at
    cand,      \* the candidates of this template it has still to visit
    book,      \* the candidate it is making a draft of
    created,   \* drafts it made for this template in this tick
    faults, requests,
    made,      \* history: drafts made from each book
    notified   \* history: notifications about each book

vars == <<books, filled, active, drafts, lock, pc, todo, template, cand, book, created,
          faults, requests, made, notified>>
bookVars == <<books, filled, active>>

-----------------------------------------------------------------------------
Created == {books[i] : i \in 1..Len(books)}

Init ==
    /\ books = <<>>
    /\ filled = [b \in Books |-> 0]
    /\ active = Mailboxes
    /\ drafts = [b \in Books |-> 0]
    /\ lock = Free
    /\ pc = [w \in Workers |-> "idle"]
    /\ todo = [w \in Workers |-> {}]
    /\ template = [w \in Workers |-> None]
    /\ cand = [w \in Workers |-> {}]
    /\ book = [w \in Workers |-> None]
    /\ created = [w \in Workers |-> 0]
    /\ faults = 0
    /\ requests = 0
    /\ made = [b \in Books |-> 0]
    /\ notified = [b \in Books |-> 0]

Fault == faults < MaxFaults /\ faults' = faults + 1

\* ORDER BY created_at LIMIT n.
Older(x, b)  == \E i, j \in 1..Len(books) : i < j /\ books[i] = x /\ books[j] = b
Oldest(n, S) == {b \in S : Cardinality({x \in S : Older(x, b)}) < n}

-----------------------------------------------------------------------------
(* ImportBook: the Book first, then one customer after the other *)

CreateBook(b) ==
    /\ b \notin Created
    /\ books' = Append(books, b)
    /\ UNCHANGED <<filled, active, drafts, lock, pc, todo, template, cand, book, created,
                   faults, requests, made, notified>>

CreateCustomer(b) ==
    /\ b \in Created
    /\ filled[b] < Size[b]
    /\ filled' = [filled EXCEPT ![b] = @ + 1]
    /\ UNCHANGED <<books, active, drafts, lock, pc, todo, template, cand, book, created,
                   faults, requests, made, notified>>

-----------------------------------------------------------------------------
(* AutoDraftWorker *)

\* tryAcquireOrRenew, only at the begin of a tick, and the list of templates.
TickBegin(w) ==
    /\ pc[w] = "idle"
    /\ lock \in {Free, w}
    /\ lock' = w
    /\ todo' = [todo EXCEPT ![w] = Templates]
    /\ pc' = [pc EXCEPT ![w] = "templates"]
    /\ UNCHANGED <<bookVars, drafts, template, cand, book, created, faults, requests,
                   made, notified>>

\* Faulty: the limit is applied before the claimed books are left out.
CandidatesLimitedFirst(t) ==
    {b \in Oldest(CandidateLimit, Created \cap Matches[t]) : drafts[b] = 0}

\* ListUnclaimedBooksByNamePattern: books of any company, the oldest first.
Candidates(t) ==
    Oldest(CandidateLimit, {b \in Created \cap Matches[t] : drafts[b] = 0})

\* The next template, the oldest first.
ListBooks(w, t) ==
    /\ pc[w] = "templates"
    /\ t \in todo[w] /\ \A u \in todo[w] : Since[t] <= Since[u]
    /\ todo' = [todo EXCEPT ![w] = @ \ {t}]
    /\ template' = [template EXCEPT ![w] = t]
    /\ cand' = [cand EXCEPT ![w] = Candidates(t)]
    /\ created' = [created EXCEPT ![w] = 0]
    /\ pc' = [pc EXCEPT ![w] = "books"]
    /\ UNCHANGED <<bookVars, drafts, lock, book, faults, requests, made, notified>>

\* The list is done, or the limit of drafts per tick is reached.
TemplateEnd(w) ==
    /\ pc[w] = "books"
    /\ cand[w] = {} \/ created[w] >= MaxBooksPerTick
    /\ cand' = [cand EXCEPT ![w] = {}]
    /\ created' = [created EXCEPT ![w] = 0]
    /\ pc' = [pc EXCEPT ![w] = "templates"]
    /\ template' = [template EXCEPT ![w] = None]
    /\ UNCHANGED <<bookVars, drafts, lock, todo, book, faults, requests, made, notified>>

TickEnd(w) ==
    /\ pc[w] = "templates"
    /\ todo[w] = {}
    /\ pc' = [pc EXCEPT ![w] = "idle"]
    /\ UNCHANGED <<bookVars, drafts, lock, todo, template, cand, book, created,
                   faults, requests, made, notified>>

\* The mailboxes of the template: there are some, and the creator is an editor of
\* each, which is his company's and switched on.
PoolUsable(t) == Pool[t] # {} /\ Pool[t] \subseteq Granted[t] \cap active

\* Create refuses a book whose mailboxes or customers the creator may not use, one
\* that is too large, and one with nobody to write to.
Readable(t, b) ==
    /\ PoolUsable(t)
    /\ b \in Editable[t]
    /\ filled[b] <= MaxRecipients
    /\ (1..filled[b]) \cap Reachable[b] # {}

\* Faulty: the limit is one draft too high.
SnapshotOneMore(w) ==
    /\ pc[w] = "books"
    /\ created[w] <= MaxBooksPerTick
    /\ \E b \in Oldest(1, cand[w]) :
          /\ cand' = [cand EXCEPT ![w] = @ \ {b}]
          /\ IF Readable(template[w], b)
             THEN book' = [book EXCEPT ![w] = b] /\ pc' = [pc EXCEPT ![w] = "insert"]
             ELSE UNCHANGED <<book, pc>>
    /\ UNCHANGED <<bookVars, drafts, lock, todo, template, created, faults,
                   requests, made, notified>>

Snapshot(w) ==
    /\ pc[w] = "books"
    /\ created[w] < MaxBooksPerTick
    /\ \E b \in Oldest(1, cand[w]) :
          /\ cand' = [cand EXCEPT ![w] = @ \ {b}]
          /\ IF Readable(template[w], b)
             THEN book' = [book EXCEPT ![w] = b] /\ pc' = [pc EXCEPT ![w] = "insert"]
             ELSE UNCHANGED <<book, pc>>
    /\ UNCHANGED <<bookVars, drafts, lock, todo, template, created, faults,
                   requests, made, notified>>

\* Faulty: a duplicate counts as a success.
InsertOrReport(w) ==
    /\ pc[w] = "insert"
    /\ drafts' = [drafts EXCEPT ![book[w]] = 1]
    /\ made' = [made EXCEPT ![book[w]] = IF drafts[book[w]] = 0 THEN @ + 1 ELSE @]
    /\ pc' = [pc EXCEPT ![w] = "notify"]
    /\ UNCHANGED <<bookVars, lock, todo, template, cand, book, created, faults,
                   requests, notified>>

\* The transaction of Create; source_book_id is UNIQUE, so the second of two
\* pods is told that the book is taken.
Insert(w) ==
    /\ pc[w] = "insert"
    /\ \/ /\ drafts[book[w]] = 0
          /\ drafts' = [drafts EXCEPT ![book[w]] = 1]
          /\ made' = [made EXCEPT ![book[w]] = @ + 1]
          /\ pc' = [pc EXCEPT ![w] = "notify"]
          /\ UNCHANGED <<book, faults>>
       \/ /\ IF drafts[book[w]] = 0 THEN Fault ELSE UNCHANGED faults
          /\ book' = [book EXCEPT ![w] = None]
          /\ pc' = [pc EXCEPT ![w] = "books"]
          /\ UNCHANGED <<drafts, made>>
    /\ UNCHANGED <<bookVars, lock, todo, template, cand, created, requests, notified>>

\* NotifyCampaignAutoDraft, after the commit.
Notify(w) ==
    /\ pc[w] = "notify"
    /\ notified' = [notified EXCEPT ![book[w]] = @ + 1]
    /\ created' = [created EXCEPT ![w] = @ + 1]
    /\ book' = [book EXCEPT ![w] = None]
    /\ pc' = [pc EXCEPT ![w] = "books"]
    /\ UNCHANGED <<bookVars, drafts, lock, todo, template, cand, faults, requests, made>>

\* A pod that goes deletes its key, or leaves it to its TTL.
Crash(w) ==
    /\ Fault
    /\ lock' \in IF lock = w THEN {Free, Dead} ELSE {lock}
    /\ pc' = [pc EXCEPT ![w] = "idle"]
    /\ todo' = [todo EXCEPT ![w] = {}]
    /\ cand' = [cand EXCEPT ![w] = {}]
    /\ book' = [book EXCEPT ![w] = None]
    /\ created' = [created EXCEPT ![w] = 0]
    /\ template' = [template EXCEPT ![w] = None]
    /\ UNCHANGED <<bookVars, drafts, requests, made, notified>>

\* The TTL ends: of the key of a pod that is gone; between two ticks, which are
\* further apart than the TTL; or under a tick that takes longer.
LockExpires ==
    /\ lock # Free
    /\ IF lock \in Workers /\ pc[lock] # "idle" THEN Fault ELSE UNCHANGED faults
    /\ lock' = Free
    /\ UNCHANGED <<bookVars, drafts, pc, todo, template, cand, book, created, requests,
                   made, notified>>

\* DeleteCampaign of a draft, by a user.
DeleteDraft(b) ==
    /\ drafts[b] > 0
    /\ requests < MaxRequests
    /\ requests' = requests + 1
    /\ drafts' = [drafts EXCEPT ![b] = 0]
    /\ UNCHANGED <<bookVars, lock, pc, todo, template, cand, book, created, faults,
                   made, notified>>

\* UpdateMailbox switches a mailbox off or on again.
SwitchMailbox(m) ==
    /\ requests < MaxRequests
    /\ requests' = requests + 1
    /\ active' = IF m \in active THEN active \ {m} ELSE active \cup {m}
    /\ UNCHANGED <<books, filled, drafts, lock, pc, todo, template, cand, book, created,
                   faults, made, notified>>

-----------------------------------------------------------------------------
Step(w) ==
    \/ TickBegin(w) \/ TemplateEnd(w) \/ TickEnd(w) \/ Snapshot(w) \/ Insert(w)
    \/ Notify(w)
    \/ \E t \in Templates : ListBooks(w, t)

Next ==
    \/ \E w \in Workers : Step(w) \/ Crash(w)
    \/ \E b \in Books : CreateBook(b) \/ CreateCustomer(b) \/ DeleteDraft(b)
    \/ \E m \in Mailboxes : SwitchMailbox(m)
    \/ LockExpires

Spec == Init /\ [][Next]_vars

\* The ticker of every pod comes again, a tick gets to its end, and the key of a pod
\* that is gone or waits for its next tick expires.
FairSpec ==
    /\ Spec
    /\ \A w \in Workers : WF_vars(Step(w))
    /\ WF_vars(LockExpires)

-----------------------------------------------------------------------------
(* Properties *)

TypeOK ==
    /\ books \in Seq(Books)
    /\ \A i, j \in 1..Len(books) : books[i] = books[j] => i = j
    /\ filled \in [Books -> Nat]
    /\ active \subseteq Mailboxes
    /\ drafts \in [Books -> Nat]
    /\ lock \in Workers \cup {Free, Dead}
    /\ pc \in [Workers -> {"idle", "templates", "books", "insert", "notify"}]
    /\ todo \in [Workers -> SUBSET Templates]
    /\ template \in [Workers -> Templates \cup {None}]
    /\ cand \in [Workers -> SUBSET Books]
    /\ book \in [Workers -> Books \cup {None}]
    /\ created \in [Workers -> 0..MaxBooksPerTick]
    /\ \A w \in Workers :
          /\ pc[w] \in {"books", "insert", "notify"} <=> template[w] # None
          /\ pc[w] \in {"insert", "notify"} <=> book[w] # None
          /\ pc[w] \in {"insert", "notify"} => created[w] < MaxBooksPerTick
    /\ faults \in 0..MaxFaults
    /\ requests \in 0..MaxRequests
    /\ made \in [Books -> Nat]
    /\ notified \in [Books -> Nat]

\* There is no notification without a draft of its own: the pod that lost the
\* race stays silent, and a draft is announced once (autodraft_worker.go:195-219).
AnnouncesItsOwn == \A b \in Books : notified[b] <= made[b]

\* The list of a template is full of older books it cannot make a draft of.
Crowded(t, b) ==
    Cardinality({x \in Matches[t] : Older(x, b) /\ drafts[x] = 0 /\ ~Readable(t, x)}) >= CandidateLimit

\* Every book a template matches and can make a draft of gets one, and the books
\* that are passed over for good do not stop those behind them
\* (autodraft_worker.go:52-54) - as long as they are fewer than CandidateLimit.
Draftable(b) ==
    \E t \in Templates : b \in Created \cap Matches[t] /\ Readable(t, b) /\ ~Crowded(t, b)

EveryBookDrafted == \A b \in Books : Draftable(b) ~> made[b] > 0 \/ ~Draftable(b)
=============================================================================

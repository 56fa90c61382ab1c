-------------------------- MODULE CustomerRecords ---------------------------
(***************************************************************************)
(* A customer and what is kept beside its row: the document in the search  *)
(* index and the mails on its timeline (internal/service/customer,         *)
(* internal/service/contact, internal/search, reindex.go, mcpserver, the   *)
(* deletion of a book, and the matching half of the mail ingest).          *)
(*                                                                         *)
(* A request writes the row, then the index, then links the mails that     *)
(* have come already; each is a statement of its own and a failure after   *)
(* the first is only logged. Meanwhile pods file mails: look the sender    *)
(* up, store the mail with what was found, file it on the timeline. The    *)
(* index of a row and the link of a mail may therefore fall behind; the    *)
(* module says when they may not.                                          *)
(***************************************************************************)
EXTENDS Integers, FiniteSets

CONSTANTS
    Pods,       \* workers that ingest mail
    Clerks,     \* requests that may be under way at one time
    Customers, Contacts, Mails,
    Books,
    Book,       \* the book of each customer
    Owner,      \* the customer of each contact
    Exact,      \* customers and contacts that carry the address of each mail as the
                \* ingest looks it up: in small letters, and equal to the stored one
    Alike,      \* those the backfill finds for it: letters of either case, and for a
                \* sent mail any stored address that is a part of its recipients
    MaxVersion, \* bound: versions of a row
    MaxRequests,\* bound: requests
    MaxFaults   \* bound: failed statements and requests that are cut off

None == "none"

ASSUME RecordConstants ==
    /\ Owner \in [Contacts -> Customers]
    /\ Book \in [Customers -> Books]
    /\ Exact \in [Mails -> SUBSET (Customers \cup Contacts)]
    /\ Alike \in [Mails -> SUBSET (Customers \cup Contacts)]
    /\ \A m \in Mails : Exact[m] \subseteq Alike[m]
    /\ Customers \cap Contacts = {} /\ None \notin Customers \cup Contacts \cup Mails
    /\ MaxVersion \in Nat \ {0} /\ MaxRequests \in Nat /\ MaxFaults \in Nat

VARIABLES
    row,       \* version of each Customer row, 0 = none
    gone,      \* customers and contacts that have been deleted
    contacts,  \* Contact rows
    kept,      \* MailboxMessage rows
    link,      \* MailboxMessage.customer_id
    shown,     \* Activity row of each mail: whose timeline it is on
    index,     \* version of each document in Elasticsearch, 0 = none
    job,       \* local variables of each request
    ingest,    \* local variables of each pod
    seen,      \* <<pod, mail>>: mails each pod has fetched
    missed,    \* history: <<mail, record>>: came after his backfill, and no exact match
    caughtUp,  \* history: customers and contacts whose backfill came to its end
    excused,   \* history: mails for which nothing is promised
    blurred,   \* history: customers whose document may differ from the row
    requests,  \* requests so far
    faults     \* faults so far

recordVars == <<row, gone, contacts, index, job, requests, blurred>>
mailVars   == <<kept, link, shown, ingest, seen, missed>>
vars == <<row, gone, contacts, kept, link, shown, index, job, ingest, seen, missed,
          caughtUp, excused, blurred, requests, faults>>

Live(c)   == row[c] > 0
Known     == {None} \cup {c \in Customers : Live(c)}
Holder(r) == IF r \in Contacts THEN Owner[r] ELSE r
Present(r) == IF r \in Contacts THEN r \in contacts ELSE Live(r)

\* r is registered, and its mails have been looked for, or a request has the
\* list of them in its hands.
Listing(k, r) == job[k].at = "link" /\ job[k].rec = r
Sought(r)     == Present(r) /\ (r \in caughtUp \/ \E k \in Clerks : Listing(k, r))

\* Whose timeline is to show m.
Promised(m) == {r \in Alike[m] : <<m, r>> \notin missed}

Free == [at |-> "idle", rec |-> None, docs |-> [c \in Customers |-> 0], matched |-> {}]
Wait == [at |-> "idle", mail |-> None, who |-> None]

Request == [at : {"idle", "import", "index", "reindex", "match", "link", "unindex", "list", "bulk"},
            rec : Customers \cup Contacts \cup {None},
            docs : [Customers -> 0..MaxVersion],
            matched : SUBSET Mails]
Filing == [at : {"idle", "store", "dedup", "activity"},
           mail : Mails \cup {None}, who : Customers \cup {None}]

Init ==
    /\ row = [c \in Customers |-> 0] /\ gone = {} /\ contacts = {}
    /\ kept = {} /\ link = [m \in Mails |-> None] /\ shown = [m \in Mails |-> None]
    /\ index = [c \in Customers |-> 0]
    /\ job = [k \in Clerks |-> Free] /\ ingest = [p \in Pods |-> Wait]
    /\ seen = {} /\ missed = {} /\ caughtUp = {} /\ excused = {} /\ blurred = {}
    /\ requests = 0 /\ faults = 0

Fault == faults < MaxFaults /\ faults' = faults + 1

Go(k, j) == job' = [job EXCEPT ![k] = j]

\* A new request of k.
Begin(k) ==
    /\ job[k].at = "idle" /\ requests < MaxRequests
    /\ requests' = requests + 1

-----------------------------------------------------------------------------
(* History: two requests at one customer may write the index in the wrong  *)
(* order, and so may a request and a reindex.                              *)

Reindexing == \E k \in Clerks : job[k].at \in {"list", "bulk"}

\* Customers whose index the request is about to write.
Pending(j) == CASE j.at \in {"index", "reindex", "unindex"} -> {j.rec}
                [] j.at = "import" -> {c \in Customers : j.docs[c] > 0}
                [] OTHER -> {}

\* k starts a request at c.
Touch(k, c) ==
    blurred' = IF Reindexing \/ \E j \in Clerks \ {k} : c \in Pending(job[j])
               THEN blurred \cup {c} ELSE blurred

-----------------------------------------------------------------------------
(* Requests                                                                *)

Doc(c, v) == [Free.docs EXCEPT ![c] = v]

CreateCustomer(k, c) ==
    /\ Begin(k) /\ ~Live(c) /\ c \notin gone
    /\ row' = [row EXCEPT ![c] = 1]
    /\ Go(k, [Free EXCEPT !.at = "index", !.rec = c, !.docs = Doc(c, 1)])
    /\ Touch(k, c)
    /\ UNCHANGED <<gone, contacts, index, mailVars, caughtUp, excused, faults>>

\* ImportBook inserts row after row; the documents wait for the end.
ImportRow(k, c) ==
    /\ Begin(k) \/ (job[k].at = "import" /\ UNCHANGED requests)
    /\ ~Live(c) /\ c \notin gone
    /\ row' = [row EXCEPT ![c] = 1]
    /\ Go(k, [job[k] EXCEPT !.at = "import", !.docs[c] = 1])
    /\ Touch(k, c)
    /\ UNCHANGED <<gone, contacts, index, mailVars, caughtUp, excused, faults>>

UpdateCustomer(k, c) ==
    /\ Begin(k) /\ Live(c) /\ row[c] < MaxVersion
    /\ row' = [row EXCEPT ![c] = @ + 1]
    /\ Go(k, [Free EXCEPT !.at = "reindex", !.rec = c, !.docs = Doc(c, row[c] + 1)])
    /\ Touch(k, c)
    /\ UNCHANGED <<gone, contacts, index, mailVars, caughtUp, excused, faults>>

\* The rows of cs go, and with them their contacts and timelines; the mails stay
\* and lose their link.
Drop(cs) ==
    /\ row' = [c \in Customers |-> IF c \in cs THEN 0 ELSE row[c]]
    /\ gone' = gone \cup cs
    /\ contacts' = {t \in contacts : Owner[t] \notin cs}
    /\ link' = [m \in Mails |-> IF link[m] \in cs THEN None ELSE link[m]]
    /\ shown' = [m \in Mails |-> IF shown[m] \in cs THEN None ELSE shown[m]]
    /\ excused' = excused \cup {m \in Mails : link[m] \in cs \/ shown[m] \in cs}
                          \cup {ingest[p].mail : p \in {q \in Pods : ingest[q].who \in cs}}
    /\ UNCHANGED <<kept, index, ingest, seen, missed, caughtUp, faults>>

DeleteCustomer(k, c) ==
    /\ Begin(k) /\ Live(c)
    /\ Drop({c})
    /\ Go(k, [Free EXCEPT !.at = "unindex", !.rec = c])
    /\ Touch(k, c)

\* The rows of its customers go by the foreign key; nobody tells the index.
DeleteBook(b) ==
    LET cs == {c \in Customers : Book[c] = b} IN
    /\ requests < MaxRequests /\ requests' = requests + 1
    /\ Drop(cs)
    /\ blurred' = blurred \cup {c \in cs : Live(c)}
    /\ UNCHANGED job

\* From the user interface the request ends here; create_customer of the MCP
\* server goes on with the mails of the contact.
CreateContact(k, t) ==
    /\ Begin(k) /\ t \notin contacts \cup gone /\ Live(Owner[t])
    /\ contacts' = contacts \cup {t}
    /\ \/ UNCHANGED job
       \/ Go(k, [Free EXCEPT !.at = "match", !.rec = t])
    /\ UNCHANGED <<row, gone, index, blurred, mailVars, caughtUp, excused, faults>>

DeleteContact(t) ==
    /\ t \in contacts
    /\ contacts' = contacts \ {t} /\ gone' = gone \cup {t}
    /\ caughtUp' = caughtUp \ {t}
    /\ UNCHANGED <<row, index, job, blurred, requests, mailVars, excused, faults>>

\* create_customer of the MCP server, when it finds the address in the book.
BackfillMailboxTimeline(k, c) ==
    /\ Begin(k) /\ Live(c)
    /\ Go(k, [Free EXCEPT !.at = "match", !.rec = c])
    /\ UNCHANGED <<row, gone, contacts, index, blurred, mailVars, caughtUp, excused, faults>>

-----------------------------------------------------------------------------
(* Their further statements                                                *)

IndexCustomer(k) ==
    /\ job[k].at \in {"index", "reindex"}
    /\ LET c == job[k].rec IN
       /\ \/ /\ index' = [index EXCEPT ![c] = job[k].docs[c]]
             /\ UNCHANGED <<blurred, faults>>
          \/ /\ Fault
             /\ blurred' = blurred \cup {c}
             /\ UNCHANGED index
       /\ Go(k, IF job[k].at = "index" THEN [Free EXCEPT !.at = "match", !.rec = c] ELSE Free)
    /\ UNCHANGED <<row, gone, contacts, requests, mailVars, caughtUp, excused>>

DeleteFromIndex(k) ==
    /\ job[k].at = "unindex"
    /\ \/ /\ index' = [index EXCEPT ![job[k].rec] = 0]
          /\ UNCHANGED <<blurred, faults>>
       \/ /\ Fault
          /\ blurred' = blurred \cup {job[k].rec}
          /\ UNCHANGED index
    /\ Go(k, Free)
    /\ UNCHANGED <<row, gone, contacts, requests, mailVars, caughtUp, excused>>

\* The documents of an import or of a batch of the reindex.
BulkIndex(k) ==
    /\ job[k].at \in {"import", "bulk"}
    /\ \/ /\ index' = [c \in Customers |-> IF job[k].docs[c] > 0 THEN job[k].docs[c] ELSE index[c]]
          /\ UNCHANGED <<blurred, faults>>
       \/ /\ Fault
          /\ blurred' = blurred \cup {c \in Customers : job[k].docs[c] > 0}
          /\ UNCHANGED index
    /\ Go(k, Free)
    /\ UNCHANGED <<row, gone, contacts, requests, mailVars, caughtUp, excused>>

Matching(r) == {m \in kept : link[m] = None /\ r \in Alike[m]}

InFlight(m) == \E p \in Pods : ingest[p].at # "idle" /\ ingest[p].mail = m

\* The statement sees the mails that are stored when it begins.
Match(k) ==
    /\ job[k].at = "match"
    /\ LET r == job[k].rec IN
       /\ \/ /\ Go(k, [job[k] EXCEPT !.at = "link", !.matched = Matching(r)])
             /\ excused' = excused \cup {m \in Mails \ kept : r \in Alike[m] /\ InFlight(m)}
             /\ UNCHANGED faults
          \/ Fault /\ Go(k, Free) /\ UNCHANGED excused
    /\ UNCHANGED <<row, gone, contacts, requests, index, blurred, mailVars, caughtUp>>

\* ... and links them all, also those another request has linked since. It
\* files those that are on no timeline. A customer that is gone fails it.
BackfillActivities(k) ==
    /\ job[k].at = "link"
    /\ LET c == Holder(job[k].rec) IN
       IF Present(job[k].rec) /\ Live(c)
       THEN /\ link' = [m \in Mails |-> IF m \in job[k].matched THEN c ELSE link[m]]
            /\ shown' = [m \in Mails |-> IF m \in job[k].matched /\ shown[m] = None
                                         THEN c ELSE shown[m]]
            /\ caughtUp' = caughtUp \cup {job[k].rec}
       ELSE UNCHANGED <<link, shown, caughtUp>>
    /\ Go(k, Free)
    /\ UNCHANGED <<row, gone, contacts, requests, kept, index, ingest, seen, missed, excused, blurred, faults>>

\* Faulty: the reindex writes over what is there, so deleted customers stay.
ReindexInPlace(k) ==
    /\ Begin(k) /\ ~Reindexing
    /\ blurred' = UNION {Pending(job[j]) : j \in Clerks}
    /\ Go(k, [Free EXCEPT !.at = "list"])
    /\ UNCHANGED <<row, gone, contacts, index, mailVars, caughtUp, excused, faults>>

\* runReindex drops the index, reads all rows and writes them. One at a time.
RecreateCustomerIndex(k) ==
    /\ Begin(k) /\ ~Reindexing
    /\ index' = [c \in Customers |-> 0]
    /\ blurred' = UNION {Pending(job[j]) : j \in Clerks}
    /\ Go(k, [Free EXCEPT !.at = "list"])
    /\ UNCHANGED <<row, gone, contacts, mailVars, caughtUp, excused, faults>>

ListAllCustomers(k) ==
    /\ job[k].at = "list"
    /\ Go(k, [Free EXCEPT !.at = "bulk", !.docs = row])
    /\ UNCHANGED <<row, gone, contacts, requests, index, blurred, mailVars, caughtUp, excused, faults>>

\* A request is cut off between two statements: its pod restarts.
CutOff(k) ==
    /\ job[k].at # "idle"
    /\ Fault
    /\ blurred' = blurred \cup Pending(job[k])
                          \cup (IF job[k].at \in {"list", "bulk"} THEN Customers ELSE {})
    /\ Go(k, Free)
    /\ UNCHANGED <<row, gone, contacts, requests, index, mailVars, caughtUp, excused>>

Clerk(k) ==
    \/ \E c \in Customers : CreateCustomer(k, c) \/ ImportRow(k, c) \/ UpdateCustomer(k, c)
                            \/ DeleteCustomer(k, c) \/ BackfillMailboxTimeline(k, c)
    \/ \E t \in Contacts : CreateContact(k, t)
    \/ IndexCustomer(k) \/ DeleteFromIndex(k) \/ BulkIndex(k)
    \/ Match(k) \/ BackfillActivities(k)
    \/ RecreateCustomerIndex(k) \/ ListAllCustomers(k) \/ CutOff(k)

-----------------------------------------------------------------------------
(* Ingest of one mail: resolve, store, look for it, file it                *)

\* Faulty: the mail is given to the contact and not to his customer.
FindSenderByEmail(m) ==
    LET found == {r \in Exact[m] : Present(r)} IN IF found = {} THEN {None} ELSE found

\* Faulty: contacts are forgotten.
FindCustomerByOwnEmail(m) ==
    LET found == {c \in Exact[m] \cap Customers : Live(c)}
    IN  IF found = {} THEN {None} ELSE found

\* Customer.mail comes before Contact.mail; among equals any row.
FindCustomerByEmail(m) ==
    LET byCustomer == {c \in Exact[m] \cap Customers : Live(c)}
        byContact  == {Owner[t] : t \in Exact[m] \cap contacts}
    IN  CASE byCustomer # {} -> byCustomer
          [] byCustomer = {} /\ byContact # {} -> byContact
          [] OTHER -> {None}

Put(p, j) == ingest' = [ingest EXCEPT ![p] = j]

ResolveCustomer(p, m) ==
    /\ ingest[p].at = "idle" /\ <<p, m>> \notin seen
    /\ seen' = seen \cup {<<p, m>>}
    /\ \/ /\ \E c \in FindCustomerByEmail(m) :
                /\ Put(p, [at |-> "store", mail |-> m, who |-> c])
                /\ missed' = IF c # None THEN missed ELSE
                      missed \cup {<<m, r>> : r \in {s \in Alike[m] \ Exact[m] : Sought(s)}}
          /\ UNCHANGED <<excused, faults>>
       \/ /\ Fault
          /\ Put(p, [at |-> "store", mail |-> m, who |-> None])
          /\ excused' = excused \cup {m}
          /\ UNCHANGED missed
    /\ UNCHANGED <<recordVars, kept, link, shown, caughtUp>>

\* The unique index keeps the first row; a customer that is gone refuses it.
StoreMailboxMessage(p) ==
    /\ ingest[p].at = "store"
    /\ Put(p, [ingest[p] EXCEPT !.at = "dedup"])
    /\ LET m == ingest[p].mail
           w == ingest[p].who
       IN  \/ /\ m \notin kept /\ w \in Known
              /\ kept' = kept \cup {m}
              /\ link' = [link EXCEPT ![m] = w]
              /\ UNCHANGED faults
           \/ /\ m \in kept \/ w \notin Known
              /\ UNCHANGED <<kept, link, faults>>
           \/ Fault /\ UNCHANGED <<kept, link>>
    /\ UNCHANGED <<recordVars, shown, seen, missed, caughtUp, excused>>

GetActivityByMessageID(p) ==
    /\ ingest[p].at = "dedup"
    /\ LET m == ingest[p].mail IN
       \/ /\ Put(p, IF shown[m] # None \/ ingest[p].who = None THEN Wait
                    ELSE [ingest[p] EXCEPT !.at = "activity"])
          /\ UNCHANGED <<excused, faults>>
       \/ Fault /\ Put(p, Wait) /\ excused' = excused \cup {m}
    /\ UNCHANGED <<recordVars, kept, link, shown, seen, missed, caughtUp>>

CreateActivity(p) ==
    /\ ingest[p].at = "activity"
    /\ Put(p, Wait)
    /\ LET m == ingest[p].mail IN
       \/ /\ shown' = IF shown[m] = None /\ Live(ingest[p].who)
                      THEN [shown EXCEPT ![m] = ingest[p].who] ELSE shown
          /\ UNCHANGED <<excused, faults>>
       \/ Fault /\ UNCHANGED shown /\ excused' = excused \cup {m}
    /\ UNCHANGED <<recordVars, kept, link, seen, missed, caughtUp>>

Pod(p) ==
    \/ \E m \in Mails : ResolveCustomer(p, m)
    \/ StoreMailboxMessage(p) \/ GetActivityByMessageID(p) \/ CreateActivity(p)

Next ==
    \/ \E k \in Clerks : Clerk(k)
    \/ \E p \in Pods : Pod(p)
    \/ \E t \in Contacts : DeleteContact(t)
    \/ \E b \in Books : DeleteBook(b)

Spec == Init /\ [][Next]_vars

-----------------------------------------------------------------------------
(* Properties                                                              *)

TypeOK ==
    /\ row \in [Customers -> 0..MaxVersion] /\ gone \subseteq Customers \cup Contacts
    /\ contacts \subseteq Contacts
    /\ kept \subseteq Mails
    /\ link \in [Mails -> Customers \cup {None}]
    /\ shown \in [Mails -> Customers \cup {None}]
    /\ index \in [Customers -> 0..MaxVersion]
    /\ job \in [Clerks -> Request] /\ ingest \in [Pods -> Filing]
    /\ seen \subseteq Pods \X Mails /\ missed \subseteq Mails \X (Customers \cup Contacts)
    /\ caughtUp \subseteq Customers \cup Contacts
    /\ excused \subseteq Mails /\ blurred \subseteq Customers
    /\ requests \in 0..MaxRequests /\ faults \in 0..MaxFaults

\* Registering a customer brings the mails that came before on its timeline,
\* and those that come later are put there as they come, though two pods and
\* other registrations are at the same mails ("メール → 顧客登録 の順で作業しても
\* 過去メールが履歴に出るようにする", create_customer.go:58-60). Excused are mails
\* that were on their way at the moment of the backfill, mails that lost
\* their customer by a deletion, mails at which a statement failed, and for
\* one record the mails after its backfill that only the backfill would have
\* found: an address stored with capitals is unknown to the ingest.
PastMailShown ==
    \A m \in kept \ excused :
        (~InFlight(m) /\ \E r \in Promised(m) \cap caughtUp : Present(r)) => shown[m] # None

\* The search finds what the rows say, unless a write of the index failed,
\* two requests at the customer crossed, or the customer went with his book,
\* whose deletion leaves the documents there; a reindex makes good what
\* happened before it, and never leaves behind what it has overtaken.
IndexMatchesRow ==
    \A c \in Customers \ blurred :
        (~Reindexing /\ \A k \in Clerks : c \notin Pending(job[k])) => index[c] = row[c]
=============================================================================

----------------------- MODULE CustomerRecordsProofs ------------------------
(***************************************************************************)
(* The search index agrees with the rows, and the mails that came before   *)
(* a customer was registered are on the timeline, for any number of        *)
(* requests, pods, customers, contacts and mails, whatever statement fails. *)
(*                                                                         *)
(* A customer whose document lags behind has one request, and only one,    *)
(* that waits to write it; a reindex that runs has dropped the document    *)
(* and has the row. A mail has its place on a timeline, or a pod that is   *)
(* about to put it there, or a request that has it on its list, unless     *)
(* nothing was promised for it.                                            *)
(***************************************************************************)
EXTENDS CustomerRecords, TLAPS

-----------------------------------------------------------------------------
(* The inductive invariant. *)
\* A clerk that writes the index anew.
Rebuilding(j) == j.at \in {"list", "bulk"}

\* What a request is about to write for c.
Writes(j, c) == IF j.at = "unindex" THEN 0 ELSE j.docs[c]

JobsKept ==
    /\ \A k \in Clerks : /\ job[k].at = "idle" => job[k] = Free
                         /\ job[k].at \in {"index", "reindex", "unindex"} => job[k].rec \in Customers
                         /\ job[k].at \in {"match", "link"} => job[k].rec \in Customers \cup Contacts
    /\ \A j, k \in Clerks : Rebuilding(job[j]) /\ Rebuilding(job[k]) => j = k

\* The document of a customer is that of its row, or one request, and one only,
\* will make it so; while the index is written anew, it is not there and the
\* one who writes it has the row.
Indexed(c) ==
    IF Reindexing
    THEN /\ index[c] = 0
         /\ \A k \in Clerks : /\ c \notin Pending(job[k])
                              /\ job[k].at = "bulk" => job[k].docs[c] = row[c]
    ELSE /\ (\A k \in Clerks : c \notin Pending(job[k])) => index[c] = row[c]
         /\ \A k \in Clerks : c \in Pending(job[k]) =>
                /\ Writes(job[k], c) = row[c]
                /\ \A j \in Clerks : c \in Pending(job[j]) => j = k

\* Who is gone does not come back, nor does a contact without its customer.
Lost(r) == r \in gone \/ Holder(r) \in gone

RowsGone ==
    /\ \A c \in Customers : c \in gone => ~Live(c)
    /\ \A t \in Contacts : t \in gone => t \notin contacts
    /\ \A t \in contacts : Live(Owner[t])

\* Those whose mails were or are being looked for.
LookedFor(r) == r \in caughtUp \/ \E k \in Clerks : job[k].at \in {"index", "match", "link"} /\ job[k].rec = r

FilingsKept ==
    \A p \in Pods : /\ ingest[p].at = "idle" => ingest[p].who = None
                    /\ ingest[p].at # "idle" => ingest[p].mail \in Mails
                    /\ ingest[p].at = "activity" => ingest[p].who # None
                    /\ ingest[p].who # None /\ ingest[p].mail \notin excused => Live(ingest[p].who)

\* The mail is on a timeline, or a pod is about to put it there.
Served(m) == shown[m] # None \/ \E p \in Pods : ingest[p].mail = m /\ ingest[p].who # None

MailsKept ==
    /\ \A m \in kept \ excused :
         /\ link[m] # None => Served(m)
         /\ \A r \in Promised(m) : Present(r) =>
               /\ r \in caughtUp => Served(m)
               /\ \A k \in Clerks : Listing(k, r) => m \in job[k].matched \/ Served(m)
    /\ \A p \in Pods : ingest[p].at = "store" /\ ingest[p].who = None =>
         ingest[p].mail \in kept \cup excused \/ \A r \in Promised(ingest[p].mail) : ~Sought(r)

RecordInv ==
    /\ TypeOK /\ JobsKept /\ RowsGone /\ FilingsKept /\ MailsKept
    /\ \A c \in Customers \ blurred : Indexed(c)
    /\ \A r \in Customers \cup Contacts : LookedFor(r) => Present(r) \/ Lost(r)

-----------------------------------------------------------------------------
(* The values of a request. *)
At == {"idle", "import", "index", "reindex", "match", "link", "unindex", "list", "bulk"}

\* A field at a time.
LEMMA SetAt ==
    ASSUME NEW j \in Request, NEW a \in At
    PROVE  LET i == [j EXCEPT !.at = a]
           IN  i \in Request /\ i.at = a /\ i.rec = j.rec /\ i.docs = j.docs /\ i.matched = j.matched
BY DEF Request, At

LEMMA SetRec ==
    ASSUME NEW j \in Request, NEW r \in Customers \cup Contacts \cup {None}
    PROVE  LET i == [j EXCEPT !.rec = r]
           IN  i \in Request /\ i.at = j.at /\ i.rec = r /\ i.docs = j.docs /\ i.matched = j.matched
BY DEF Request

LEMMA SetDocs ==
    ASSUME NEW j \in Request, NEW d \in [Customers -> 0..MaxVersion]
    PROVE  LET i == [j EXCEPT !.docs = d]
           IN  i \in Request /\ i.at = j.at /\ i.rec = j.rec /\ i.docs = d /\ i.matched = j.matched
BY DEF Request

LEMMA SetMatched ==
    ASSUME NEW j \in Request, NEW s \in SUBSET Mails
    PROVE  LET i == [j EXCEPT !.matched = s]
           IN  i \in Request /\ i.at = j.at /\ i.rec = j.rec /\ i.docs = j.docs /\ i.matched = s
BY DEF Request

\* A request that is free, and one document.
LEMMA FreeValues ==
    /\ Free \in Request /\ Free.at = "idle" /\ Free.rec = None /\ Free.matched = {}
    /\ Free.docs \in [Customers -> 0..MaxVersion] /\ \A c \in Customers : Free.docs[c] = 0
    /\ \A c \in Customers, v \in 0..MaxVersion :
         /\ Doc(c, v) \in [Customers -> 0..MaxVersion] /\ Doc(c, v)[c] = v
         /\ \A d \in Customers \ {c} : Doc(c, v)[d] = 0
BY RecordConstants DEF Free, Request, Doc

\* The values of a request after each of its statements.
LEMMA AtRecord ==
    ASSUME NEW a \in {"match", "unindex"}, NEW r \in Customers \cup Contacts
    PROVE  LET i == [Free EXCEPT !.at = a, !.rec = r]
           IN  i \in Request /\ i.at = a /\ i.rec = r
<1>1. [Free EXCEPT !.at = a, !.rec = r] = [[Free EXCEPT !.at = a] EXCEPT !.rec = r]
  OBVIOUS
<1>2. a \in At
  BY DEF At
<1>3. [Free EXCEPT !.at = a] \in Request /\ [Free EXCEPT !.at = a].at = a
  BY <1>2, FreeValues, SetAt
<1> QED BY <1>1, <1>3, SetRec

\* A request with a document to write.
Carrying(a, r, d) == [Free EXCEPT !.at = a, !.rec = r, !.docs = d]

LEMMA AtDocument ==
    ASSUME NEW a \in At, NEW r \in Customers, NEW d \in [Customers -> 0..MaxVersion]
    PROVE  /\ Carrying(a, r, d) \in Request /\ Carrying(a, r, d).at = a
           /\ Carrying(a, r, d).rec = r /\ Carrying(a, r, d).docs = d
<1> DEFINE f == [Free EXCEPT !.at = a]
           g == [f EXCEPT !.rec = r]
<1>1. Carrying(a, r, d) = [g EXCEPT !.docs = d]
  BY DEF Carrying
<1>3. f \in Request /\ f.at = a
  BY FreeValues, SetAt
<1> HIDE DEF f
<1>4. g \in Request /\ g.at = a /\ g.rec = r
  BY <1>3, SetRec
<1> HIDE DEF g
<1> QED BY <1>1, <1>4, SetDocs

LEMMA AtReindex ==
    /\ [Free EXCEPT !.at = "list"] \in Request /\ [Free EXCEPT !.at = "list"].at = "list"
    /\ \A d \in [Customers -> 0..MaxVersion] :
         LET i == [Free EXCEPT !.at = "bulk", !.docs = d]
         IN  i \in Request /\ i.at = "bulk" /\ i.docs = d
<1>1. "list" \in At /\ "bulk" \in At
  BY DEF At
<1>2. /\ [Free EXCEPT !.at = "list"] \in Request /\ [Free EXCEPT !.at = "list"].at = "list"
      /\ [Free EXCEPT !.at = "bulk"] \in Request /\ [Free EXCEPT !.at = "bulk"].at = "bulk"
  BY <1>1, FreeValues, SetAt
<1>3. \A d : [Free EXCEPT !.at = "bulk", !.docs = d] = [[Free EXCEPT !.at = "bulk"] EXCEPT !.docs = d]
  OBVIOUS
<1> QED BY <1>2, <1>3, SetDocs

LEMMA AtLink ==
    ASSUME NEW j \in Request, NEW s \in SUBSET Mails
    PROVE  LET i == [j EXCEPT !.at = "link", !.matched = s]
           IN  i \in Request /\ i.at = "link" /\ i.rec = j.rec /\ i.matched = s
<1> DEFINE f == [j EXCEPT !.at = "link"]
<1>1. [j EXCEPT !.at = "link", !.matched = s] = [f EXCEPT !.matched = s]
  OBVIOUS
<1>2. "link" \in At
  BY DEF At
<1>3. f \in Request /\ f.at = "link" /\ f.rec = j.rec
  BY <1>2, SetAt
<1> HIDE DEF f
<1> QED BY <1>1, <1>3, SetMatched

LEMMA AtImport ==
    ASSUME NEW j \in Request, NEW c \in Customers
    PROVE  LET i == [j EXCEPT !.at = "import", !.docs[c] = 1]
           IN  /\ i \in Request /\ i.at = "import" /\ i.docs[c] = 1
               /\ \A d \in Customers \ {c} : i.docs[d] = j.docs[d]
<1> DEFINE f == [j EXCEPT !.at = "import"]
           e == [j.docs EXCEPT ![c] = 1]
<1>1. [j EXCEPT !.at = "import", !.docs[c] = 1] = [f EXCEPT !.docs = e]
  OBVIOUS
<1>2. "import" \in At
  BY DEF At
<1>3. f \in Request /\ f.at = "import"
  BY <1>2, SetAt
<1>4. j.docs \in [Customers -> 0..MaxVersion] /\ 1 \in 0..MaxVersion
  BY RecordConstants DEF Request
<1>5. e \in [Customers -> 0..MaxVersion] /\ e[c] = 1 /\ \A d \in Customers \ {c} : e[d] = j.docs[d]
  BY <1>4
<1> HIDE DEF e, f
<1>6. LET i == [f EXCEPT !.docs = e] IN i \in Request /\ i.at = "import" /\ i.docs = e
  BY <1>3, <1>5, SetDocs
<1> QED BY <1>1, <1>5, <1>6

\* The next version of a row is one.
LEMMA NextVersion ==
    ASSUME row \in [Customers -> 0..MaxVersion], NEW c \in Customers, row[c] < MaxVersion
    PROVE  row[c] + 1 \in 0..MaxVersion
BY RecordConstants

\* A request goes on: the other requests stay as they are.
LEMMA GoesOn ==
    ASSUME TypeOK, JobsKept, NEW k \in Clerks, NEW j \in Request, Go(k, j),
           j.at = "idle" => j = Free,
           j.at \in {"index", "reindex", "unindex"} => j.rec \in Customers,
           j.at \in {"match", "link"} => j.rec \in Customers \cup Contacts,
           Rebuilding(j) => Rebuilding(job[k]) \/ ~Reindexing
    PROVE  job' \in [Clerks -> Request] /\ JobsKept'
<1>1. job \in [Clerks -> Request] /\ job' = [job EXCEPT ![k] = j]
  BY DEF TypeOK, Go
<1>2. job' \in [Clerks -> Request] /\ job'[k] = j /\ \A i \in Clerks \ {k} : job'[i] = job[i]
  BY <1>1
<1> HIDE DEF Request, Free
<1>3. \A i \in Clerks : /\ job'[i].at = "idle" => job'[i] = Free
                        /\ job'[i].at \in {"index", "reindex", "unindex"} => job'[i].rec \in Customers
                        /\ job'[i].at \in {"match", "link"} => job'[i].rec \in Customers \cup Contacts
  BY <1>2 DEF JobsKept
<1>4. \A h, i \in Clerks : Rebuilding(job'[h]) /\ Rebuilding(job'[i]) => h = i
  BY <1>2 DEF JobsKept, Reindexing, Rebuilding
<1> QED BY <1>2, <1>3, <1>4 DEF JobsKept

-----------------------------------------------------------------------------
(* Types, requests and rows, step by step. *)
\* What every step keeps of the requests and their rows.
Basics == TypeOK /\ JobsKept /\ RowsGone

\* Counters and histories stay within their types.
LEMMA Counts ==
    ASSUME Basics
    PROVE  /\ \A k \in Clerks : Begin(k) => requests' \in 0..MaxRequests
           /\ Fault => faults' \in 0..MaxFaults
           /\ \A k \in Clerks : Pending(job[k]) \subseteq Customers
           /\ \A k \in Clerks, c \in Customers : Touch(k, c) => blurred' \subseteq Customers
<1>1. /\ requests \in 0..MaxRequests /\ faults \in 0..MaxFaults /\ blurred \subseteq Customers
      /\ MaxRequests \in Nat /\ MaxFaults \in Nat
  BY RecordConstants DEF Basics, TypeOK
<1>2. ASSUME NEW k \in Clerks, Begin(k)
      PROVE  requests' \in 0..MaxRequests
  BY <1>1, <1>2 DEF Begin
<1>3. ASSUME Fault PROVE faults' \in 0..MaxFaults
  BY <1>1, <1>3 DEF Fault
<1>4. ASSUME NEW k \in Clerks
      PROVE  Pending(job[k]) \subseteq Customers
  BY DEF Pending, Basics, JobsKept
<1>5. ASSUME NEW k \in Clerks, NEW c \in Customers, Touch(k, c)
      PROVE  blurred' \subseteq Customers
  <2>1. blurred' = blurred \cup {c} \/ blurred' = blurred
    BY <1>5 DEF Touch
  <2> QED BY <1>1, <2>1
<1> QED BY <1>2, <1>3, <1>4, <1>5

\* Rows that go.
LEMMA BasicsDropped ==
    ASSUME Basics, FilingsKept, NEW cs \in SUBSET Customers, Drop(cs),
           job' \in [Clerks -> Request], JobsKept', requests' \in 0..MaxRequests, blurred' \subseteq Customers
    PROVE  Basics'
<1>1. /\ row \in [Customers -> 0..MaxVersion] /\ 0 \in 0..MaxVersion
      /\ None \notin Customers
  BY RecordConstants DEF Basics, TypeOK
<1>2. /\ row' = [c \in Customers |-> IF c \in cs THEN 0 ELSE row[c]] /\ gone' = gone \cup cs
      /\ contacts' = {t \in contacts : Owner[t] \notin cs}
  BY DEF Drop
<1>3. row' \in [Customers -> 0..MaxVersion]
  BY <1>1, <1>2
<1>4. RowsGone'
  <2>1. \A c \in Customers : row'[c] = IF c \in cs THEN 0 ELSE row[c]
    BY <1>2
  <2>2. \A t \in contacts : Owner[t] \in Customers
    BY RecordConstants DEF Basics, TypeOK
  <2>3. cs \cap Contacts = {}
    BY RecordConstants
  <2> QED BY <1>2, <2>1, <2>2, <2>3 DEF Basics, RowsGone, Live
<1>5. /\ link' \in [Mails -> Customers \cup {None}] /\ shown' \in [Mails -> Customers \cup {None}]
      /\ gone' \subseteq Customers \cup Contacts /\ contacts' \subseteq Contacts
  BY DEF Drop, Basics, TypeOK
<1>6. excused' \subseteq Mails
  <2>1. \A p \in Pods : ingest[p].who \in cs => ingest[p].mail \in Mails
    BY <1>1 DEF FilingsKept
  <2> QED BY <2>1 DEF Drop, Basics, TypeOK
<1>7. UNCHANGED <<kept, index, ingest, seen, missed, caughtUp, faults>>
  BY DEF Drop
<1> QED BY <1>3, <1>4, <1>5, <1>6, <1>7 DEF Basics, TypeOK

\* Actions of requests at the row of a customer.
LEMMA BasicsRow ==
    ASSUME Basics, FilingsKept, NEW k \in Clerks, NEW c \in Customers,
           CreateCustomer(k, c) \/ ImportRow(k, c) \/ UpdateCustomer(k, c) \/ DeleteCustomer(k, c)
    PROVE  Basics'
<1>1. /\ row \in [Customers -> 0..MaxVersion] /\ job \in [Clerks -> Request] /\ job[k] \in Request
      /\ c \in Customers \cup Contacts /\ requests \in 0..MaxRequests /\ faults \in 0..MaxFaults
      /\ c \notin Contacts
  BY RecordConstants DEF Basics, TypeOK
<1>2. CASE CreateCustomer(k, c)
  <2>1. 1 \in 0..MaxVersion
    BY RecordConstants
  <2> DEFINE v == 1
             j == [Free EXCEPT !.at = "index", !.rec = c, !.docs = Doc(c, v)]
  <2>2. j \in Request /\ j.at = "index" /\ j.rec = c
    <3> HIDE DEF v
    <3>1. Doc(c, v) \in [Customers -> 0..MaxVersion] /\ "index" \in At
      BY <2>1, FreeValues DEF v, At
    <3>2. LET i == Carrying("index", c, Doc(c, v)) IN i \in Request /\ i.at = "index" /\ i.rec = c
      BY <3>1, AtDocument
    <3> QED BY <3>2 DEF Carrying
  <2>3. Go(k, j)
    BY <1>2 DEF CreateCustomer
  <2> HIDE DEF j
  <2>4. job' \in [Clerks -> Request] /\ JobsKept'
    BY <2>2, <2>3, GoesOn DEF Basics, Rebuilding
  <2>5. row' \in [Customers -> 0..MaxVersion] /\ RowsGone'
    BY <1>1, <1>2, <2>1 DEF CreateCustomer, mailVars, Basics, RowsGone, Live, TypeOK
  <2>6. requests' \in 0..MaxRequests /\ blurred' \subseteq Customers
    <3>1. Begin(k) /\ Touch(k, c)
      BY <1>2 DEF CreateCustomer
    <3> QED BY <3>1, Counts
  <2>7. UNCHANGED <<gone, contacts, index, mailVars, caughtUp, excused, faults>>
    BY <1>2 DEF CreateCustomer
  <2> QED BY <2>4, <2>5, <2>6, <2>7 DEF mailVars, Basics, TypeOK
<1>3. CASE ImportRow(k, c)
  <2>1. 1 \in 0..MaxVersion
    BY RecordConstants
  <2> DEFINE j == [job[k] EXCEPT !.at = "import", !.docs[c] = 1]
  <2>2. j \in Request /\ j.at = "import"
    BY <1>1, AtImport
  <2>3. Go(k, j)
    BY <1>3 DEF ImportRow
  <2> HIDE DEF j
  <2>4. job' \in [Clerks -> Request] /\ JobsKept'
    BY <2>2, <2>3, GoesOn DEF Basics, Rebuilding
  <2>5. row' \in [Customers -> 0..MaxVersion] /\ RowsGone'
    BY <1>1, <1>3, <2>1 DEF ImportRow, mailVars, Basics, RowsGone, Live, TypeOK
  <2>6. requests' \in 0..MaxRequests /\ blurred' \subseteq Customers
    <3>1. (Begin(k) \/ requests' = requests) /\ Touch(k, c)
      BY <1>3 DEF ImportRow
    <3> QED BY <1>1, <3>1, Counts
  <2>7. UNCHANGED <<gone, contacts, index, mailVars, caughtUp, excused, faults>>
    BY <1>3 DEF ImportRow
  <2> QED BY <2>4, <2>5, <2>6, <2>7 DEF mailVars, Basics, TypeOK
<1>4. CASE UpdateCustomer(k, c)
  <2>1. row[c] + 1 \in 0..MaxVersion
    <3>1. row[c] < MaxVersion
      BY <1>4 DEF UpdateCustomer
    <3> QED BY <1>1, <3>1, NextVersion
  <2> DEFINE v == row[c] + 1
             j == [Free EXCEPT !.at = "reindex", !.rec = c, !.docs = Doc(c, v)]
  <2>2. j \in Request /\ j.at = "reindex" /\ j.rec = c
    <3> HIDE DEF v
    <3>1. Doc(c, v) \in [Customers -> 0..MaxVersion] /\ "reindex" \in At
      BY <2>1, FreeValues DEF v, At
    <3>2. LET i == Carrying("reindex", c, Doc(c, v)) IN i \in Request /\ i.at = "reindex" /\ i.rec = c
      BY <3>1, AtDocument
    <3> QED BY <3>2 DEF Carrying
  <2>3. Go(k, j)
    BY <1>4 DEF UpdateCustomer
  <2> HIDE DEF j
  <2>4. job' \in [Clerks -> Request] /\ JobsKept'
    BY <2>2, <2>3, GoesOn DEF Basics, Rebuilding
  <2>5. row' \in [Customers -> 0..MaxVersion] /\ RowsGone'
    BY <1>1, <1>4, <2>1 DEF UpdateCustomer, mailVars, Basics, RowsGone, Live, TypeOK
  <2>6. requests' \in 0..MaxRequests /\ blurred' \subseteq Customers
    <3>1. Begin(k) /\ Touch(k, c)
      BY <1>4 DEF UpdateCustomer
    <3> QED BY <3>1, Counts
  <2>7. UNCHANGED <<gone, contacts, index, mailVars, caughtUp, excused, faults>>
    BY <1>4 DEF UpdateCustomer
  <2> QED BY <2>4, <2>5, <2>6, <2>7 DEF mailVars, Basics, TypeOK
<1>5. CASE DeleteCustomer(k, c)
  <2> DEFINE j == [Free EXCEPT !.at = "unindex", !.rec = c]
  <2>2. j \in Request /\ j.at = "unindex" /\ j.rec = c
    BY <1>1, AtRecord
  <2>3. Go(k, j)
    BY <1>5 DEF DeleteCustomer
  <2> HIDE DEF j
  <2>4. job' \in [Clerks -> Request] /\ JobsKept'
    BY <2>2, <2>3, GoesOn DEF Basics, Rebuilding
  <2>6. requests' \in 0..MaxRequests /\ blurred' \subseteq Customers
    <3>1. Begin(k) /\ Touch(k, c)
      BY <1>5 DEF DeleteCustomer
    <3> QED BY <3>1, Counts
  <2>7. Drop({c}) /\ {c} \in SUBSET Customers
    BY <1>5 DEF DeleteCustomer
  <2> HIDE DEF Drop
  <2> QED BY <2>4, <2>6, <2>7, BasicsDropped
<1> QED BY <1>2, <1>3, <1>4, <1>5

\* What a request does to its document and its mails, and to the whole index.
LEMMA BasicsRequest ==
    ASSUME Basics, NEW k \in Clerks,
           \/ IndexCustomer(k) \/ DeleteFromIndex(k) \/ BulkIndex(k) \/ Match(k) \/ BackfillActivities(k)
           \/ RecreateCustomerIndex(k) \/ ListAllCustomers(k) \/ CutOff(k)
    PROVE  Basics'
<1>1. /\ row \in [Customers -> 0..MaxVersion] /\ index \in [Customers -> 0..MaxVersion]
      /\ job[k] \in Request /\ job[k].docs \in [Customers -> 0..MaxVersion]
      /\ blurred \subseteq Customers /\ excused \subseteq Mails
      /\ kept \subseteq Mails /\ gone \subseteq Customers \cup Contacts /\ contacts \subseteq Contacts
      /\ link \in [Mails -> Customers \cup {None}] /\ shown \in [Mails -> Customers \cup {None}]
      /\ ingest \in [Pods -> Filing] /\ seen \subseteq Pods \X Mails
      /\ missed \subseteq Mails \X (Customers \cup Contacts)
      /\ caughtUp \subseteq Customers \cup Contacts
      /\ requests \in 0..MaxRequests /\ faults \in 0..MaxFaults
  BY DEF Basics, TypeOK, Request
<1>2. /\ job[k].at \in {"index", "reindex", "unindex"} => job[k].rec \in Customers
      /\ job[k].at \in {"match", "link"} => job[k].rec \in Customers \cup Contacts
  BY DEF Basics, JobsKept
<1>f. Free \in Request /\ Free.at = "idle"
  BY FreeValues
\* A request that comes to its end.
<1>e. Go(k, Free) => job' \in [Clerks -> Request] /\ JobsKept'
  <2> SUFFICES ASSUME Go(k, Free) PROVE job' \in [Clerks -> Request] /\ JobsKept'
    OBVIOUS
  <2> QED BY <1>f, GoesOn DEF Basics, Rebuilding
<1>r. row' = row /\ gone' = gone /\ contacts' = contacts => RowsGone'
  BY DEF Basics, RowsGone, Live
<1>t. ASSUME job' \in [Clerks -> Request], JobsKept', UNCHANGED <<row, gone, contacts, mailVars>>,
             index' \in [Customers -> 0..MaxVersion], blurred' \subseteq Customers,
             caughtUp' \subseteq Customers \cup Contacts,
             excused' \subseteq Mails, requests' \in 0..MaxRequests, faults' \in 0..MaxFaults
      PROVE  Basics'
  BY <1>1, <1>r, <1>t DEF mailVars, Basics, TypeOK
<1>3. CASE IndexCustomer(k)
  <2> DEFINE c == job[k].rec
             j == [Free EXCEPT !.at = "match", !.rec = c]
  <2>1. c \in Customers /\ job[k].docs[c] \in 0..MaxVersion
    BY <1>1, <1>2, <1>3 DEF IndexCustomer
  <2>2. /\ UNCHANGED <<row, gone, contacts, requests, mailVars, caughtUp, excused>>
        /\ \/ index' = [index EXCEPT ![c] = job[k].docs[c]] /\ UNCHANGED <<blurred, faults>>
           \/ Fault /\ blurred' = blurred \cup {c} /\ UNCHANGED index
        /\ Go(k, j) \/ Go(k, Free)
    BY <1>3 DEF IndexCustomer
  <2>3. index' \in [Customers -> 0..MaxVersion] /\ blurred' \subseteq Customers /\ faults' \in 0..MaxFaults
    BY <1>1, <2>1, <2>2, Counts
  <2>4. j \in Request /\ j.at = "match" /\ j.rec = c
    <3> HIDE DEF c
    <3>1. "match" \in {"match", "unindex"}
      OBVIOUS
    <3> QED BY <2>1, <3>1, AtRecord
  <2> HIDE DEF j
  <2>5. job' \in [Clerks -> Request] /\ JobsKept'
    <3>1. CASE Go(k, j)
      BY <2>1, <2>4, <3>1, GoesOn DEF Basics, Rebuilding
    <3> QED BY <1>e, <2>2, <3>1
  <2> QED BY <1>1, <1>t, <2>2, <2>3, <2>5
<1>4. CASE DeleteFromIndex(k)
  <2> DEFINE c == job[k].rec
  <2>1. c \in Customers
    BY <1>2, <1>4 DEF DeleteFromIndex
  <2>2. /\ UNCHANGED <<row, gone, contacts, requests, mailVars, caughtUp, excused>> /\ Go(k, Free)
        /\ \/ index' = [index EXCEPT ![c] = 0] /\ UNCHANGED <<blurred, faults>>
           \/ Fault /\ blurred' = blurred \cup {c} /\ UNCHANGED index
    BY <1>4 DEF DeleteFromIndex
  <2>3. index' \in [Customers -> 0..MaxVersion] /\ blurred' \subseteq Customers /\ faults' \in 0..MaxFaults
    BY <1>1, <2>1, <2>2, Counts, RecordConstants
  <2> QED BY <1>1, <1>e, <1>t, <2>2, <2>3
<1>5. CASE BulkIndex(k)
  <2> DEFINE D == {c \in Customers : job[k].docs[c] > 0}
  <2>1. /\ UNCHANGED <<row, gone, contacts, requests, mailVars, caughtUp, excused>> /\ Go(k, Free)
        /\ \/ /\ index' = [c \in Customers |-> IF job[k].docs[c] > 0 THEN job[k].docs[c] ELSE index[c]]
              /\ UNCHANGED <<blurred, faults>>
           \/ Fault /\ blurred' = blurred \cup D /\ UNCHANGED index
    BY <1>5 DEF BulkIndex
  <2>2. index' \in [Customers -> 0..MaxVersion] /\ blurred' \subseteq Customers /\ faults' \in 0..MaxFaults
    BY <1>1, <2>1, Counts
  <2> QED BY <1>1, <1>e, <1>t, <2>1, <2>2
<1>6. CASE Match(k)
  <2> DEFINE j == [job[k] EXCEPT !.at = "link", !.matched = Matching(job[k].rec)]
             E == {m \in Mails \ kept : job[k].rec \in Alike[m] /\ InFlight(m)}
  <2>1. /\ UNCHANGED <<row, gone, contacts, requests, index, blurred, mailVars, caughtUp>>
        /\ \/ Go(k, j) /\ excused' = excused \cup E /\ UNCHANGED faults
           \/ Fault /\ Go(k, Free) /\ UNCHANGED excused
    BY <1>6 DEF Match
  <2>2. excused' \subseteq Mails /\ faults' \in 0..MaxFaults
    BY <1>1, <2>1, Counts
  <2>3. Matching(job[k].rec) \in SUBSET Mails
    BY <1>1 DEF Matching
  <2>4. j \in Request /\ j.at = "link" /\ j.rec = job[k].rec
    BY <1>1, <2>3, AtLink
  <2>5. job[k].rec \in Customers \cup Contacts
    BY <1>2, <1>6 DEF Match
  <2> HIDE DEF j
  <2>6. job' \in [Clerks -> Request] /\ JobsKept'
    <3>1. CASE Go(k, j)
      BY <2>4, <2>5, <3>1, GoesOn DEF Basics, Rebuilding
    <3> QED BY <1>e, <2>1, <3>1
  <2> QED BY <1>1, <1>t, <2>1, <2>2, <2>6
<1>7. CASE BackfillActivities(k)
  <2> DEFINE c == Holder(job[k].rec)
             T == job[k].matched
  <2>1. /\ UNCHANGED <<row, gone, contacts, requests, kept, index, ingest, seen, missed, excused, blurred, faults>>
        /\ Go(k, Free)
        /\ \/ /\ link' = [m \in Mails |-> IF m \in T THEN c ELSE link[m]]
              /\ shown' = [m \in Mails |-> IF m \in T /\ shown[m] = None THEN c ELSE shown[m]]
              /\ caughtUp' = caughtUp \cup {job[k].rec}
           \/ UNCHANGED <<link, shown, caughtUp>>
    BY <1>7 DEF BackfillActivities
  <2>2. job[k].rec \in Customers \cup Contacts
    BY <1>2, <1>7 DEF BackfillActivities
  <2>3. c \in Customers
    BY <2>2, RecordConstants DEF Holder
  <2> HIDE DEF c, T
  <2>4. /\ link' \in [Mails -> Customers \cup {None}] /\ shown' \in [Mails -> Customers \cup {None}]
        /\ caughtUp' \subseteq Customers \cup Contacts
    BY <1>1, <2>1, <2>2, <2>3
  <2> QED BY <1>1, <1>e, <1>r, <2>1, <2>4 DEF Basics, TypeOK
<1>8. CASE RecreateCustomerIndex(k)
  <2> DEFINE j == [Free EXCEPT !.at = "list"]
  <2>1. /\ UNCHANGED <<row, gone, contacts, mailVars, caughtUp, excused, faults>>
        /\ Begin(k) /\ ~Reindexing /\ Go(k, j)
        /\ index' = [c \in Customers |-> 0] /\ blurred' = UNION {Pending(job[i]) : i \in Clerks}
    BY <1>8 DEF RecreateCustomerIndex
  <2>2. index' \in [Customers -> 0..MaxVersion] /\ blurred' \subseteq Customers /\ requests' \in 0..MaxRequests
    BY <2>1, Counts, RecordConstants
  <2>3. j \in Request /\ j.at = "list"
    BY AtReindex
  <2> HIDE DEF j
  <2>4. job' \in [Clerks -> Request] /\ JobsKept'
    BY <2>1, <2>3, GoesOn DEF Basics
  <2> QED BY <1>1, <1>t, <2>1, <2>2, <2>4
<1>9. CASE ListAllCustomers(k)
  <2> DEFINE j == [Free EXCEPT !.at = "bulk", !.docs = row]
  <2>1. /\ UNCHANGED <<row, gone, contacts, requests, index, blurred, mailVars, caughtUp, excused, faults>>
        /\ job[k].at = "list" /\ Go(k, j)
    BY <1>9 DEF ListAllCustomers
  <2>2. j \in Request /\ j.at = "bulk"
    BY <1>1, AtReindex
  <2> HIDE DEF j
  <2>3. job' \in [Clerks -> Request] /\ JobsKept'
    BY <2>1, <2>2, GoesOn DEF Basics, Rebuilding
  <2> QED BY <1>1, <1>t, <2>1, <2>3
<1>10. CASE CutOff(k)
  <2>1. /\ UNCHANGED <<row, gone, contacts, requests, index, mailVars, caughtUp, excused>> /\ Fault /\ Go(k, Free)
        /\ blurred' = blurred \cup Pending(job[k])
                              \cup (IF job[k].at \in {"list", "bulk"} THEN Customers ELSE {})
    BY <1>10 DEF CutOff
  <2>2. blurred' \subseteq Customers /\ faults' \in 0..MaxFaults
    BY <1>1, <2>1, Counts
  <2> QED BY <1>1, <1>e, <1>t, <2>1, <2>2
<1> QED BY <1>3, <1>4, <1>5, <1>6, <1>7, <1>8, <1>9, <1>10

\* Contacts, and a backfill that is asked for.
LEMMA BasicsContact ==
    ASSUME Basics, FilingsKept,
           \/ \E k \in Clerks, t \in Contacts : CreateContact(k, t)
           \/ \E k \in Clerks, c \in Customers : BackfillMailboxTimeline(k, c)
           \/ \E t \in Contacts : DeleteContact(t)
           \/ \E b \in Books : DeleteBook(b)
    PROVE  Basics'
<1>1. ASSUME NEW k \in Clerks, NEW r \in Customers \cup Contacts, Go(k, [Free EXCEPT !.at = "match", !.rec = r])
      PROVE  job' \in [Clerks -> Request] /\ JobsKept'
  <2> DEFINE j == [Free EXCEPT !.at = "match", !.rec = r]
  <2>1. j \in Request /\ j.at = "match" /\ j.rec = r
    BY AtRecord
  <2>2. Go(k, j)
    BY <1>1
  <2> HIDE DEF j
  <2> QED BY <2>1, <2>2, GoesOn DEF Basics, Rebuilding
<1>2. job' = job => job' \in [Clerks -> Request] /\ JobsKept'
  BY DEF Basics, TypeOK, JobsKept
<1>3. ASSUME NEW k \in Clerks, NEW t \in Contacts, CreateContact(k, t)
      PROVE  Basics'
  <2>1. job' \in [Clerks -> Request] /\ JobsKept'
    BY <1>1, <1>2, <1>3 DEF CreateContact
  <2>2. Begin(k) /\ UNCHANGED <<row, gone, index, blurred, mailVars, caughtUp, excused, faults>>
        /\ contacts' = contacts \cup {t} /\ t \notin gone /\ Live(Owner[t])
    BY <1>3 DEF CreateContact
  <2>3. requests' \in 0..MaxRequests
    BY <2>2, Counts
  <2> QED BY <2>1, <2>2, <2>3 DEF mailVars, Basics, TypeOK, RowsGone, Live
<1>4. ASSUME NEW k \in Clerks, NEW c \in Customers, BackfillMailboxTimeline(k, c)
      PROVE  Basics'
  <2>1. job' \in [Clerks -> Request] /\ JobsKept'
    BY <1>1, <1>4 DEF BackfillMailboxTimeline
  <2>2. Begin(k) /\ UNCHANGED <<row, gone, contacts, index, blurred, mailVars, caughtUp, excused, faults>>
    BY <1>4 DEF BackfillMailboxTimeline
  <2>3. requests' \in 0..MaxRequests
    BY <2>2, Counts
  <2> QED BY <2>1, <2>2, <2>3 DEF mailVars, Basics, TypeOK, RowsGone, Live
<1>5. ASSUME NEW t \in Contacts, DeleteContact(t)
      PROVE  Basics'
  <2>1. UNCHANGED <<row, index, job, blurred, requests, mailVars, excused, faults>>
        /\ contacts' = contacts \ {t} /\ gone' = gone \cup {t} /\ caughtUp' = caughtUp \ {t} /\ t \notin Customers
    BY <1>5, RecordConstants DEF DeleteContact
  <2> QED BY <1>2, <2>1 DEF mailVars, Basics, TypeOK, RowsGone, Live
<1>6. ASSUME NEW b \in Books, DeleteBook(b)
      PROVE  Basics'
  <2> DEFINE cs == {c \in Customers : Book[c] = b}
  <2>1. Drop(cs) /\ job' = job /\ requests < MaxRequests /\ requests' = requests + 1
        /\ blurred' \subseteq blurred \cup cs
    BY <1>6 DEF DeleteBook
  <2>2. requests' \in 0..MaxRequests /\ blurred' \subseteq Customers
    BY <2>1, RecordConstants DEF Basics, TypeOK
  <2>3. cs \in SUBSET Customers
    OBVIOUS
  <2> HIDE DEF cs
  <2> QED BY <1>2, <2>1, <2>2, <2>3, BasicsDropped
<1> QED BY <1>3, <1>4, <1>5, <1>6

\* The sender that is found has a row.
LEMMA Found ==
    ASSUME Basics, NEW m \in Mails, NEW c \in FindCustomerByEmail(m)
    PROVE  c = None \/ (c \in Customers /\ Live(c))
<1> DEFINE byCustomer == {d \in Exact[m] \cap Customers : Live(d)}
           byContact  == {Owner[t] : t \in Exact[m] \cap contacts}
<1>1. c \in byCustomer \/ c \in byContact \/ c = None
  <2> HIDE DEF byCustomer, byContact
  <2> QED BY DEF FindCustomerByEmail, byCustomer, byContact
<1>2. contacts \subseteq Contacts /\ \A t \in contacts : Owner[t] \in Customers /\ Live(Owner[t])
  BY RecordConstants DEF Basics, TypeOK, RowsGone
<1> QED BY <1>1, <1>2

\* A pod files one mail.
LEMMA FilesOn ==
    ASSUME Basics, FilingsKept, NEW p \in Pods, Pod(p)
    PROVE  Basics' /\ FilingsKept'
<1>1. /\ ingest \in [Pods -> Filing] /\ ingest[p] \in Filing
      /\ job' = job => job' \in [Clerks -> Request] /\ JobsKept'
      /\ row' = row /\ gone' = gone /\ contacts' = contacts => RowsGone'
      /\ kept \subseteq Mails /\ seen \subseteq Pods \X Mails /\ excused \subseteq Mails
      /\ link \in [Mails -> Customers \cup {None}] /\ shown \in [Mails -> Customers \cup {None}]
  BY DEF Basics, TypeOK, JobsKept, RowsGone, Live
<1>2. Wait \in Filing /\ Wait.at = "idle" /\ Wait.who = None
  BY DEF Wait, Filing
<1>3. \A a \in {"dedup", "activity"} :
        LET j == [ingest[p] EXCEPT !.at = a]
        IN  j \in Filing /\ j.at = a /\ j.mail = ingest[p].mail /\ j.who = ingest[p].who
  BY <1>1 DEF Filing
<1>4. ASSUME NEW j \in Filing, Put(p, j), row' = row, excused \subseteq excused',
             j.at = "idle" => j.who = None,
             j.at # "idle" => j.mail \in Mails,
             j.at = "activity" => j.who # None,
             j.who # None /\ j.mail \notin excused' => Live(j.who)
      PROVE  ingest' \in [Pods -> Filing] /\ FilingsKept'
  <2>1. ingest' \in [Pods -> Filing] /\ ingest'[p] = j /\ \A q \in Pods \ {p} : ingest'[q] = ingest[q]
    BY <1>1, <1>4 DEF Put
  <2> HIDE DEF Filing
  <2> QED BY <1>4, <2>1 DEF FilingsKept, Live
<1>5. ASSUME Put(p, Wait), row' = row, excused \subseteq excused'
      PROVE  ingest' \in [Pods -> Filing] /\ FilingsKept'
  BY <1>2, <1>4, <1>5
<1>t. ASSUME UNCHANGED recordVars, ingest' \in [Pods -> Filing], kept' \subseteq Mails, caughtUp' = caughtUp,
             link' \in [Mails -> Customers \cup {None}], shown' \in [Mails -> Customers \cup {None}],
             seen' \subseteq Pods \X Mails, excused' \subseteq Mails, faults' \in 0..MaxFaults,
             missed' = missed \/ missed' \subseteq Mails \X (Customers \cup Contacts)
      PROVE  Basics'
  BY <1>1, <1>t DEF recordVars, Basics, TypeOK
<1>f. ASSUME faults' = faults \/ Fault
      PROVE  faults' \in 0..MaxFaults
  BY <1>f, Counts DEF Basics, TypeOK
<1>6. ASSUME NEW m \in Mails, ResolveCustomer(p, m)
      PROVE  Basics' /\ FilingsKept'
  <2>1. /\ UNCHANGED <<recordVars, kept, link, shown, caughtUp>> /\ seen' = seen \cup {<<p, m>>}
        /\ faults' = faults \/ Fault
        /\ excused' \in {excused, excused \cup {m}}
    BY <1>6 DEF ResolveCustomer
  <2>m. missed' \subseteq Mails \X (Customers \cup Contacts)
    <3>1. \A t \in Alike[m] : t \in Customers \cup Contacts
      BY RecordConstants
    <3>2. missed \subseteq Mails \X (Customers \cup Contacts)
      BY DEF Basics, TypeOK
    <3>3. missed' \subseteq missed \cup {<<m, t>> : t \in Alike[m]}
      BY <1>6 DEF ResolveCustomer
    <3> QED BY <3>1, <3>2, <3>3
  <2>2. PICK w : /\ Put(p, [at |-> "store", mail |-> m, who |-> w])
                 /\ w = None \/ (w \in Customers /\ Live(w))
    BY <1>6, Found DEF ResolveCustomer
  <2> DEFINE j == [at |-> "store", mail |-> m, who |-> w]
  <2>3. j \in Filing /\ j.at = "store" /\ j.mail = m /\ j.who = w
    BY <2>2 DEF Filing
  <2> HIDE DEF j
  <2>4. ingest' \in [Pods -> Filing] /\ FilingsKept'
    <3>1. Put(p, j) /\ row' = row /\ excused \subseteq excused'
      BY <2>1, <2>2 DEF j, recordVars
    <3> QED BY <1>4, <2>2, <2>3, <3>1
  <2> QED BY <1>1, <1>t, <1>f, <2>1, <2>4, <2>m
<1>7. ASSUME StoreMailboxMessage(p)
      PROVE  Basics' /\ FilingsKept'
  <2> DEFINE j == [ingest[p] EXCEPT !.at = "dedup"]
             m == ingest[p].mail
             w == ingest[p].who
  <2>1. /\ UNCHANGED <<recordVars, shown, seen, missed, caughtUp, excused>> /\ Put(p, j)
        /\ faults' = faults \/ Fault
        /\ \/ w \in Known /\ kept' = kept \cup {m} /\ link' = [link EXCEPT ![m] = w]
           \/ UNCHANGED <<kept, link>>
        /\ ingest[p].at = "store"
    BY <1>7 DEF StoreMailboxMessage
  <2>2. m \in Mails /\ (w # None /\ m \notin excused => Live(w))
    BY <2>1 DEF FilingsKept
  <2>3. kept' \subseteq Mails /\ link' \in [Mails -> Customers \cup {None}]
    BY <1>1, <2>1, <2>2 DEF Known
  <2>4. j \in Filing /\ j.at = "dedup" /\ j.mail = m /\ j.who = w
    BY <1>3
  <2> HIDE DEF j
  <2>5. ingest' \in [Pods -> Filing] /\ FilingsKept'
    BY <1>4, <2>1, <2>2, <2>4 DEF recordVars
  <2> QED BY <1>1, <1>t, <1>f, <2>1, <2>3, <2>5
<1>8. ASSUME GetActivityByMessageID(p)
      PROVE  Basics' /\ FilingsKept'
  <2> DEFINE j == [ingest[p] EXCEPT !.at = "activity"]
             m == ingest[p].mail
             w == ingest[p].who
  <2>1. /\ UNCHANGED <<recordVars, kept, link, shown, seen, missed, caughtUp>>
        /\ faults' = faults \/ Fault
        /\ excused' \in {excused, excused \cup {m}}
        /\ Put(p, Wait) \/ (Put(p, j) /\ w # None)
        /\ ingest[p].at = "dedup"
    BY <1>8 DEF GetActivityByMessageID
  <2>2. m \in Mails /\ (w # None /\ m \notin excused => Live(w))
    BY <2>1 DEF FilingsKept
  <2>3. j \in Filing /\ j.at = "activity" /\ j.mail = m /\ j.who = w
    BY <1>3
  <2> HIDE DEF j
  <2>4. ingest' \in [Pods -> Filing] /\ FilingsKept'
    BY <1>4, <1>5, <2>1, <2>2, <2>3 DEF recordVars
  <2> QED BY <1>1, <1>t, <1>f, <2>1, <2>2, <2>4
<1>9. ASSUME CreateActivity(p)
      PROVE  Basics' /\ FilingsKept'
  <2> DEFINE m == ingest[p].mail
             w == ingest[p].who
  <2>1. /\ UNCHANGED <<recordVars, kept, link, seen, missed, caughtUp>> /\ Put(p, Wait)
        /\ faults' = faults \/ Fault
        /\ excused' \in {excused, excused \cup {m}}
        /\ shown' \in {shown, [shown EXCEPT ![m] = w]}
        /\ ingest[p].at = "activity"
    BY <1>9 DEF CreateActivity
  <2>2. m \in Mails /\ w \in Customers \cup {None}
    BY <1>1, <2>1 DEF FilingsKept, Filing
  <2>3. shown' \in [Mails -> Customers \cup {None}]
    BY <1>1, <2>1, <2>2
  <2> QED BY <1>1, <1>5, <1>t, <1>f, <2>1, <2>2, <2>3 DEF recordVars
<1> QED BY <1>6, <1>7, <1>8, <1>9 DEF Pod

\* The steps, one by one.
LEMMA Steps ==
    ASSUME [Next]_vars
    PROVE  \/ \E k \in Clerks, c \in Customers :
                CreateCustomer(k, c) \/ ImportRow(k, c) \/ UpdateCustomer(k, c) \/ DeleteCustomer(k, c)
           \/ \E k \in Clerks : \/ IndexCustomer(k) \/ DeleteFromIndex(k) \/ BulkIndex(k) \/ Match(k)
                                \/ BackfillActivities(k) \/ RecreateCustomerIndex(k) \/ ListAllCustomers(k)
                                \/ CutOff(k)
           \/ \/ \E k \in Clerks, t \in Contacts : CreateContact(k, t)
              \/ \E k \in Clerks, c \in Customers : BackfillMailboxTimeline(k, c)
              \/ \E t \in Contacts : DeleteContact(t)
              \/ \E b \in Books : DeleteBook(b)
           \/ \E p \in Pods : Pod(p)
           \/ UNCHANGED vars
BY DEF Next, Clerk

\* Requests leave the work of the pods alone, and excuse the mails on their way to
\* a customer they delete.
LEMMA PodsWait ==
    ASSUME Basics, FilingsKept,
           \/ \E k \in Clerks, c \in Customers :
                CreateCustomer(k, c) \/ ImportRow(k, c) \/ UpdateCustomer(k, c) \/ DeleteCustomer(k, c)
           \/ \E k \in Clerks : \/ IndexCustomer(k) \/ DeleteFromIndex(k) \/ BulkIndex(k) \/ Match(k)
                                \/ BackfillActivities(k) \/ RecreateCustomerIndex(k) \/ ListAllCustomers(k)
                                \/ CutOff(k)
           \/ \/ \E k \in Clerks, t \in Contacts : CreateContact(k, t)
              \/ \E k \in Clerks, c \in Customers : BackfillMailboxTimeline(k, c)
              \/ \E t \in Contacts : DeleteContact(t)
              \/ \E b \in Books : DeleteBook(b)
    PROVE  kept' = kept /\ ingest' = ingest /\ excused \subseteq excused' /\ FilingsKept'
<1>1. row \in [Customers -> 0..MaxVersion]
  BY DEF Basics, TypeOK
<1>2. ASSUME kept' = kept, ingest' = ingest, excused \subseteq excused',
             \A d \in Customers : Live(d) => Live(d)'
      PROVE  kept' = kept /\ ingest' = ingest /\ excused \subseteq excused' /\ FilingsKept'
  <2>1. \A p \in Pods : ingest[p].who # None => ingest[p].who \in Customers
    BY DEF Basics, TypeOK, Filing
  <2> QED BY <1>2, <2>1 DEF FilingsKept
<1>3. ASSUME NEW k \in Clerks, NEW c \in Customers, CreateCustomer(k, c) \/ ImportRow(k, c) \/ UpdateCustomer(k, c)
      PROVE  kept' = kept /\ ingest' = ingest /\ excused \subseteq excused' /\ FilingsKept'
  <2>1. kept' = kept /\ ingest' = ingest /\ excused' = excused
    BY <1>3 DEF CreateCustomer, ImportRow, UpdateCustomer, mailVars
  <2>2. \A d \in Customers : Live(d) => Live(d)'
    <3>1. row' = [row EXCEPT ![c] = 1] \/ row' = [row EXCEPT ![c] = row[c] + 1]
      BY <1>3 DEF CreateCustomer, ImportRow, UpdateCustomer
    <3> QED BY <1>1, <3>1 DEF Live
  <2> QED BY <1>2, <2>1, <2>2
<1>d. ASSUME NEW cs \in SUBSET Customers, Drop(cs)
      PROVE  kept' = kept /\ ingest' = ingest /\ excused \subseteq excused' /\ FilingsKept'
  <2>1. /\ kept' = kept /\ ingest' = ingest /\ excused \subseteq excused'
        /\ row' = [c \in Customers |-> IF c \in cs THEN 0 ELSE row[c]]
        /\ {ingest[p].mail : p \in {q \in Pods : ingest[q].who \in cs}} \subseteq excused'
    BY <1>d DEF Drop
  <2>2. \A p \in Pods : ingest[p].who \in cs => ingest[p].mail \in excused'
    BY <2>1
  <2>3. \A d \in Customers \ cs : Live(d) => Live(d)'
    BY <1>1, <2>1 DEF Live
  <2>4. \A p \in Pods : ingest[p].who # None => ingest[p].who \in Customers
    BY DEF Basics, TypeOK, Filing
  <2> QED BY <2>1, <2>2, <2>3, <2>4 DEF FilingsKept
<1>4. ASSUME NEW k \in Clerks, NEW c \in Customers, DeleteCustomer(k, c)
      PROVE  kept' = kept /\ ingest' = ingest /\ excused \subseteq excused' /\ FilingsKept'
  BY <1>4, <1>d DEF DeleteCustomer
<1>b. ASSUME NEW b \in Books, DeleteBook(b)
      PROVE  kept' = kept /\ ingest' = ingest /\ excused \subseteq excused' /\ FilingsKept'
  <2>1. {c \in Customers : Book[c] = b} \in SUBSET Customers /\ Drop({c \in Customers : Book[c] = b})
    BY <1>b DEF DeleteBook
  <2> QED BY <1>d, <2>1
<1>5. ASSUME NEW k \in Clerks,
             \/ IndexCustomer(k) \/ DeleteFromIndex(k) \/ BulkIndex(k) \/ Match(k) \/ BackfillActivities(k)
             \/ RecreateCustomerIndex(k) \/ ListAllCustomers(k) \/ CutOff(k)
      PROVE  kept' = kept /\ ingest' = ingest /\ excused \subseteq excused' /\ FilingsKept'
  <2>1. row' = row /\ kept' = kept /\ ingest' = ingest
    BY <1>5 DEF IndexCustomer, DeleteFromIndex, BulkIndex, Match, BackfillActivities,
                RecreateCustomerIndex, ListAllCustomers, CutOff, mailVars
  <2>2. excused \subseteq excused'
    BY <1>5 DEF IndexCustomer, DeleteFromIndex, BulkIndex, Match, BackfillActivities,
                RecreateCustomerIndex, ListAllCustomers, CutOff
  <2> QED BY <1>2, <2>1, <2>2 DEF Live
<1>6. ASSUME \/ \E k \in Clerks, t \in Contacts : CreateContact(k, t)
             \/ \E k \in Clerks, c \in Customers : BackfillMailboxTimeline(k, c)
             \/ \E t \in Contacts : DeleteContact(t)
      PROVE  kept' = kept /\ ingest' = ingest /\ excused \subseteq excused' /\ FilingsKept'
  <2>1. row' = row /\ kept' = kept /\ ingest' = ingest /\ excused' = excused
    BY <1>6 DEF CreateContact, BackfillMailboxTimeline, DeleteContact, mailVars
  <2> QED BY <1>2, <2>1 DEF Live
<1> QED BY <1>3, <1>4, <1>5, <1>6, <1>b

\* The first parts of the invariant.
LEMMA BasicsStep ==
    ASSUME Basics, FilingsKept, [Next]_vars
    PROVE  Basics' /\ FilingsKept'
<1>1. CASE UNCHANGED vars
  <2>1. UNCHANGED <<row, gone, contacts, kept, link, shown, index, job, ingest, seen, missed, caughtUp, excused,
                    blurred, requests, faults>>
    BY <1>1 DEF vars
  <2>2. TypeOK'
    BY <2>1 DEF Basics, TypeOK
  <2>3. JobsKept' /\ RowsGone' /\ FilingsKept'
    BY <2>1 DEF Basics, JobsKept, RowsGone, FilingsKept, Live
  <2> QED BY <2>2, <2>3 DEF Basics
<1> QED BY <1>1, Steps, BasicsRow, BasicsRequest, BasicsContact, FilesOn, PodsWait

-----------------------------------------------------------------------------
(* The index. *)
\* What a step of k makes of c: the others stay.
LEMMA OneMoves ==
    ASSUME Basics, NEW k \in Clerks, NEW j \in Request, Go(k, j)
    PROVE  /\ job'[k] = j /\ \A i \in Clerks \ {k} : job'[i] = job[i]
           /\ Reindexing' <=> Rebuilding(j) \/ \E i \in Clerks \ {k} : Rebuilding(job[i])
<1>1. job \in [Clerks -> Request] /\ job' = [job EXCEPT ![k] = j]
  BY DEF Basics, TypeOK, Go
<1>2. job'[k] = j /\ \A i \in Clerks \ {k} : job'[i] = job[i]
  BY <1>1
<1>3. Reindexing' <=> \E i \in Clerks : Rebuilding(job'[i])
  BY DEF Reindexing, Rebuilding
<1> QED BY <1>2, <1>3

\* What a request waits to write, by the statement it is at.
LEMMA Awaits ==
    ASSUME NEW j \in Request, NEW c \in Customers
    PROVE  /\ j.at \in {"index", "reindex", "unindex"} => (c \in Pending(j) <=> c = j.rec)
           /\ j.at = "import" => (c \in Pending(j) <=> j.docs[c] > 0)
           /\ j.at \notin {"index", "reindex", "unindex", "import"} => c \notin Pending(j)
           /\ Rebuilding(j) => c \notin Pending(j)
BY DEF Pending, Rebuilding

\* A step that changes nothing about c.
LEMMA IndexStays ==
    ASSUME Basics, NEW c \in Customers, NEW k \in Clerks, NEW j \in Request, Go(k, j), Indexed(c),
           index'[c] = index[c], row'[c] = row[c],
           Rebuilding(j) <=> Rebuilding(job[k]),
           j.at = "bulk" => j.docs[c] = row[c],
           c \in Pending(j) <=> c \in Pending(job[k]),
           c \in Pending(j) => Writes(j, c) = Writes(job[k], c)
    PROVE  Indexed(c)'
<1>1. job'[k] = j /\ \A i \in Clerks \ {k} : job'[i] = job[i]
  BY OneMoves
<1>2. Reindexing' <=> Reindexing
  <2>1. Reindexing' <=> \E i \in Clerks : Rebuilding(job'[i])
    BY DEF Reindexing, Rebuilding
  <2>2. Reindexing <=> \E i \in Clerks : Rebuilding(job[i])
    BY DEF Reindexing, Rebuilding
  <2> QED BY <1>1, <2>1, <2>2
<1>3. \A i \in Clerks : c \in Pending(job'[i]) <=> c \in Pending(job[i])
  BY <1>1
<1>4. \A i \in Clerks : c \in Pending(job[i]) => Writes(job'[i], c) = Writes(job[i], c)
  BY <1>1
<1>5. \A i \in Clerks : job'[i].at = "bulk" /\ Indexed(c) /\ Reindexing => job'[i].docs[c] = row'[c]
  BY <1>1 DEF Indexed
<1> QED BY <1>2, <1>3, <1>4, <1>5 DEF Indexed

\* A request writes the row of c and is the only one at work on it.
LEMMA RowWritten ==
    ASSUME Basics, NEW c \in Customers, NEW k \in Clerks, NEW j \in Request, Go(k, j),
           Touch(k, c), c \notin blurred',
           ~Rebuilding(j), c \in Pending(j), Writes(j, c) = row'[c]
    PROVE  Indexed(c)'
<1>1. ~Reindexing /\ \A i \in Clerks \ {k} : c \notin Pending(job[i])
  BY DEF Touch
<1>2. /\ job'[k] = j /\ \A i \in Clerks \ {k} : job'[i] = job[i]
      /\ Reindexing' <=> Rebuilding(j) \/ \E i \in Clerks \ {k} : Rebuilding(job[i])
  BY OneMoves
<1>3. ~Reindexing'
  BY <1>1, <1>2 DEF Reindexing, Rebuilding
<1>4. \A i \in Clerks : c \in Pending(job'[i]) => i = k
  BY <1>1, <1>2
<1> QED BY <1>2, <1>3, <1>4 DEF Indexed

\* ... and writes the document it waited to write.
LEMMA DocumentWritten ==
    ASSUME Basics, NEW c \in Customers, NEW k \in Clerks, NEW j \in Request, Go(k, j), Indexed(c),
           c \in Pending(job[k]), c \notin Pending(j), ~Rebuilding(j),
           row'[c] = row[c], index'[c] = Writes(job[k], c)
    PROVE  Indexed(c)'
<1>1. /\ ~Reindexing /\ Writes(job[k], c) = row[c]
      /\ \A i \in Clerks : c \in Pending(job[i]) => i = k
  BY DEF Indexed
<1>2. /\ job'[k] = j /\ \A i \in Clerks \ {k} : job'[i] = job[i]
      /\ Reindexing' <=> Rebuilding(j) \/ \E i \in Clerks \ {k} : Rebuilding(job[i])
  BY OneMoves
<1>3. ~Reindexing'
  BY <1>1, <1>2 DEF Reindexing, Rebuilding
<1>4. \A i \in Clerks : c \notin Pending(job'[i])
  BY <1>1, <1>2
<1> QED BY <1>1, <1>3, <1>4 DEF Indexed

\* A free request waits for nothing.
LEMMA FreeWaits ==
    ASSUME NEW c \in Customers
    PROVE  ~Rebuilding(Free) /\ c \notin Pending(Free) /\ Free.at # "bulk"
BY FreeValues, Awaits DEF Rebuilding

\* Requests at the row of a customer keep the index.
LEMMA IndexAtRow ==
    ASSUME Basics, \A c \in Customers \ blurred : Indexed(c),
           NEW k \in Clerks, NEW d \in Customers,
           CreateCustomer(k, d) \/ ImportRow(k, d) \/ UpdateCustomer(k, d) \/ DeleteCustomer(k, d)
    PROVE  \A c \in Customers \ blurred' : Indexed(c)'
<1>1. /\ row \in [Customers -> 0..MaxVersion] /\ job[k] \in Request
      /\ job[k].at = "idle" => job[k] = Free
      /\ 1 \in 0..MaxVersion
  BY RecordConstants DEF Basics, TypeOK, JobsKept
\* What an action has to say: it writes j, which is about d only.
<1>2. ASSUME NEW j \in Request, Go(k, j), Touch(k, d), index' = index,
             \A c \in Customers \ {d} : /\ row'[c] = row[c]
                                        /\ c \in Pending(j) <=> c \in Pending(job[k])
                                        /\ c \in Pending(j) => Writes(j, c) = Writes(job[k], c),
             ~Rebuilding(j), ~Rebuilding(job[k]), d \in Pending(j), Writes(j, d) = row'[d]
      PROVE  \A c \in Customers \ blurred' : Indexed(c)'
  <2> SUFFICES ASSUME NEW c \in Customers \ blurred' PROVE Indexed(c)'
    OBVIOUS
  <2>1. CASE c = d
    BY <1>2, <2>1, RowWritten
  <2>2. CASE c # d
    <3>1. c \notin blurred
      BY <1>2 DEF Touch
    <3>2. j.at # "bulk"
      BY <1>2 DEF Rebuilding
    <3> QED BY <1>2, <2>2, <3>1, <3>2, IndexStays
  <2> QED BY <2>1, <2>2
<1>3. ASSUME NEW j \in Request, Go(k, j), Touch(k, d), index' = index, job[k].at = "idle",
             \A c \in Customers \ {d} : row'[c] = row[c],
             j.at \in {"index", "reindex", "unindex"}, j.rec = d, Writes(j, d) = row'[d]
      PROVE  \A c \in Customers \ blurred' : Indexed(c)'
  <2>1. \A c \in Customers \ {d} : c \notin Pending(j) /\ c \notin Pending(job[k])
    BY <1>1, <1>3, FreeWaits, Awaits
  <2>2. d \in Pending(j)
    BY <1>3, Awaits
  <2>3. ~Rebuilding(j) /\ ~Rebuilding(job[k])
    BY <1>3 DEF Rebuilding
  <2> QED BY <1>2, <1>3, <2>1, <2>2, <2>3
<1>4. CASE CreateCustomer(k, d)
  <2> DEFINE v == 1
             j == Carrying("index", d, Doc(d, v))
  <2>1. v \in 0..MaxVersion
    BY <1>1
  <2>2. /\ Begin(k) /\ row' = [row EXCEPT ![d] = v] /\ Touch(k, d) /\ index' = index /\ Go(k, j)
    BY <1>4 DEF CreateCustomer, Carrying
  <2> HIDE DEF v
  <2>3. /\ Doc(d, v) \in [Customers -> 0..MaxVersion] /\ Doc(d, v)[d] = v /\ "index" \in At
    BY <2>1, FreeValues DEF At
  <2>4. j \in Request /\ j.at = "index" /\ j.rec = d /\ j.docs = Doc(d, v)
    BY <2>3, AtDocument
  <2> HIDE DEF j
  <2>5. /\ Writes(j, d) = row'[d] /\ job[k].at = "idle" /\ \A c \in Customers \ {d} : row'[c] = row[c]
    BY <1>1, <2>2, <2>3, <2>4 DEF Writes, Begin
  <2> QED BY <1>3, <2>2, <2>4, <2>5
<1>5. CASE ImportRow(k, d)
  <2> DEFINE j == [job[k] EXCEPT !.at = "import", !.docs[d] = 1]
  <2>2. /\ job[k].at \in {"idle", "import"} /\ row' = [row EXCEPT ![d] = 1]
        /\ Touch(k, d) /\ index' = index /\ Go(k, j)
    BY <1>5 DEF ImportRow, Begin
  <2>3. /\ j \in Request /\ j.at = "import" /\ j.docs[d] = 1
        /\ \A c \in Customers \ {d} : j.docs[c] = job[k].docs[c]
    BY <1>1, AtImport
  <2> HIDE DEF j
  <2>4. /\ Writes(j, d) = row'[d] /\ \A c \in Customers \ {d} : row'[c] = row[c]
    BY <1>1, <2>2, <2>3 DEF Writes
  <2>5. /\ d \in Pending(j) /\ ~Rebuilding(j) /\ ~Rebuilding(job[k])
    BY <2>2, <2>3, Awaits DEF Rebuilding
  <2>6. \A c \in Customers \ {d} : /\ c \in Pending(j) <=> c \in Pending(job[k])
                                   /\ c \in Pending(j) => Writes(j, c) = Writes(job[k], c)
    <3> SUFFICES ASSUME NEW c \in Customers \ {d}
                 PROVE  /\ c \in Pending(j) <=> c \in Pending(job[k])
                        /\ c \in Pending(j) => Writes(j, c) = Writes(job[k], c)
      OBVIOUS
    <3>1. CASE job[k].at = "idle"
      <4>1. job[k] = Free /\ j.docs[c] = 0
        BY <1>1, <2>3, <3>1, FreeValues
      <4>2. c \notin Pending(j) /\ c \notin Pending(job[k])
        BY <2>3, <4>1, Awaits, FreeWaits
      <4> QED BY <4>2
    <3>2. CASE job[k].at = "import"
      BY <1>1, <2>3, <3>2, Awaits DEF Writes
    <3> QED BY <2>2, <3>1, <3>2
  <2> QED BY <1>2, <2>2, <2>3, <2>4, <2>5, <2>6
<1>6. CASE UpdateCustomer(k, d)
  <2> DEFINE v == row[d] + 1
             j == Carrying("reindex", d, Doc(d, v))
  <2>1. v \in 0..MaxVersion
    <3>1. row[d] < MaxVersion
      BY <1>6 DEF UpdateCustomer
    <3> QED BY <1>1, <3>1, NextVersion
  <2>2. /\ Begin(k) /\ row' = [row EXCEPT ![d] = v] /\ Touch(k, d) /\ index' = index /\ Go(k, j)
    BY <1>6 DEF UpdateCustomer, Carrying
  <2> HIDE DEF v
  <2>3. /\ Doc(d, v) \in [Customers -> 0..MaxVersion] /\ Doc(d, v)[d] = v /\ "reindex" \in At
    BY <2>1, FreeValues DEF At
  <2>4. j \in Request /\ j.at = "reindex" /\ j.rec = d /\ j.docs = Doc(d, v)
    BY <2>3, AtDocument
  <2> HIDE DEF j
  <2>5. /\ Writes(j, d) = row'[d] /\ job[k].at = "idle" /\ \A c \in Customers \ {d} : row'[c] = row[c]
    BY <1>1, <2>2, <2>3, <2>4 DEF Writes, Begin
  <2> QED BY <1>3, <2>2, <2>4, <2>5
<1>7. CASE DeleteCustomer(k, d)
  <2> DEFINE j == [Free EXCEPT !.at = "unindex", !.rec = d]
  <2>2. /\ Begin(k) /\ row' = [c \in Customers |-> IF c \in {d} THEN 0 ELSE row[c]]
        /\ Touch(k, d) /\ index' = index /\ Go(k, j)
    BY <1>7 DEF DeleteCustomer, Drop
  <2>4. j \in Request /\ j.at = "unindex" /\ j.rec = d
    BY AtRecord
  <2> HIDE DEF j
  <2>5. /\ Writes(j, d) = row'[d] /\ job[k].at = "idle" /\ \A c \in Customers \ {d} : row'[c] = row[c]
    BY <1>1, <2>2, <2>4 DEF Writes, Begin
  <2> QED BY <1>3, <2>2, <2>4, <2>5
<1> QED BY <1>4, <1>5, <1>6, <1>7

\* Requests that write the index, or go on to the mails.
LEMMA IndexAtRequest ==
    ASSUME Basics, \A c \in Customers \ blurred : Indexed(c), NEW k \in Clerks,
           \/ IndexCustomer(k) \/ DeleteFromIndex(k) \/ BulkIndex(k) \/ Match(k) \/ BackfillActivities(k)
           \/ RecreateCustomerIndex(k) \/ ListAllCustomers(k) \/ CutOff(k)
    PROVE  \A c \in Customers \ blurred' : Indexed(c)'
<1> SUFFICES ASSUME NEW c \in Customers \ blurred' PROVE Indexed(c)'
  OBVIOUS
<1>1. /\ row \in [Customers -> 0..MaxVersion] /\ index \in [Customers -> 0..MaxVersion]
      /\ job[k] \in Request /\ job[k].docs \in [Customers -> 0..MaxVersion] /\ Free \in Request
      /\ job[k].at \in {"index", "reindex", "unindex"} => job[k].rec \in Customers
  BY FreeValues DEF Basics, TypeOK, JobsKept, Request
<1>2. ~Rebuilding(Free) /\ c \notin Pending(Free) /\ Free.at # "bulk"
  BY FreeWaits
\* A request that leaves c alone, and one that writes its document.
<1>3. ASSUME NEW j \in Request, Go(k, j), c \notin blurred, index'[c] = index[c], row' = row,
             c \notin Pending(job[k]), c \notin Pending(j), ~Rebuilding(j), ~Rebuilding(job[k])
      PROVE  Indexed(c)'
  BY <1>3, IndexStays DEF Rebuilding
<1>4. ASSUME NEW j \in Request, Go(k, j), c \notin blurred, row' = row, c \in Pending(job[k]),
             c \notin Pending(j), ~Rebuilding(j), index'[c] = Writes(job[k], c)
      PROVE  Indexed(c)'
  BY <1>4, DocumentWritten
<1>5. CASE IndexCustomer(k)
  <2> DEFINE d == job[k].rec
             f == [Free EXCEPT !.at = "match", !.rec = d]
  <2>1. /\ row' = row /\ job[k].at \in {"index", "reindex"}
        /\ \/ index' = [index EXCEPT ![d] = job[k].docs[d]] /\ UNCHANGED blurred
           \/ blurred' = blurred \cup {d} /\ UNCHANGED index
        /\ Go(k, f) \/ Go(k, Free)
    BY <1>5 DEF IndexCustomer
  <2>2. d \in Customers
    BY <1>1, <2>1
  <2> HIDE DEF d
  <2>3. f \in Request /\ f.at = "match"
    BY <2>2, AtRecord
  <2> HIDE DEF f
  <2>4. PICK j \in Request : Go(k, j) /\ c \notin Pending(j) /\ ~Rebuilding(j)
    BY <1>1, <1>2, <2>1, <2>3, Awaits DEF Rebuilding
  <2>5. c \notin blurred /\ ~Rebuilding(job[k]) /\ (c \in Pending(job[k]) <=> c = d)
    BY <1>1, <2>1, Awaits DEF Rebuilding, d
  <2>6. CASE c = d
    <3>1. index'[c] = job[k].docs[c]
      BY <1>1, <2>1, <2>6
    <3>2. index'[c] = Writes(job[k], c)
      BY <2>1, <3>1 DEF Writes
    <3> QED BY <1>4, <2>1, <2>4, <2>5, <2>6, <3>2
  <2>7. CASE c # d
    <3>1. index'[c] = index[c]
      BY <1>1, <2>1, <2>7
    <3> QED BY <1>3, <2>1, <2>4, <2>5, <2>7, <3>1
  <2> QED BY <2>6, <2>7
<1>6. CASE DeleteFromIndex(k)
  <2> DEFINE d == job[k].rec
  <2>1. /\ row' = row /\ job[k].at = "unindex" /\ Go(k, Free)
        /\ \/ index' = [index EXCEPT ![d] = 0] /\ UNCHANGED blurred
           \/ blurred' = blurred \cup {d} /\ UNCHANGED index
    BY <1>6 DEF DeleteFromIndex
  <2>2. d \in Customers
    BY <1>1, <2>1
  <2>5. c \notin blurred /\ ~Rebuilding(job[k]) /\ (c \in Pending(job[k]) <=> c = d)
    BY <1>1, <2>1, Awaits DEF Rebuilding
  <2> HIDE DEF d
  <2>6. CASE c = d
    <3>1. index'[c] = 0
      BY <1>1, <2>1, <2>6
    <3>2. index'[c] = Writes(job[k], c)
      BY <2>1, <3>1 DEF Writes
    <3> QED BY <1>1, <1>2, <1>4, <2>1, <2>5, <2>6, <3>2
  <2>7. CASE c # d
    <3>1. index'[c] = index[c]
      BY <1>1, <2>1, <2>7
    <3> QED BY <1>1, <1>2, <1>3, <2>1, <2>5, <2>7, <3>1
  <2> QED BY <2>6, <2>7
<1>7. CASE BulkIndex(k)
  <2> DEFINE D == {e \in Customers : job[k].docs[e] > 0}
             new == IF job[k].docs[c] > 0 THEN job[k].docs[c] ELSE index[c]
  <2>1. /\ row' = row /\ job[k].at \in {"import", "bulk"} /\ Go(k, Free)
        /\ \/ /\ index' = [e \in Customers |-> IF job[k].docs[e] > 0 THEN job[k].docs[e] ELSE index[e]]
              /\ UNCHANGED blurred
           \/ blurred' = blurred \cup D /\ UNCHANGED index
    BY <1>7 DEF BulkIndex
  <2>2. c \notin blurred /\ index'[c] = new
    BY <1>1, <2>1
  <2>3. job[k].docs[c] \in Nat /\ index[c] \in Nat /\ row[c] \in Nat
    BY <1>1
  <2>4. CASE job[k].at = "import"
    <3>1. ~Rebuilding(job[k]) /\ (c \in Pending(job[k]) <=> job[k].docs[c] > 0)
      BY <1>1, <2>4, Awaits DEF Rebuilding
    <3>2. CASE job[k].docs[c] > 0
      <4>1. index'[c] = Writes(job[k], c)
        BY <2>2, <2>4, <3>2 DEF Writes
      <4> QED BY <1>1, <1>2, <1>4, <2>1, <2>2, <3>1, <3>2, <4>1
    <3>3. CASE ~(job[k].docs[c] > 0)
      <4>1. index'[c] = index[c]
        BY <2>2, <3>3
      <4> QED BY <1>1, <1>2, <1>3, <2>1, <2>2, <3>1, <3>3, <4>1
    <3> QED BY <3>2, <3>3
  <2>5. CASE job[k].at = "bulk"
    <3>1. Rebuilding(job[k]) /\ Reindexing
      BY <2>5 DEF Rebuilding, Reindexing
    <3>2. /\ index[c] = 0 /\ job[k].docs[c] = row[c]
          /\ \A i \in Clerks : c \notin Pending(job[i])
      BY <2>2, <2>5, <3>1 DEF Indexed
    <3>3. index'[c] = row'[c]
      BY <2>1, <2>2, <2>3, <3>2
    <3>4. /\ job'[k] = Free /\ \A i \in Clerks \ {k} : job'[i] = job[i]
          /\ Reindexing' <=> Rebuilding(Free) \/ \E i \in Clerks \ {k} : Rebuilding(job[i])
      BY <1>1, <2>1, OneMoves
    <3>5. ~Reindexing'
      BY <1>2, <3>1, <3>4 DEF Basics, JobsKept
    <3>6. \A i \in Clerks : c \notin Pending(job'[i])
      BY <1>2, <3>2, <3>4
    <3> QED BY <3>3, <3>5, <3>6 DEF Indexed
  <2> QED BY <2>1, <2>4, <2>5
<1>8. CASE Match(k)
  <2> DEFINE j == [job[k] EXCEPT !.at = "link", !.matched = Matching(job[k].rec)]
  <2>1. /\ UNCHANGED <<row, index, blurred>> /\ job[k].at = "match"
        /\ Go(k, j) \/ Go(k, Free)
    BY <1>8 DEF Match
  <2>2. Matching(job[k].rec) \in SUBSET Mails
    BY DEF Matching, Basics, TypeOK
  <2>3. j \in Request /\ j.at = "link"
    BY <1>1, <2>2, AtLink
  <2> HIDE DEF j
  <2>4. PICK i \in Request : Go(k, i) /\ c \notin Pending(i) /\ ~Rebuilding(i)
    BY <1>1, <1>2, <2>1, <2>3, Awaits DEF Rebuilding
  <2>5. c \notin Pending(job[k]) /\ ~Rebuilding(job[k])
    BY <1>1, <2>1, Awaits DEF Rebuilding
  <2> QED BY <1>3, <2>1, <2>4, <2>5
<1>9. CASE BackfillActivities(k)
  <2>1. /\ UNCHANGED <<row, index, blurred>> /\ job[k].at = "link" /\ Go(k, Free)
    BY <1>9 DEF BackfillActivities
  <2>2. c \notin Pending(job[k]) /\ ~Rebuilding(job[k])
    BY <1>1, <2>1, Awaits DEF Rebuilding
  <2> QED BY <1>1, <1>2, <1>3, <2>1, <2>2
<1>10. CASE RecreateCustomerIndex(k)
  <2> DEFINE j == [Free EXCEPT !.at = "list"]
  <2>1. /\ row' = row /\ index' = [e \in Customers |-> 0] /\ ~Reindexing /\ Go(k, j)
        /\ blurred' = UNION {Pending(job[i]) : i \in Clerks}
    BY <1>10 DEF RecreateCustomerIndex
  <2>2. j \in Request /\ j.at = "list"
    BY AtReindex
  <2> HIDE DEF j
  <2>3. \A i \in Clerks : c \notin Pending(job[i])
    BY <2>1
  <2>4. /\ job'[k] = j /\ \A i \in Clerks \ {k} : job'[i] = job[i]
        /\ Reindexing' <=> Rebuilding(j) \/ \E i \in Clerks \ {k} : Rebuilding(job[i])
    BY <2>1, <2>2, OneMoves
  <2>5. Reindexing' /\ index'[c] = 0
    BY <2>1, <2>2, <2>4 DEF Rebuilding
  <2>6. \A i \in Clerks : c \notin Pending(job'[i]) /\ job'[i].at # "bulk"
    BY <2>1, <2>2, <2>3, <2>4, Awaits DEF Reindexing
  <2> QED BY <2>5, <2>6 DEF Indexed
<1>11. CASE ListAllCustomers(k)
  <2> DEFINE j == [Free EXCEPT !.at = "bulk", !.docs = row]
  <2>1. /\ UNCHANGED <<row, index, blurred>> /\ job[k].at = "list" /\ Go(k, j)
    BY <1>11 DEF ListAllCustomers
  <2>2. j \in Request /\ j.at = "bulk" /\ j.docs = row
    BY <1>1, AtReindex
  <2> HIDE DEF j
  <2>3. Rebuilding(job[k]) /\ Rebuilding(j) /\ c \notin Pending(j) /\ c \notin Pending(job[k])
    BY <1>1, <2>1, <2>2, Awaits DEF Rebuilding
  <2> QED BY <2>1, <2>2, <2>3, IndexStays
<1>12. CASE CutOff(k)
  <2>1. /\ UNCHANGED <<row, index>> /\ Go(k, Free)
        /\ blurred' = blurred \cup Pending(job[k])
                              \cup (IF job[k].at \in {"list", "bulk"} THEN Customers ELSE {})
    BY <1>12 DEF CutOff
  <2>2. c \notin blurred /\ c \notin Pending(job[k]) /\ ~Rebuilding(job[k])
    BY <2>1 DEF Rebuilding
  <2> QED BY <1>1, <1>2, <1>3, <2>1, <2>2
<1> QED BY <1>5, <1>6, <1>7, <1>8, <1>9, <1>10, <1>11, <1>12

\* Contacts and mails are not in the index.
LEMMA IndexElsewhere ==
    ASSUME Basics, \A c \in Customers \ blurred : Indexed(c),
           \/ \E k \in Clerks, t \in Contacts : CreateContact(k, t)
           \/ \E k \in Clerks, c \in Customers : BackfillMailboxTimeline(k, c)
           \/ \E t \in Contacts : DeleteContact(t)
           \/ \E b \in Books : DeleteBook(b)
           \/ \E p \in Pods : Pod(p)
           \/ UNCHANGED vars
    PROVE  \A c \in Customers \ blurred' : Indexed(c)'
<1>1. ASSUME UNCHANGED <<row, index, blurred>>, NEW k \in Clerks, job[k].at = "idle",
             NEW r \in Customers \cup Contacts, Go(k, [Free EXCEPT !.at = "match", !.rec = r]),
             NEW c \in Customers \ blurred'
      PROVE  Indexed(c)'
  <2> DEFINE j == [Free EXCEPT !.at = "match", !.rec = r]
  <2>1. j \in Request /\ j.at = "match" /\ Go(k, j)
    BY <1>1, AtRecord
  <2> HIDE DEF j
  <2>2. job[k] = Free /\ ~Rebuilding(job[k]) /\ c \notin Pending(job[k])
    BY <1>1, FreeWaits DEF Basics, JobsKept
  <2>3. ~Rebuilding(j) /\ c \notin Pending(j)
    BY <2>1, Awaits DEF Rebuilding
  <2> QED BY <1>1, <2>1, <2>2, <2>3, IndexStays
<1>2. ASSUME UNCHANGED <<row, index, blurred, job>>, NEW c \in Customers \ blurred'
      PROVE  Indexed(c)'
  BY <1>2 DEF Indexed, Reindexing
<1>3. ASSUME NEW k \in Clerks, NEW t \in Contacts, CreateContact(k, t)
      PROVE  \A c \in Customers \ blurred' : Indexed(c)'
  <2>1. /\ UNCHANGED <<row, index, blurred>> /\ job[k].at = "idle"
        /\ job' = job \/ Go(k, [Free EXCEPT !.at = "match", !.rec = t])
    BY <1>3 DEF CreateContact, Begin
  <2> QED BY <1>1, <1>2, <2>1
<1>4. ASSUME NEW k \in Clerks, NEW d \in Customers, BackfillMailboxTimeline(k, d)
      PROVE  \A c \in Customers \ blurred' : Indexed(c)'
  <2>1. /\ UNCHANGED <<row, index, blurred>> /\ job[k].at = "idle"
        /\ Go(k, [Free EXCEPT !.at = "match", !.rec = d])
    BY <1>4 DEF BackfillMailboxTimeline, Begin
  <2> QED BY <1>1, <2>1
<1>5. ASSUME \/ \E t \in Contacts : DeleteContact(t)
             \/ \E p \in Pods : Pod(p)
             \/ UNCHANGED vars
      PROVE  UNCHANGED <<row, index, blurred, job>>
  BY <1>5 DEF DeleteContact, Pod, ResolveCustomer, StoreMailboxMessage, GetActivityByMessageID,
              CreateActivity, recordVars, vars
<1>6. ASSUME NEW b \in Books, DeleteBook(b)
      PROVE  \A c \in Customers \ blurred' : Indexed(c)'
  <2> SUFFICES ASSUME NEW c \in Customers \ blurred' PROVE Indexed(c)'
    OBVIOUS
  <2> DEFINE cs == {d \in Customers : Book[d] = b}
  <2>1. /\ blurred' = blurred \cup {d \in cs : Live(d)} /\ UNCHANGED <<job, index>>
        /\ row' = [d \in Customers |-> IF d \in cs THEN 0 ELSE row[d]]
    BY <1>6 DEF DeleteBook, Drop
  <2>2. c \notin blurred /\ (c \in cs => ~Live(c))
    BY <2>1
  <2>3. row[c] \in 0..MaxVersion
    BY DEF Basics, TypeOK
  <2>4. row'[c] = row[c]
    BY <2>1, <2>2, <2>3, RecordConstants DEF Live
  <2> QED BY <2>1, <2>2, <2>4 DEF Indexed, Reindexing
<1> QED BY <1>2, <1>3, <1>4, <1>5, <1>6

-----------------------------------------------------------------------------
(* Customers and contacts that are looked for are registered or gone for good. *)
Registered == \A r \in Customers \cup Contacts : LookedFor(r) => Present(r) \/ Lost(r)

\* A customer that is created or updated has a document to write.
LEMMA Carries ==
    ASSUME Basics, NEW k \in Clerks, NEW c \in Customers, CreateCustomer(k, c) \/ UpdateCustomer(k, c)
    PROVE  \E j \in Request : Go(k, j) /\ j.at \in {"index", "reindex"} /\ j.rec = c
<1>1. PICK v \in 0..MaxVersion, a \in {"index", "reindex"} : Go(k, Carrying(a, c, Doc(c, v)))
  <2>1. CASE CreateCustomer(k, c)
    <3>1. 1 \in 0..MaxVersion
      BY RecordConstants
    <3> QED BY <2>1, <3>1 DEF CreateCustomer, Carrying
  <2>2. CASE UpdateCustomer(k, c)
    <3>1. row[c] < MaxVersion
      BY <2>2 DEF UpdateCustomer
    <3>2. row[c] + 1 \in 0..MaxVersion
      BY <3>1, NextVersion DEF Basics, TypeOK
    <3> QED BY <2>2, <3>2 DEF UpdateCustomer, Carrying
  <2> QED BY <2>1, <2>2
<1>2. a \in At /\ Doc(c, v) \in [Customers -> 0..MaxVersion]
  BY FreeValues DEF At
<1>3. LET j == Carrying(a, c, Doc(c, v)) IN j \in Request /\ j.at = a /\ j.rec = c
  BY <1>2, AtDocument
<1> QED BY <1>1, <1>3

\* Whoever is new was not looked for, and whoever is gone is lost.
LEMMA RegisteredStep ==
    ASSUME Basics, Registered, [Next]_vars
    PROVE  /\ Registered'
           /\ \A r \in Customers \cup Contacts : LookedFor(r) /\ Present(r)' => Present(r)
<1>1. /\ row \in [Customers -> 0..MaxVersion] /\ job \in [Clerks -> Request] /\ contacts \subseteq Contacts
      /\ Customers \cap Contacts = {} /\ \A t \in Contacts : Owner[t] \in Customers
      /\ \A k \in Clerks : job[k] \in Request
      /\ \A k \in Clerks : job[k].at = "idle" => job[k] = Free
  BY RecordConstants DEF Basics, TypeOK, JobsKept
\* What a step has to say.
<1>2. ASSUME \A r \in Customers \cup Contacts : Lost(r) => Lost(r)',
             \A r \in Customers \cup Contacts : Present(r) /\ ~Present(r)' => Lost(r)',
             \A r \in Customers \cup Contacts : LookedFor(r)' => LookedFor(r) \/ Present(r)',
             \A r \in Customers \cup Contacts : ~Present(r) /\ Present(r)' => ~Lost(r)
      PROVE  /\ Registered'
             /\ \A r \in Customers \cup Contacts : LookedFor(r) /\ Present(r)' => Present(r)
  BY <1>2 DEF Registered
\* A request that was free, or goes on with the same record.
<1>3. ASSUME NEW k \in Clerks, NEW j \in Request, Go(k, j), caughtUp' = caughtUp,
             NEW r \in Customers \cup Contacts, LookedFor(r)',
             j.at \in {"index", "match", "link"} /\ j.rec = r
               => Present(r)' \/ (job[k].at \in {"index", "match", "link"} /\ job[k].rec = r)
      PROVE  LookedFor(r) \/ Present(r)'
  <2>1. job'[k] = j /\ \A i \in Clerks \ {k} : job'[i] = job[i]
    BY <1>3, OneMoves
  <2>2. CASE r \in caughtUp
    BY <2>2 DEF LookedFor
  <2>3. ASSUME NEW i \in Clerks, job'[i].at \in {"index", "match", "link"}, job'[i].rec = r
        PROVE  LookedFor(r) \/ Present(r)'
    BY <1>3, <2>1, <2>3 DEF LookedFor
  <2>4. r \in caughtUp \/ \E i \in Clerks : job'[i].at \in {"index", "match", "link"} /\ job'[i].rec = r
    BY <1>3 DEF LookedFor
  <2> QED BY <2>2, <2>3, <2>4
<1>f. Free \in Request /\ Free.at = "idle"
  BY FreeValues
\* Rows and contacts as they are.
<1>4. ASSUME UNCHANGED <<row, gone, contacts>>,
             \A r \in Customers \cup Contacts : LookedFor(r)' => LookedFor(r) \/ Present(r)'
      PROVE  /\ Registered'
             /\ \A r \in Customers \cup Contacts : LookedFor(r) /\ Present(r)' => Present(r)
  BY <1>2, <1>4 DEF Lost, Holder, Present, Live
\* A row that is written, and one more request.
<1>5. ASSUME NEW d \in Customers, UNCHANGED <<gone, contacts, caughtUp>>, d \notin gone,
             \A c \in Customers \ {d} : row'[c] = row[c], row'[d] > 0,
             NEW k \in Clerks, NEW j \in Request, Go(k, j),
             j.at \in {"index", "match", "link"} => j.rec = d
      PROVE  /\ Registered'
             /\ \A r \in Customers \cup Contacts : LookedFor(r) /\ Present(r)' => Present(r)
  <2>1. \A r \in Customers \cup Contacts : Lost(r) => Lost(r)'
    BY <1>5 DEF Lost, Holder
  <2>2. \A r \in Customers \cup Contacts : Present(r) => Present(r)'
    BY <1>5 DEF Present, Live
  <2>3. Present(d)'
    BY <1>1, <1>5 DEF Present, Live
  <2>4. \A r \in Customers \cup Contacts : LookedFor(r)' => LookedFor(r) \/ Present(r)'
    BY <1>3, <1>5, <2>3
  <2>5. \A r \in Customers \cup Contacts : ~Present(r) /\ Present(r)' => ~Lost(r)
    BY <1>1, <1>5 DEF Present, Live, Lost, Holder
  <2> QED BY <1>2, <2>1, <2>2, <2>4, <2>5
<1>7. CASE \E k \in Clerks, d \in Customers : CreateCustomer(k, d) \/ UpdateCustomer(k, d)
  <2>1. PICK k \in Clerks, d \in Customers : CreateCustomer(k, d) \/ UpdateCustomer(k, d)
    BY <1>7
  <2>2. PICK j \in Request : Go(k, j) /\ j.at \in {"index", "reindex"} /\ j.rec = d
    BY <2>1, Carries
  <2>3. /\ UNCHANGED <<gone, contacts, caughtUp>>
        /\ row' = [row EXCEPT ![d] = 1] \/ row' = [row EXCEPT ![d] = row[d] + 1]
        /\ d \notin gone \/ Live(d)
    BY <2>1 DEF CreateCustomer, UpdateCustomer
  <2>4. d \notin gone
    BY <2>3 DEF Basics, RowsGone
  <2>5. row'[d] > 0 /\ \A c \in Customers \ {d} : row'[c] = row[c]
    BY <1>1, <2>3
  <2> QED BY <1>5, <2>2, <2>3, <2>4, <2>5
<1>8. CASE \E k \in Clerks, d \in Customers : ImportRow(k, d)
  <2>1. PICK k \in Clerks, d \in Customers : ImportRow(k, d)
    BY <1>8
  <2> DEFINE j == [job[k] EXCEPT !.at = "import", !.docs[d] = 1]
  <2>2. j \in Request /\ j.at = "import"
    BY <1>1, AtImport
  <2>3. UNCHANGED <<gone, contacts, caughtUp>> /\ row' = [row EXCEPT ![d] = 1] /\ d \notin gone /\ Go(k, j)
    BY <2>1 DEF ImportRow
  <2> HIDE DEF j
  <2>4. row'[d] > 0 /\ \A c \in Customers \ {d} : row'[c] = row[c]
    BY <1>1, <2>3
  <2> QED BY <1>5, <2>2, <2>3, <2>4
\* Rows that go.
<1>d. ASSUME NEW cs \in SUBSET Customers, Drop(cs),
             \A r \in Customers \cup Contacts : LookedFor(r)' => LookedFor(r) \/ Present(r)'
      PROVE  /\ Registered'
             /\ \A r \in Customers \cup Contacts : LookedFor(r) /\ Present(r)' => Present(r)
  <2>1. /\ row' = [c \in Customers |-> IF c \in cs THEN 0 ELSE row[c]] /\ gone' = gone \cup cs
        /\ contacts' = {t \in contacts : Owner[t] \notin cs}
    BY <1>d DEF Drop
  <2>2. \A c \in Customers : row'[c] = IF c \in cs THEN 0 ELSE row[c]
    BY <2>1
  <2>3. \A r \in Customers \cup Contacts : Lost(r) => Lost(r)'
    BY <2>1 DEF Lost, Holder
  <2>4. \A r \in Customers \cup Contacts : Present(r) /\ ~Present(r)' => Lost(r)'
    BY <1>1, <2>1, <2>2 DEF Lost, Holder, Present, Live
  <2>5. \A r \in Customers \cup Contacts : Present(r)' => Present(r)
    BY <1>1, <2>1, <2>2 DEF Present, Live
  <2> QED BY <1>2, <1>d, <2>3, <2>4, <2>5
<1>9. CASE \E k \in Clerks, d \in Customers : DeleteCustomer(k, d)
  <2>1. PICK k \in Clerks, d \in Customers : DeleteCustomer(k, d)
    BY <1>9
  <2> DEFINE j == [Free EXCEPT !.at = "unindex", !.rec = d]
  <2>2. j \in Request /\ j.at = "unindex"
    BY AtRecord
  <2>3. Drop({d}) /\ Go(k, j)
    BY <2>1 DEF DeleteCustomer
  <2> HIDE DEF j
  <2>4. caughtUp' = caughtUp
    BY <2>3 DEF Drop
  <2>5. \A r \in Customers \cup Contacts : LookedFor(r)' => LookedFor(r) \/ Present(r)'
    BY <1>3, <2>2, <2>3, <2>4
  <2> QED BY <1>d, <2>3, <2>5
<1>b. CASE \E b \in Books : DeleteBook(b)
  <2>1. PICK b \in Books : DeleteBook(b)
    BY <1>b
  <2>2. {c \in Customers : Book[c] = b} \in SUBSET Customers /\ Drop({c \in Customers : Book[c] = b})
    BY <2>1 DEF DeleteBook
  <2>3. job' = job /\ caughtUp' = caughtUp
    BY <2>1 DEF DeleteBook, Drop
  <2>4. \A r \in Customers \cup Contacts : LookedFor(r)' => LookedFor(r)
    BY <2>3 DEF LookedFor
  <2> QED BY <1>d, <2>2, <2>4
<1>10. CASE \E k \in Clerks : \/ IndexCustomer(k) \/ DeleteFromIndex(k) \/ BulkIndex(k) \/ Match(k)
                              \/ RecreateCustomerIndex(k) \/ ListAllCustomers(k) \/ CutOff(k)
  <2>1. PICK k \in Clerks : \/ IndexCustomer(k) \/ DeleteFromIndex(k) \/ BulkIndex(k) \/ Match(k)
                            \/ RecreateCustomerIndex(k) \/ ListAllCustomers(k) \/ CutOff(k)
    BY <1>10
  <2>2. UNCHANGED <<row, gone, contacts, caughtUp>>
    BY <2>1 DEF IndexCustomer, DeleteFromIndex, BulkIndex, Match, RecreateCustomerIndex, ListAllCustomers,
                CutOff
  <2>3. PICK j \in Request :
          Go(k, j) /\ (j.at \in {"index", "match", "link"}
                         => job[k].at \in {"index", "match", "link"} /\ j.rec = job[k].rec)
    <3>1. CASE IndexCustomer(k)
      <4> DEFINE f == [Free EXCEPT !.at = "match", !.rec = job[k].rec]
      <4>1. /\ job[k].at \in {"index", "reindex"}
            /\ Go(k, IF job[k].at = "index" THEN f ELSE Free)
        BY <3>1 DEF IndexCustomer
      <4>2. job[k].rec \in Customers
        BY <4>1 DEF Basics, JobsKept
      <4>3. f \in Request /\ f.at = "match" /\ f.rec = job[k].rec
        BY <4>2, AtRecord
      <4> HIDE DEF f
      <4> QED BY <1>f, <4>1, <4>3
    <3>2. CASE Match(k)
      <4> DEFINE f == [job[k] EXCEPT !.at = "link", !.matched = Matching(job[k].rec)]
      <4>1. job[k].at = "match" /\ (Go(k, f) \/ Go(k, Free))
        BY <3>2 DEF Match
      <4>2. Matching(job[k].rec) \in SUBSET Mails
        BY DEF Matching, Basics, TypeOK
      <4>3. f \in Request /\ f.at = "link" /\ f.rec = job[k].rec
        BY <1>1, <4>2, AtLink
      <4> HIDE DEF f
      <4> QED BY <1>f, <4>1, <4>3
    <3>3. CASE RecreateCustomerIndex(k)
      BY <3>3, AtReindex DEF RecreateCustomerIndex
    <3>4. CASE ListAllCustomers(k)
      BY <1>1, <3>4, AtReindex DEF ListAllCustomers
    <3>5. CASE DeleteFromIndex(k) \/ BulkIndex(k) \/ CutOff(k)
      <4>1. Go(k, Free)
        BY <3>5 DEF DeleteFromIndex, BulkIndex, CutOff
      <4> QED BY <1>f, <4>1
    <3> QED BY <2>1, <3>1, <3>2, <3>3, <3>4, <3>5
  <2>4. \A r \in Customers \cup Contacts : LookedFor(r)' => LookedFor(r) \/ Present(r)'
    BY <1>3, <2>2, <2>3
  <2> QED BY <1>4, <2>2, <2>4
<1>11. CASE \E k \in Clerks : BackfillActivities(k)
  <2>1. PICK k \in Clerks : BackfillActivities(k)
    BY <1>11
  <2>2. /\ UNCHANGED <<row, gone, contacts>> /\ job[k].at = "link" /\ Go(k, Free)
        /\ caughtUp' = caughtUp \cup {job[k].rec} \/ caughtUp' = caughtUp
    BY <2>1 DEF BackfillActivities
  <2>3. job'[k] = Free /\ \A i \in Clerks \ {k} : job'[i] = job[i]
    BY <1>f, <2>2, OneMoves
  <2>4. \A r \in Customers \cup Contacts : LookedFor(r)' => LookedFor(r)
    BY <1>f, <2>2, <2>3 DEF LookedFor
  <2> QED BY <1>4, <2>2, <2>4
<1>12. CASE \E k \in Clerks, t \in Contacts : CreateContact(k, t)
  <2>1. PICK k \in Clerks, t \in Contacts : CreateContact(k, t)
    BY <1>12
  <2> DEFINE f == [Free EXCEPT !.at = "match", !.rec = t]
  <2>2. /\ UNCHANGED <<row, gone, caughtUp>> /\ contacts' = contacts \cup {t} /\ t \notin gone /\ Live(Owner[t])
        /\ job' = job \/ Go(k, f)
    BY <2>1 DEF CreateContact
  <2>3. f \in Request /\ f.rec = t
    BY AtRecord
  <2> HIDE DEF f
  <2>4. Present(t)' /\ \A r \in Customers \cup Contacts : Present(r) => Present(r)'
    BY <2>2 DEF Present, Live
  <2>5. \A r \in Customers \cup Contacts : LookedFor(r)' => LookedFor(r) \/ Present(r)'
    <3>1. job' = job => \A r \in Customers \cup Contacts : LookedFor(r)' => LookedFor(r)
      BY <2>2 DEF LookedFor
    <3>2. Go(k, f) => \A r \in Customers \cup Contacts : LookedFor(r)' => LookedFor(r) \/ Present(r)'
      BY <1>3, <2>2, <2>3, <2>4
    <3> QED BY <2>2, <3>1, <3>2
  <2>6. \A r \in Customers \cup Contacts : Lost(r) => Lost(r)'
    BY <2>2 DEF Lost, Holder
  <2>7. \A r \in Customers \cup Contacts : ~Present(r) /\ Present(r)' => ~Lost(r)
    <3>1. Owner[t] \notin gone
      BY <1>1, <2>2 DEF Basics, RowsGone
    <3> QED BY <1>1, <2>2, <3>1 DEF Present, Live, Lost, Holder
  <2> QED BY <1>2, <2>4, <2>5, <2>6, <2>7
<1>13. CASE \E k \in Clerks, c \in Customers : BackfillMailboxTimeline(k, c)
  <2>1. PICK k \in Clerks, c \in Customers : BackfillMailboxTimeline(k, c)
    BY <1>13
  <2> DEFINE f == [Free EXCEPT !.at = "match", !.rec = c]
  <2>2. UNCHANGED <<row, gone, contacts, caughtUp>> /\ Live(c) /\ Go(k, f)
    BY <2>1 DEF BackfillMailboxTimeline
  <2>3. f \in Request /\ f.rec = c
    BY AtRecord
  <2> HIDE DEF f
  <2>4. Present(c)'
    BY <1>1, <2>2 DEF Present, Live
  <2>5. \A r \in Customers \cup Contacts : LookedFor(r)' => LookedFor(r) \/ Present(r)'
    BY <1>3, <2>2, <2>3, <2>4
  <2> QED BY <1>4, <2>2, <2>5
<1>14. CASE \E t \in Contacts : DeleteContact(t)
  <2>1. PICK t \in Contacts : DeleteContact(t)
    BY <1>14
  <2>2. /\ UNCHANGED <<row, job>> /\ contacts' = contacts \ {t} /\ gone' = gone \cup {t}
        /\ caughtUp' \subseteq caughtUp
    BY <2>1 DEF DeleteContact
  <2>3. \A r \in Customers \cup Contacts : /\ LookedFor(r)' => LookedFor(r)
                                           /\ Lost(r) => Lost(r)'
    BY <2>2 DEF LookedFor, Lost, Holder
  <2>4. \A r \in Customers \cup Contacts : /\ Present(r)' => Present(r)
                                           /\ Present(r) /\ ~Present(r)' => Lost(r)'
    BY <2>2 DEF Present, Live, Lost
  <2> QED BY <1>2, <2>3, <2>4
<1>15. CASE (\E p \in Pods : Pod(p)) \/ UNCHANGED vars
  <2>1. UNCHANGED <<row, gone, contacts, job, caughtUp>>
    BY <1>15 DEF Pod, ResolveCustomer, StoreMailboxMessage, GetActivityByMessageID, CreateActivity,
                 recordVars, vars
  <2> QED BY <1>4, <2>1 DEF LookedFor
<1> QED BY <1>7, <1>8, <1>9, <1>b, <1>10, <1>11, <1>12, <1>13, <1>14, <1>15, Steps

-----------------------------------------------------------------------------
(* The mails. *)
\* Nothing new is asked for.
LEMMA MailsStay ==
    ASSUME MailsKept, kept' = kept, ingest' = ingest, missed' = missed, excused \subseteq excused',
           \A m \in kept \ excused' : link'[m] = link[m] /\ shown'[m] = shown[m],
           \A m \in Mails : \A r \in Alike[m] : r \in caughtUp' /\ Present(r)' => r \in caughtUp /\ Present(r),
           \A k \in Clerks, m \in Mails : \A r \in Alike[m] : Listing(k, r)' /\ Present(r)' =>
             Listing(k, r) /\ Present(r) /\ job'[k].matched = job[k].matched,
           TypeOK, FilingsKept
    PROVE  MailsKept'
<1>1. \A m \in kept \ excused' : Served(m)' <=> Served(m)
  BY DEF Served
<1>2. kept \subseteq Mails /\ \A p \in Pods : ingest[p].at = "store" => ingest[p].mail \in Mails
  BY DEF TypeOK, FilingsKept
<1>3. \A m \in Mails : /\ Promised(m)' = Promised(m) /\ Promised(m) \subseteq Alike[m]
                       /\ \A r \in Promised(m) : Sought(r)' => Sought(r)
  BY DEF Sought, Promised
<1>4. ASSUME NEW m \in kept \ excused'
      PROVE  /\ link'[m] # None => Served(m)'
             /\ \A r \in Promised(m)' : Present(r)' =>
                   /\ r \in caughtUp' => Served(m)'
                   /\ \A k \in Clerks : Listing(k, r)' => m \in job'[k].matched \/ Served(m)'
  BY <1>1, <1>2, <1>3, <1>4 DEF MailsKept
<1>5. ASSUME NEW p \in Pods, ingest'[p].at = "store", ingest'[p].who = None
      PROVE  ingest'[p].mail \in kept' \cup excused' \/ \A r \in Promised(ingest[p].mail)' : ~Sought(r)'
  BY <1>2, <1>3, <1>5 DEF MailsKept
<1> QED BY <1>4, <1>5 DEF MailsKept

\* Requests that link no mail.
LEMMA MailsAtRequest ==
    ASSUME Basics, FilingsKept, MailsKept, NEW k \in Clerks, NEW j \in Request, Go(k, j), j.at # "link",
           UNCHANGED <<kept, ingest, missed>>, excused \subseteq excused', caughtUp' = caughtUp,
           \A m \in kept \ excused' : link'[m] = link[m] /\ shown'[m] = shown[m],
           \A r \in Customers \cup Contacts : LookedFor(r) /\ Present(r)' => Present(r)
    PROVE  MailsKept'
<1>1. job'[k] = j /\ \A i \in Clerks \ {k} : job'[i] = job[i]
  BY OneMoves
<1>2. \A m \in Mails : Alike[m] \subseteq Customers \cup Contacts
  BY RecordConstants
<1>3. \A i \in Clerks : \A r : Listing(i, r)' => Listing(i, r) /\ job'[i].matched = job[i].matched
  BY <1>1 DEF Listing
<1>4. ASSUME NEW i \in Clerks, NEW r, Listing(i, r)
      PROVE  LookedFor(r)
  BY <1>4 DEF Listing, LookedFor
<1>5. \A r \in caughtUp : LookedFor(r)
  BY DEF LookedFor
<1>6. \A m \in Mails : \A r \in Alike[m] : r \in caughtUp' /\ Present(r)' => r \in caughtUp /\ Present(r)
  BY <1>2, <1>5
<1>7. \A i \in Clerks, m \in Mails : \A r \in Alike[m] : Listing(i, r)' /\ Present(r)' =>
        Listing(i, r) /\ Present(r) /\ job'[i].matched = job[i].matched
  BY <1>2, <1>3, <1>4
<1> QED BY <1>6, <1>7, MailsStay DEF Basics

\* The list of the mails of r.
LEMMA MailsMatched ==
    ASSUME Basics, FilingsKept, MailsKept, NEW k \in Clerks, Match(k)
    PROVE  MailsKept'
<1> DEFINE r == job[k].rec
           j == [job[k] EXCEPT !.at = "link", !.matched = Matching(r)]
           E == {m \in Mails \ kept : r \in Alike[m] /\ InFlight(m)}
<1>1. /\ UNCHANGED <<row, contacts, kept, link, shown, ingest, missed, caughtUp>>
      /\ \/ Go(k, j) /\ excused' = excused \cup E
         \/ Go(k, Free) /\ UNCHANGED excused
  BY DEF Match, mailVars
<1>2. CASE Go(k, j) /\ excused' = excused \cup E
  <2>1. job[k] \in Request /\ Matching(r) \in SUBSET Mails /\ kept \subseteq Mails
    BY DEF Basics, TypeOK, Matching
  <2>2. j \in Request /\ j.at = "link" /\ j.rec = r /\ j.matched = Matching(r)
    BY <2>1, AtLink
  <2> HIDE DEF j
  <2>3. job'[k] = j /\ \A i \in Clerks \ {k} : job'[i] = job[i]
    BY <1>2, <2>2, OneMoves
  <2>4. \A m : /\ Served(m)' <=> Served(m)
               /\ Promised(m)' = Promised(m) /\ Promised(m) \subseteq Alike[m]
    BY <1>1 DEF Served, Promised
  <2>5. \A s : Present(s)' <=> Present(s)
    BY <1>1 DEF Present, Live
  <2>6. \A i \in Clerks \ {k} : \A s : /\ Listing(i, s)' <=> Listing(i, s)
                                        /\ job'[i].matched = job[i].matched
    BY <2>3 DEF Listing
  <2>7. \A s : Listing(k, s)' => s = r
    BY <2>2, <2>3 DEF Listing
  <2> HIDE DEF r
  <2>8. ASSUME NEW m \in kept' \ excused'
        PROVE  /\ link'[m] # None => Served(m)'
               /\ \A s \in Promised(m)' : Present(s)' =>
                     /\ s \in caughtUp' => Served(m)'
                     /\ \A i \in Clerks : Listing(i, s)' => m \in job'[i].matched \/ Served(m)'
    <3>1. m \in kept \ excused
      BY <1>1, <1>2, <2>8
    <3>2. r \in Promised(m) => m \in job'[k].matched \/ Served(m)
      BY <2>2, <2>3, <2>4, <3>1 DEF Matching, MailsKept
    <3>3. ASSUME NEW s \in Promised(m), Present(s), NEW i \in Clerks, Listing(i, s)'
          PROVE  m \in job'[i].matched \/ Served(m)
      <4>1. CASE i = k
        BY <2>7, <3>2, <3>3, <4>1
      <4>2. CASE i # k
        BY <2>6, <3>1, <3>3, <4>2 DEF MailsKept
      <4> QED BY <4>1, <4>2
    <3> QED BY <1>1, <2>4, <2>5, <3>1, <3>3 DEF MailsKept
  <2>9. ASSUME NEW p \in Pods, ingest'[p].at = "store", ingest'[p].who = None
        PROVE  ingest'[p].mail \in kept' \cup excused' \/ \A s \in Promised(ingest[p].mail)' : ~Sought(s)'
    <3> DEFINE m == ingest[p].mail
    <3>1. ingest[p].at = "store" /\ ingest[p].who = None /\ m \in Mails /\ InFlight(m)
      BY <1>1, <2>9 DEF FilingsKept, InFlight
    <3>2. m \in kept \cup excused \/ \A s \in Promised(m) : ~Sought(s)
      BY <3>1 DEF MailsKept
    <3>3. r \in Promised(m) => m \in kept \cup excused'
      BY <1>2, <2>4, <3>1
    <3>4. \A s : Sought(s)' => Sought(s) \/ s = r
      BY <1>1, <2>5, <2>6, <2>7 DEF Sought
    <3> HIDE DEF m
    <3>5. m \in kept \cup excused' \/ \A s \in Promised(m) : ~Sought(s)'
      BY <1>2, <3>2, <3>3, <3>4
    <3> QED BY <1>1, <2>4, <3>5 DEF m
  <2> QED BY <2>8, <2>9 DEF MailsKept
<1>3. CASE Go(k, Free) /\ UNCHANGED excused
  <2>1. Free \in Request /\ Free.at # "link"
    BY FreeValues
  <2>2. \A s : Present(s)' <=> Present(s)
    BY <1>1 DEF Present, Live
  <2> QED BY <1>1, <1>3, <2>1, <2>2, MailsAtRequest
<1> QED BY <1>1, <1>2, <1>3

\* The mails of the list are linked, and those on no timeline are filed.
LEMMA MailsLinked ==
    ASSUME Basics, FilingsKept, MailsKept, NEW k \in Clerks, BackfillActivities(k)
    PROVE  MailsKept'
<1> DEFINE r == job[k].rec
           c == Holder(r)
           T == job[k].matched
<1>1. /\ UNCHANGED <<row, contacts, kept, ingest, missed, excused>> /\ job[k].at = "link" /\ Go(k, Free)
      /\ \/ /\ Present(r) /\ Live(c)
            /\ link' = [m \in Mails |-> IF m \in T THEN c ELSE link[m]]
            /\ shown' = [m \in Mails |-> IF m \in T /\ shown[m] = None THEN c ELSE shown[m]]
            /\ caughtUp' = caughtUp \cup {r}
         \/ UNCHANGED <<link, shown, caughtUp>>
  BY DEF BackfillActivities
<1>2. Free \in Request /\ Free.at # "link" /\ kept \subseteq Mails
  BY FreeValues DEF Basics, TypeOK
<1>3. job'[k] = Free /\ \A i \in Clerks \ {k} : job'[i] = job[i]
  BY <1>1, <1>2, OneMoves
<1>4. \A s : Present(s)' <=> Present(s)
  BY <1>1 DEF Present, Live
<1>5. CASE UNCHANGED <<link, shown, caughtUp>>
  BY <1>1, <1>2, <1>4, <1>5, MailsAtRequest
<1>6. CASE /\ Present(r) /\ Live(c)
           /\ link' = [m \in Mails |-> IF m \in T THEN c ELSE link[m]]
           /\ shown' = [m \in Mails |-> IF m \in T /\ shown[m] = None THEN c ELSE shown[m]]
           /\ caughtUp' = caughtUp \cup {r}
  <2>1. c \in Customers /\ c # None
    BY <1>1, RecordConstants DEF Basics, JobsKept, Holder
  <2>2. Listing(k, r)
    BY <1>1 DEF Listing
  <2> HIDE DEF r, c, T
  <2>3. \A m \in Mails : (Served(m) => Served(m)') /\ (m \in T => Served(m)')
    BY <1>1, <1>6, <2>1 DEF Served
  <2>4. \A i \in Clerks : \A s : Listing(i, s)' => Listing(i, s) /\ job'[i].matched = job[i].matched
    BY <1>2, <1>3 DEF Listing
  <2>5. ASSUME NEW m \in kept' \ excused'
        PROVE  /\ link'[m] # None => Served(m)'
               /\ \A s \in Promised(m)' : Present(s)' =>
                     /\ s \in caughtUp' => Served(m)'
                     /\ \A i \in Clerks : Listing(i, s)' => m \in job'[i].matched \/ Served(m)'
    <3>1. m \in kept \ excused /\ m \in Mails
      BY <1>1, <1>2, <2>5
    <3>2. link'[m] # None => m \in T \/ link[m] # None
      BY <1>6, <3>1
    <3>3. link'[m] # None => Served(m)'
      BY <2>3, <3>1, <3>2 DEF MailsKept
    <3>4. ASSUME NEW s \in Promised(m), Present(s), s \in caughtUp'
          PROVE  Served(m)'
      <4>1. CASE s = r
        BY <1>6, <2>2, <2>3, <3>1, <3>4, <4>1 DEF MailsKept, T
      <4>2. CASE s # r
        BY <1>6, <2>3, <3>1, <3>4, <4>2 DEF MailsKept
      <4> QED BY <4>1, <4>2
    <3>5. ASSUME NEW s \in Promised(m), Present(s), NEW i \in Clerks, Listing(i, s)'
          PROVE  m \in job'[i].matched \/ Served(m)'
      BY <2>3, <2>4, <3>1, <3>5 DEF MailsKept
    <3>6. Promised(m)' = Promised(m)
      BY <1>1 DEF Promised
    <3> QED BY <1>4, <3>3, <3>4, <3>5, <3>6
  <2>6. \A s : Sought(s)' => Sought(s)
    BY <1>4, <1>6, <2>2, <2>4 DEF Sought
  <2>7. \A m : Promised(m)' = Promised(m)
    BY <1>1 DEF Promised
  <2> QED BY <1>1, <2>5, <2>6, <2>7 DEF MailsKept
<1> QED BY <1>1, <1>5, <1>6

\* The other requests.
LEMMA MailsElsewhere ==
    ASSUME Basics, FilingsKept, MailsKept,
           \A r \in Customers \cup Contacts : LookedFor(r) /\ Present(r)' => Present(r),
           \/ \E k \in Clerks, c \in Customers :
                CreateCustomer(k, c) \/ ImportRow(k, c) \/ UpdateCustomer(k, c) \/ DeleteCustomer(k, c)
           \/ \E k \in Clerks : \/ IndexCustomer(k) \/ DeleteFromIndex(k) \/ BulkIndex(k)
                                \/ RecreateCustomerIndex(k) \/ ListAllCustomers(k) \/ CutOff(k)
           \/ \/ \E k \in Clerks, t \in Contacts : CreateContact(k, t)
              \/ \E k \in Clerks, c \in Customers : BackfillMailboxTimeline(k, c)
              \/ \E t \in Contacts : DeleteContact(t)
              \/ \E b \in Books : DeleteBook(b)
    PROVE  MailsKept'
<1>1. /\ row \in [Customers -> 0..MaxVersion] /\ \A k \in Clerks : job[k] \in Request
      /\ link \in [Mails -> Customers \cup {None}] /\ shown \in [Mails -> Customers \cup {None}]
      /\ kept \subseteq Mails
  BY DEF Basics, TypeOK
<1>2. Free \in Request /\ Free.at # "link"
  BY FreeValues
<1>3. ASSUME NEW k \in Clerks, NEW j \in Request, Go(k, j), j.at # "link",
             UNCHANGED <<mailVars, caughtUp, excused>>
      PROVE  MailsKept'
  BY <1>3, MailsAtRequest DEF mailVars
<1>4. ASSUME NEW k \in Clerks, NEW c \in Customers, CreateCustomer(k, c) \/ UpdateCustomer(k, c)
      PROVE  MailsKept'
  <2>1. PICK j \in Request : Go(k, j) /\ j.at \in {"index", "reindex"}
    BY <1>4, Carries
  <2>2. UNCHANGED <<mailVars, caughtUp, excused>>
    BY <1>4 DEF CreateCustomer, UpdateCustomer
  <2> QED BY <1>3, <2>1, <2>2
<1>5. ASSUME NEW k \in Clerks, NEW c \in Customers, ImportRow(k, c)
      PROVE  MailsKept'
  <2> DEFINE j == [job[k] EXCEPT !.at = "import", !.docs[c] = 1]
  <2>1. j \in Request /\ j.at = "import"
    BY <1>1, AtImport
  <2>2. UNCHANGED <<mailVars, caughtUp, excused>> /\ Go(k, j)
    BY <1>5 DEF ImportRow
  <2> HIDE DEF j
  <2> QED BY <1>3, <2>1, <2>2
<1>d. ASSUME NEW cs \in SUBSET Customers, Drop(cs)
      PROVE  \A m \in kept \ excused' : link'[m] = link[m] /\ shown'[m] = shown[m]
  <2>1. /\ link' = [m \in Mails |-> IF link[m] \in cs THEN None ELSE link[m]]
        /\ shown' = [m \in Mails |-> IF shown[m] \in cs THEN None ELSE shown[m]]
        /\ {m \in Mails : link[m] \in cs \/ shown[m] \in cs} \subseteq excused'
    BY <1>d DEF Drop
  <2> QED BY <1>1, <2>1
<1>6. ASSUME NEW k \in Clerks, NEW c \in Customers, DeleteCustomer(k, c)
      PROVE  MailsKept'
  <2> DEFINE j == [Free EXCEPT !.at = "unindex", !.rec = c]
  <2>1. j \in Request /\ j.at = "unindex"
    BY AtRecord
  <2>2. Drop({c}) /\ Go(k, j)
    BY <1>6 DEF DeleteCustomer
  <2> HIDE DEF j
  <2>3. UNCHANGED <<kept, ingest, missed, caughtUp>> /\ excused \subseteq excused'
    BY <2>2 DEF Drop
  <2> QED BY <1>d, <2>1, <2>2, <2>3, MailsAtRequest
<1>b. ASSUME NEW b \in Books, DeleteBook(b)
      PROVE  MailsKept'
  <2>1. {c \in Customers : Book[c] = b} \in SUBSET Customers /\ Drop({c \in Customers : Book[c] = b}) /\ job' = job
    BY <1>b DEF DeleteBook
  <2>2. UNCHANGED <<kept, ingest, missed, caughtUp>> /\ excused \subseteq excused'
    BY <2>1 DEF Drop
  <2>3. \A m \in Mails : Alike[m] \subseteq Customers \cup Contacts
    BY RecordConstants
  <2>4. \A m \in Mails : \A r \in Alike[m] : r \in caughtUp' /\ Present(r)' => r \in caughtUp /\ Present(r)
    BY <2>2, <2>3 DEF LookedFor
  <2>5. \A k \in Clerks, m \in Mails : \A r \in Alike[m] : Listing(k, r)' /\ Present(r)' =>
          Listing(k, r) /\ Present(r) /\ job'[k].matched = job[k].matched
    BY <2>1, <2>3 DEF Listing, LookedFor
  <2> QED BY <1>d, <2>1, <2>2, <2>4, <2>5, MailsStay DEF Basics
<1>7. ASSUME NEW k \in Clerks, IndexCustomer(k)
      PROVE  MailsKept'
  <2> DEFINE f == [Free EXCEPT !.at = "match", !.rec = job[k].rec]
  <2>1. /\ job[k].at \in {"index", "reindex"} /\ UNCHANGED <<mailVars, caughtUp, excused>>
        /\ Go(k, f) \/ Go(k, Free)
    BY <1>7 DEF IndexCustomer
  <2>2. job[k].rec \in Customers
    BY <2>1 DEF Basics, JobsKept
  <2>3. f \in Request /\ f.at = "match"
    BY <2>2, AtRecord
  <2> HIDE DEF f
  <2> QED BY <1>2, <1>3, <2>1, <2>3
<1>8. ASSUME NEW k \in Clerks, DeleteFromIndex(k) \/ BulkIndex(k) \/ CutOff(k)
      PROVE  MailsKept'
  <2>1. UNCHANGED <<mailVars, caughtUp, excused>> /\ Go(k, Free)
    BY <1>8 DEF DeleteFromIndex, BulkIndex, CutOff
  <2> QED BY <1>2, <1>3, <2>1
<1>9. ASSUME NEW k \in Clerks, RecreateCustomerIndex(k) \/ ListAllCustomers(k)
      PROVE  MailsKept'
  <2>1. UNCHANGED <<mailVars, caughtUp, excused>>
    BY <1>9 DEF RecreateCustomerIndex, ListAllCustomers
  <2>2. \E j \in Request : Go(k, j) /\ j.at \in {"list", "bulk"}
    BY <1>1, <1>9, AtReindex DEF RecreateCustomerIndex, ListAllCustomers
  <2> QED BY <1>3, <2>1, <2>2
<1>10. ASSUME NEW k \in Clerks, NEW r \in Customers \cup Contacts, UNCHANGED <<mailVars, caughtUp, excused>>,
              Go(k, [Free EXCEPT !.at = "match", !.rec = r])
       PROVE  MailsKept'
  <2> DEFINE f == [Free EXCEPT !.at = "match", !.rec = r]
  <2>1. f \in Request /\ f.at = "match" /\ Go(k, f)
    BY <1>10, AtRecord
  <2> HIDE DEF f
  <2> QED BY <1>3, <1>10, <2>1
<1>11. ASSUME UNCHANGED <<mailVars, job, excused>>, caughtUp' \subseteq caughtUp
       PROVE  MailsKept'
  <2>1. \A m \in Mails : Alike[m] \subseteq Customers \cup Contacts
    BY RecordConstants
  <2>2. \A m \in Mails : \A r \in Alike[m] : r \in caughtUp' /\ Present(r)' => r \in caughtUp /\ Present(r)
    BY <1>11, <2>1 DEF LookedFor
  <2>3. \A k \in Clerks, m \in Mails : \A r \in Alike[m] : Listing(k, r)' /\ Present(r)' =>
          Listing(k, r) /\ Present(r) /\ job'[k].matched = job[k].matched
    BY <1>11, <2>1 DEF Listing, LookedFor
  <2> QED BY <1>11, <2>2, <2>3, MailsStay DEF mailVars, Basics
<1>12. ASSUME NEW k \in Clerks, NEW t \in Contacts, CreateContact(k, t)
       PROVE  MailsKept'
  <2>1. /\ UNCHANGED <<mailVars, caughtUp, excused>>
        /\ job' = job \/ Go(k, [Free EXCEPT !.at = "match", !.rec = t])
    BY <1>12 DEF CreateContact
  <2> QED BY <1>10, <1>11, <2>1
<1>13. ASSUME NEW k \in Clerks, NEW c \in Customers, BackfillMailboxTimeline(k, c)
       PROVE  MailsKept'
  <2>1. UNCHANGED <<mailVars, caughtUp, excused>> /\ Go(k, [Free EXCEPT !.at = "match", !.rec = c])
    BY <1>13 DEF BackfillMailboxTimeline
  <2> QED BY <1>10, <2>1
<1>14. ASSUME NEW t \in Contacts, DeleteContact(t)
       PROVE  MailsKept'
  <2>1. UNCHANGED <<mailVars, job, excused>> /\ caughtUp' \subseteq caughtUp
    BY <1>14 DEF DeleteContact
  <2> QED BY <1>11, <2>1
<1> QED BY <1>4, <1>5, <1>6, <1>7, <1>8, <1>9, <1>12, <1>13, <1>14, <1>b

\* A pod that finds no sender shows there is none.
LEMMA NobodyFound ==
    ASSUME Basics, NEW m \in Mails, None \in FindCustomerByEmail(m)
    PROVE  \A r \in Exact[m] : ~Present(r)
<1> DEFINE byCustomer == {c \in Exact[m] \cap Customers : Live(c)}
           byContact  == {Owner[t] : t \in Exact[m] \cap contacts}
<1>1. None \notin byCustomer /\ None \notin byContact
  BY RecordConstants DEF Basics, TypeOK
<1>2. byCustomer = {} /\ byContact = {}
  <2> HIDE DEF byCustomer, byContact
  <2> QED BY <1>1 DEF FindCustomerByEmail, byCustomer, byContact
<1>3. \A r \in Exact[m] : r \in Customers \/ r \in Contacts
  BY RecordConstants
<1> QED BY <1>2, <1>3 DEF Present

\* Pods serve every mail but those they excuse.
LEMMA MailsFiled ==
    ASSUME Basics, FilingsKept, MailsKept, NEW p \in Pods, Pod(p)
    PROVE  MailsKept'
<1> DEFINE m0 == ingest[p].mail
           w0 == ingest[p].who
<1>1. /\ ingest \in [Pods -> Filing] /\ link \in [Mails -> Customers \cup {None}]
      /\ shown \in [Mails -> Customers \cup {None}] /\ kept \subseteq Mails
  BY DEF Basics, TypeOK
<1>2. UNCHANGED recordVars /\ caughtUp' = caughtUp /\ excused \subseteq excused'
  BY DEF Pod, ResolveCustomer, StoreMailboxMessage, GetActivityByMessageID, CreateActivity
<1>3. /\ \A r : Present(r)' <=> Present(r)
      /\ \A k \in Clerks : \A r : Listing(k, r)' <=> Listing(k, r)
      /\ \A r : Sought(r)' <=> Sought(r)
      /\ job' = job
      /\ \A m : Promised(m)' \subseteq Promised(m)
  <2>1. missed \subseteq missed'
    BY DEF Pod, ResolveCustomer, StoreMailboxMessage, GetActivityByMessageID, CreateActivity
  <2> QED BY <1>2, <2>1 DEF recordVars, Present, Live, Listing, Sought, Promised
\* What an action has to say: the mails that were served are, and those it stores are right.
<1>4. ASSUME \A m \in kept \ excused' : Served(m) => Served(m)',
             \A m \in kept : link'[m] = link[m], kept \subseteq kept',
             \A m \in (kept' \ kept) \ excused' :
                Served(m)' \/ (link'[m] = None /\ \A r \in Promised(m) : ~Sought(r)),
             \A q \in Pods \ {p} : ingest'[q] = ingest[q],
             ingest'[p].at = "store" /\ ingest'[p].who = None =>
                ingest'[p].mail \in kept' \cup excused' \/ \A r \in Promised(ingest[p].mail)' : ~Sought(r)
      PROVE  MailsKept'
  <2>1. ASSUME NEW m \in kept' \ excused'
        PROVE  /\ link'[m] # None => Served(m)'
               /\ \A r \in Promised(m)' : Present(r)' =>
                     /\ r \in caughtUp' => Served(m)'
                     /\ \A k \in Clerks : Listing(k, r)' => m \in job'[k].matched \/ Served(m)'
    <3>1. CASE m \in kept
      BY <1>2, <1>3, <1>4, <2>1, <3>1 DEF MailsKept
    <3>2. CASE m \notin kept
      <4>1. Served(m)' \/ (link'[m] = None /\ \A r \in Promised(m) : ~Sought(r))
        BY <1>4, <2>1, <3>2
      <4> QED BY <1>2, <1>3, <4>1 DEF Sought
    <3> QED BY <3>1, <3>2
  <2>2. ASSUME NEW q \in Pods, ingest'[q].at = "store", ingest'[q].who = None
        PROVE  ingest'[q].mail \in kept' \cup excused' \/ \A r \in Promised(ingest[q].mail)' : ~Sought(r)'
    <3>1. CASE q = p
      BY <1>3, <1>4, <2>2, <3>1
    <3>2. CASE q # p
      BY <1>2, <1>3, <1>4, <2>2, <3>2 DEF MailsKept
    <3> QED BY <3>1, <3>2
  <2> QED BY <2>1, <2>2 DEF MailsKept
<1>5. ASSUME NEW j, Put(p, j)
      PROVE  ingest'[p] = j /\ \A q \in Pods \ {p} : ingest'[q] = ingest[q]
  BY <1>1, <1>5 DEF Put
<1>6. ASSUME NEW m \in Mails, ResolveCustomer(p, m)
      PROVE  MailsKept'
  <2>1. UNCHANGED <<kept, link, shown>> /\ ingest[p].at = "idle" /\ w0 = None
    BY <1>6 DEF ResolveCustomer, FilingsKept
  <2> DEFINE T == {<<m, t>> : t \in {u \in Alike[m] \ Exact[m] : Sought(u)}}
  <2>2. PICK w : /\ Put(p, [at |-> "store", mail |-> m, who |-> w])
                 /\ \/ /\ w \in FindCustomerByEmail(m)
                       /\ w = None => missed' = missed \cup T
                    \/ m \in excused'
    BY <1>6 DEF ResolveCustomer
  <2>3. /\ ingest'[p] = [at |-> "store", mail |-> m, who |-> w]
        /\ \A q \in Pods \ {p} : ingest'[q] = ingest[q]
    BY <1>5, <2>2
  <2>4. \A n : Served(n) => Served(n)'
    BY <2>1, <2>3 DEF Served
  <2>5. w = None => m \in excused' \/ \A r \in Promised(m)' : ~Sought(r)
    <3> SUFFICES ASSUME w = None, m \notin excused', NEW r \in Promised(m)', Sought(r)
                 PROVE  FALSE
      OBVIOUS
    <3>1. r \in Alike[m] /\ r \notin Exact[m]
      BY <2>2, NobodyFound DEF Sought, Promised
    <3>2. <<m, r>> \in T
      BY <3>1
    <3>3. <<m, r>> \in missed'
      BY <2>2, <3>2
    <3> QED BY <3>3 DEF Promised
  <2>6. ingest'[p].mail = m /\ ingest'[p].who = w
    BY <2>3
  <2> QED BY <1>4, <2>1, <2>3, <2>4, <2>5, <2>6
<1>7. ASSUME StoreMailboxMessage(p)
      PROVE  MailsKept'
  <2> DEFINE j == [ingest[p] EXCEPT !.at = "dedup"]
  <2>1. /\ UNCHANGED <<shown, excused>> /\ Put(p, j) /\ ingest[p].at = "store"
        /\ \/ m0 \notin kept /\ w0 \in Known /\ kept' = kept \cup {m0} /\ link' = [link EXCEPT ![m0] = w0]
           \/ UNCHANGED <<kept, link>>
    BY <1>7 DEF StoreMailboxMessage
  <2>2. j.at = "dedup" /\ j.mail = m0 /\ j.who = w0
    BY <1>1 DEF Filing
  <2> HIDE DEF j
  <2>3. /\ ingest'[p].at = "dedup" /\ ingest'[p].mail = m0 /\ ingest'[p].who = w0
        /\ \A q \in Pods \ {p} : ingest'[q] = ingest[q]
    BY <1>5, <2>1, <2>2
  <2>4. \A n : Served(n) <=> Served(n)'
    BY <2>1, <2>3 DEF Served
  <2>5. \A m \in kept : link'[m] = link[m]
    BY <1>1, <2>1
  <2>6. ASSUME NEW m \in (kept' \ kept) \ excused'
        PROVE  Served(m)' \/ (link'[m] = None /\ \A r \in Promised(m) : ~Sought(r))
    <3>1. m = m0 /\ m \notin kept /\ link' = [link EXCEPT ![m0] = w0] /\ m \in Mails
      BY <2>1, <2>6 DEF FilingsKept
    <3>2. w0 # None => Served(m)'
      BY <2>3, <3>1 DEF Served
    <3>3. w0 = None => \A r \in Promised(m) : ~Sought(r)
      BY <2>1, <2>6, <3>1 DEF MailsKept
    <3>4. link'[m] = w0
      BY <1>1, <3>1
    <3> QED BY <3>2, <3>3, <3>4
  <2> HIDE DEF m0, w0
  <2> QED BY <1>4, <2>1, <2>3, <2>4, <2>5, <2>6
<1>8. ASSUME GetActivityByMessageID(p)
      PROVE  MailsKept'
  <2> DEFINE j == [ingest[p] EXCEPT !.at = "activity"]
  <2>1. /\ UNCHANGED <<kept, link, shown>>
        /\ \/ Put(p, Wait) /\ (shown[m0] # None \/ w0 = None \/ m0 \in excused')
           \/ Put(p, j)
    BY <1>8 DEF GetActivityByMessageID
  <2>2. j.at = "activity" /\ j.mail = m0 /\ j.who = w0
    BY <1>1 DEF Filing
  <2>3. Wait.at = "idle" /\ Wait.who = None
    BY DEF Wait
  <2> HIDE DEF j
  <2>4. /\ ingest'[p].at # "store" /\ \A q \in Pods \ {p} : ingest'[q] = ingest[q]
        /\ \/ shown[m0] # None \/ w0 = None \/ m0 \in excused'
           \/ ingest'[p].mail = m0 /\ ingest'[p].who = w0
    BY <1>5, <2>1, <2>2, <2>3
  <2>5. \A n \in kept \ excused' : Served(n) => Served(n)'
    BY <2>1, <2>4 DEF Served
  <2> HIDE DEF m0, w0
  <2> QED BY <1>4, <2>1, <2>4, <2>5
<1>9. ASSUME CreateActivity(p)
      PROVE  MailsKept'
  <2>1. /\ UNCHANGED <<kept, link>> /\ Put(p, Wait) /\ ingest[p].at = "activity"
        /\ \/ shown' = IF shown[m0] = None /\ Live(w0) THEN [shown EXCEPT ![m0] = w0] ELSE shown
           \/ UNCHANGED shown /\ m0 \in excused'
    BY <1>9 DEF CreateActivity
  <2>2. Wait.at = "idle" /\ Wait.who = None
    BY DEF Wait
  <2>3. ingest'[p].at = "idle" /\ \A q \in Pods \ {p} : ingest'[q] = ingest[q]
    BY <1>5, <2>1, <2>2
  <2>4. m0 \in Mails /\ w0 # None /\ (m0 \notin excused => Live(w0))
    BY <2>1 DEF FilingsKept
  <2> HIDE DEF m0, w0
  <2>5. \A n \in Mails : shown[n] # None => shown'[n] # None
    BY <1>1, <2>1, <2>4
  <2>6. m0 \notin excused' => shown'[m0] # None
    BY <1>1, <1>2, <2>1, <2>4
  <2>7. \A n \in kept \ excused' : Served(n) => Served(n)'
    BY <1>1, <2>3, <2>5, <2>6 DEF Served, m0
  <2> QED BY <1>4, <2>1, <2>3, <2>7
<1> QED BY <1>6, <1>7, <1>8, <1>9 DEF Pod

-----------------------------------------------------------------------------
(* The theorems. *)
LEMMA RecordInit == Init => RecordInv
<1> SUFFICES ASSUME Init PROVE RecordInv
  OBVIOUS
<1>1. Free \in Request /\ Free.at = "idle"
  BY FreeValues
<1>2. Wait \in Filing /\ Wait.at = "idle" /\ Wait.who = None
  BY DEF Wait, Filing
<1>3. TypeOK
  <2> HIDE DEF Free, Request, Wait, Filing
  <2> QED BY <1>1, <1>2, RecordConstants DEF Init, TypeOK
<1>4. /\ row = [c \in Customers |-> 0] /\ gone = {} /\ contacts = {} /\ kept = {}
      /\ index = [c \in Customers |-> 0] /\ caughtUp = {}
      /\ \A k \in Clerks : job[k] = Free
      /\ \A p \in Pods : ingest[p] = Wait
  BY DEF Init
<1>5. JobsKept /\ RowsGone /\ FilingsKept
  BY <1>1, <1>2, <1>4 DEF JobsKept, RowsGone, FilingsKept, Rebuilding, Live
<1>6. MailsKept
  BY <1>2, <1>4 DEF MailsKept
<1>7. ~Reindexing /\ \A c \in Customers, k \in Clerks : c \notin Pending(job[k])
  BY <1>1, <1>4, FreeWaits DEF Reindexing
<1>8. \A c \in Customers : Indexed(c)
  BY <1>4, <1>7 DEF Indexed
<1>9. \A r : ~LookedFor(r)
  BY <1>1, <1>4 DEF LookedFor
<1> QED BY <1>3, <1>5, <1>6, <1>8, <1>9 DEF RecordInv

LEMMA RecordStep == RecordInv /\ [Next]_vars => RecordInv'
<1> SUFFICES ASSUME RecordInv, [Next]_vars PROVE RecordInv'
  OBVIOUS
<1>1. Basics /\ FilingsKept /\ MailsKept /\ Registered /\ \A c \in Customers \ blurred : Indexed(c)
  BY DEF RecordInv, Basics, Registered
<1>2. Basics' /\ FilingsKept'
  BY <1>1, BasicsStep
<1>3. /\ Registered'
      /\ \A r \in Customers \cup Contacts : LookedFor(r) /\ Present(r)' => Present(r)
  BY <1>1, RegisteredStep
<1>4. \A c \in Customers \ blurred' : Indexed(c)'
  BY <1>1, Steps, IndexAtRow, IndexAtRequest, IndexElsewhere
<1>5. MailsKept'
  <2>1. CASE UNCHANGED vars
    <3>1. UNCHANGED <<row, contacts, kept, link, shown, job, ingest, missed, caughtUp, excused>>
      BY <2>1 DEF vars
    <3>2. /\ \A m : Served(m)' <=> Served(m)
          /\ \A r : (Present(r)' <=> Present(r)) /\ (Sought(r)' <=> Sought(r))
          /\ \A k \in Clerks : \A r : Listing(k, r)' <=> Listing(k, r)
          /\ \A m : Promised(m)' = Promised(m)
      BY <3>1 DEF Served, Present, Live, Sought, Listing, Promised
    <3> QED BY <1>1, <3>1, <3>2 DEF MailsKept
  <2> QED BY <1>1, <1>3, <2>1, Steps, MailsElsewhere, MailsMatched, MailsLinked, MailsFiled
<1> QED BY <1>2, <1>3, <1>4, <1>5 DEF RecordInv, Basics, Registered

LEMMA RecordsAlways == Spec => []RecordInv
<1>1. Init => RecordInv
  BY RecordInit
<1>2. RecordInv /\ [Next]_vars => RecordInv'
  BY RecordStep
<1> QED BY <1>1, <1>2, PTL DEF Spec

\* Rows, documents, links, requests and filings stay within their types: every
\* value a statement of internal/service/customer or of the ingest writes is one.
THEOREM RecordsTyped == Spec => []TypeOK
<1>1. RecordInv => TypeOK
  BY DEF RecordInv
<1> QED BY <1>1, RecordsAlways, PTL

\* The search finds what the rows say, unless a write of the index failed or two
\* requests at the customer crossed (create_customer.go, update_customer.go,
\* delete_customer.go, import_book.go and reindex.go write row and index apart).
THEOREM SearchFindsTheRows == Spec => []IndexMatchesRow
<1>1. RecordInv => IndexMatchesRow
  BY DEF RecordInv, IndexMatchesRow, Indexed
<1> QED BY <1>1, RecordsAlways, PTL

\* Registering a customer or a contact brings the mails that came before on the
\* timeline, and no pod files a later one past it, but for the mails on their way
\* at that moment and those at which a statement failed (create_customer.go:58-60).
THEOREM PastMailsAreShown == Spec => []PastMailShown
<1>1. ASSUME RecordInv, NEW m \in kept \ excused, ~InFlight(m),
             NEW r \in Promised(m) \cap caughtUp, Present(r)
      PROVE  shown[m] # None
  <2>1. Served(m)
    BY <1>1 DEF RecordInv, MailsKept
  <2>2. ASSUME NEW p \in Pods, ingest[p].mail = m, ingest[p].who # None
        PROVE  FALSE
    BY <1>1, <2>2 DEF RecordInv, FilingsKept, InFlight
  <2> QED BY <2>1, <2>2 DEF Served
<1>2. RecordInv => PastMailShown
  BY <1>1 DEF PastMailShown
<1> QED BY <1>2, RecordsAlways, PTL
=============================================================================

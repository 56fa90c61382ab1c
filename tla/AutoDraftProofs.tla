--------------------------- MODULE AutoDraftProofs ----------------------------
(***************************************************************************)
(* Every draft is announced at most once, and nothing else is, for any     *)
(* number of pods, books, templates, deletions and faults, and whatever    *)
(* becomes of the lock: it is never used. What order the candidates come   *)
(* in is not used either.                                                  *)
(***************************************************************************)
EXTENDS AutoDraft, FiniteSetTheorems, SequenceTheorems, TLAPS

USE AutoDraftConstants

-----------------------------------------------------------------------------
(* Types *)

\* The books, of which none is there twice.
BooksTyped == books \in Seq(Books) /\ \A i, j \in 1..Len(books) : books[i] = books[j] => i = j

\* What is counted.
CountsTyped ==
    /\ filled \in [Books -> Nat] /\ active \subseteq Mailboxes /\ drafts \in [Books -> Nat]
    /\ made \in [Books -> Nat] /\ notified \in [Books -> Nat]
    /\ requests \in 0..MaxRequests /\ faults \in 0..MaxFaults

LockTyped == lock \in Workers \cup {Free, Dead}

\* Where the pods are in their ticks and what their local variables hold there.
PodsTyped ==
    /\ pc \in [Workers -> {"idle", "templates", "books", "insert", "notify"}]
    /\ todo \in [Workers -> SUBSET Templates]
    /\ template \in [Workers -> Templates \cup {None}]
    /\ cand \in [Workers -> SUBSET Books]
    /\ book \in [Workers -> Books \cup {None}]
    /\ created \in [Workers -> 0..MaxBooksPerTick]
    /\ \A w \in Workers :
          /\ pc[w] \in {"books", "insert", "notify"} <=> template[w] # None
          /\ pc[w] \in {"insert", "notify"} <=> book[w] # None
          /\ pc[w] \in {"insert", "notify"} => created[w] < MaxBooksPerTick

LEMMA TypeParts == TypeOK <=> BooksTyped /\ CountsTyped /\ LockTyped /\ PodsTyped
BY Zenon DEF TypeOK, BooksTyped, CountsTyped, LockTyped, PodsTyped

LEMMA TypeNext ==
    ASSUME BooksTyped', CountsTyped', LockTyped', PodsTyped' PROVE TypeOK'
BY Zenon DEF TypeOK, BooksTyped, CountsTyped, LockTyped, PodsTyped

LEMMA TypeInit == Init => TypeOK
<1> SUFFICES ASSUME Init PROVE TypeOK
  OBVIOUS
<1>1. books \in Seq(Books) /\ Len(books) = 0
  BY DEF Init
<1>2. BooksTyped
  BY <1>1 DEF BooksTyped
<1>3. CountsTyped /\ LockTyped
  BY DEF Init, CountsTyped, LockTyped
<1>4. PodsTyped
  BY DEF Init, PodsTyped
<1> QED BY <1>2, <1>3, <1>4, TypeParts

\* A book that was not there is added at the end.
LEMMA BooksGrow == ASSUME TypeOK, NEW b \in Books, CreateBook(b) PROVE BooksTyped'
<1>1. books \in Seq(Books) /\ books' = Append(books, b) /\ b \notin Created
  BY DEF TypeOK, CreateBook
<1>2. /\ books' \in Seq(Books) /\ Len(books') = Len(books) + 1
      /\ \A i \in 1..Len(books) : books'[i] = books[i]
      /\ books'[Len(books) + 1] = b
  BY <1>1, AppendProperties
<1>3. \A i \in 1..Len(books) : books[i] # b
  BY <1>1 DEF Created
<1> SUFFICES ASSUME NEW i \in 1..Len(books'), NEW j \in 1..Len(books'), books'[i] = books'[j]
             PROVE  i = j
  BY <1>2 DEF BooksTyped
<1>4. Len(books) \in Nat /\ \A k, l \in 1..Len(books) : books[k] = books[l] => k = l
  BY <1>1, TypeParts DEF BooksTyped
<1>5. (i \in 1..Len(books) \/ i = Len(books) + 1) /\ (j \in 1..Len(books) \/ j = Len(books) + 1)
  BY <1>2, <1>4
<1> QED BY <1>2, <1>3, <1>4, <1>5

LEMMA CandidatesTyped == ASSUME NEW t \in Templates, TypeOK PROVE Candidates(t) \in SUBSET Books
BY DEF Candidates, Oldest

\* The steps of a pod leave the books alone and its variables well typed.
LEMMA StepTyped ==
    ASSUME TypeOK, NEW w \in Workers, Step(w) \/ Crash(w)
    PROVE  TypeOK'
<1>1. BooksTyped /\ CountsTyped /\ LockTyped /\ PodsTyped
  BY TypeParts
<1>2. CASE TickBegin(w)
  <2>1. PodsTyped'
    BY <1>1, <1>2 DEF TickBegin, PodsTyped
  <2> QED BY <1>1, <1>2, <2>1, TypeNext DEF TickBegin, bookVars, BooksTyped, CountsTyped, LockTyped
<1>3. CASE TemplateEnd(w)
  <2>1. PodsTyped'
    BY <1>1, <1>3 DEF TemplateEnd, PodsTyped
  <2> QED BY <1>1, <1>3, <2>1, TypeNext DEF TemplateEnd, bookVars, BooksTyped, CountsTyped, LockTyped
<1>4. CASE TickEnd(w)
  <2>1. PodsTyped'
    BY <1>1, <1>4 DEF TickEnd, PodsTyped
  <2> QED BY <1>1, <1>4, <2>1, TypeNext DEF TickEnd, bookVars, BooksTyped, CountsTyped, LockTyped
<1>5. CASE Snapshot(w)
  <2>1. PICK b \in Oldest(1, cand[w]) :
           /\ cand' = [cand EXCEPT ![w] = @ \ {b}]
           /\ IF Readable(template[w], b)
              THEN book' = [book EXCEPT ![w] = b] /\ pc' = [pc EXCEPT ![w] = "insert"]
              ELSE UNCHANGED <<book, pc>>
    BY <1>5 DEF Snapshot
  <2>2. b \in Books
    BY <1>1 DEF Oldest, PodsTyped
  <2>3. pc[w] = "books" /\ created[w] < MaxBooksPerTick /\ UNCHANGED <<todo, template, created>>
    BY <1>5 DEF Snapshot
  <2>4. cand' \in [Workers -> SUBSET Books]
    BY <1>1, <2>1 DEF PodsTyped
  <2>5. PodsTyped'
    <3>1. CASE Readable(template[w], b)
      <4>1. book' = [book EXCEPT ![w] = b] /\ pc' = [pc EXCEPT ![w] = "insert"]
        BY <2>1, <3>1
      <4> QED BY <1>1, <2>2, <2>3, <2>4, <4>1 DEF PodsTyped
    <3>2. CASE ~Readable(template[w], b)
      <4>1. UNCHANGED <<book, pc>>
        BY <2>1, <3>2
      <4> QED BY <1>1, <2>3, <2>4, <4>1 DEF PodsTyped
    <3> QED BY <3>1, <3>2
  <2> QED BY <1>1, <1>5, <2>5, TypeNext DEF Snapshot, bookVars, BooksTyped, CountsTyped, LockTyped
<1>6. CASE Insert(w)
  <2>1. book[w] \in Books
    BY <1>1, <1>6 DEF Insert, PodsTyped
  <2>2. faults' \in 0..MaxFaults
    BY <1>1, <1>6 DEF Insert, Fault, CountsTyped
  <2>3. drafts' \in [Books -> Nat] /\ made' \in [Books -> Nat]
    BY <1>1, <1>6, <2>1 DEF Insert, CountsTyped
  <2>4. CountsTyped'
    BY <1>1, <1>6, <2>2, <2>3 DEF Insert, bookVars, CountsTyped
  <2>5. PodsTyped'
    BY <1>1, <1>6 DEF Insert, PodsTyped
  <2> QED BY <1>1, <1>6, <2>4, <2>5, TypeNext DEF Insert, bookVars, BooksTyped, LockTyped
<1>7. CASE Notify(w)
  <2>1. book[w] \in Books
    BY <1>1, <1>7 DEF Notify, PodsTyped
  <2>2. CountsTyped'
    BY <1>1, <1>7, <2>1 DEF Notify, bookVars, CountsTyped
  <2>3. PodsTyped'
    BY <1>1, <1>7 DEF Notify, PodsTyped
  <2> QED BY <1>1, <1>7, <2>2, <2>3, TypeNext DEF Notify, bookVars, BooksTyped, LockTyped
<1>8. CASE \E t \in Templates : ListBooks(w, t)
  <2>1. PICK t \in Templates : ListBooks(w, t)
    BY <1>8
  <2>2. Candidates(t) \in SUBSET Books
    BY CandidatesTyped
  <2>3. PodsTyped'
    BY <1>1, <2>1, <2>2 DEF ListBooks, PodsTyped
  <2> QED BY <1>1, <2>1, <2>3, TypeNext DEF ListBooks, bookVars, BooksTyped, CountsTyped, LockTyped
<1>9. CASE Crash(w)
  <2>1. PodsTyped'
    BY <1>1, <1>9 DEF Crash, PodsTyped
  <2>2. CountsTyped'
    BY <1>1, <1>9 DEF Crash, Fault, bookVars, CountsTyped
  <2>3. LockTyped'
    BY <1>1, <1>9 DEF Crash, LockTyped
  <2> QED BY <1>1, <1>9, <2>1, <2>2, <2>3, TypeNext DEF Crash, bookVars, BooksTyped
<1> QED BY <1>2, <1>3, <1>4, <1>5, <1>6, <1>7, <1>8, <1>9 DEF Step

\* What users do, and the lock.
LEMMA OutsideTyped ==
    ASSUME TypeOK,
           \/ \E b \in Books : CreateBook(b) \/ CreateCustomer(b) \/ DeleteDraft(b)
           \/ \E m \in Mailboxes : SwitchMailbox(m)
           \/ LockExpires
           \/ UNCHANGED vars
    PROVE  TypeOK'
<1>1. BooksTyped /\ CountsTyped /\ LockTyped /\ PodsTyped
  BY TypeParts
<1>2. UNCHANGED <<pc, todo, template, cand, book, created>>
  BY DEF CreateBook, CreateCustomer, DeleteDraft, SwitchMailbox, LockExpires, vars
<1>3. PodsTyped'
  BY <1>1, <1>2 DEF PodsTyped
<1>4. CASE \E b \in Books : CreateBook(b)
  <2>1. BooksTyped'
    BY <1>4, BooksGrow
  <2> QED BY <1>1, <1>3, <1>4, <2>1, TypeNext DEF CreateBook, CountsTyped, LockTyped
<1>5. CASE \E b \in Books : CreateCustomer(b) \/ DeleteDraft(b)
  <2>1. CountsTyped'
    BY <1>1, <1>5 DEF CreateCustomer, DeleteDraft, bookVars, CountsTyped
  <2> QED BY <1>1, <1>3, <1>5, <2>1, TypeNext
          DEF CreateCustomer, DeleteDraft, bookVars, BooksTyped, LockTyped
<1>6. CASE LockExpires
  <2>1. faults' \in 0..MaxFaults
    BY <1>1, <1>6 DEF LockExpires, Fault, CountsTyped
  <2> QED BY <1>1, <1>3, <1>6, <2>1, TypeNext
          DEF LockExpires, bookVars, BooksTyped, CountsTyped, LockTyped
<1>8. CASE \E m \in Mailboxes : SwitchMailbox(m)
  <2>1. CountsTyped'
    BY <1>1, <1>8 DEF SwitchMailbox, CountsTyped
  <2> QED BY <1>1, <1>3, <1>8, <2>1, TypeNext DEF SwitchMailbox, BooksTyped, LockTyped
<1>7. CASE UNCHANGED vars
  BY <1>1, <1>3, <1>7, TypeNext DEF vars, BooksTyped, CountsTyped, LockTyped
<1> QED BY <1>4, <1>5, <1>6, <1>7, <1>8

LEMMA TypeStep == TypeOK /\ [Next]_vars => TypeOK'
BY StepTyped, OutsideTyped DEF Next

-----------------------------------------------------------------------------
(* Drafts and announcements *)

\* Pods that made a draft of this book and have not yet announced it.
Announcing(b) == {w \in Workers : pc[w] = "notify" /\ book[w] = b}

\* A draft that is not announced yet has a pod of its own that will do it.
Counted(b) == notified[b] + Cardinality(Announcing(b)) <= made[b]

\* Every draft was made by one pod, which announces it at most once.
DraftInv == TypeOK /\ \A b \in Books : Counted(b)

LEMMA AnnouncingFinite ==
    ASSUME IsFiniteSet(Workers), NEW b
    PROVE  IsFiniteSet(Announcing(b)) /\ Cardinality(Announcing(b)) \in Nat
<1>1. Announcing(b) \subseteq Workers
  BY DEF Announcing
<1> QED BY <1>1, FS_Subset, FS_CardinalityType

LEMMA DraftInit == ASSUME IsFiniteSet(Workers) PROVE Init => DraftInv
<1> SUFFICES ASSUME Init PROVE DraftInv
  OBVIOUS
<1>1. ASSUME NEW b \in Books PROVE Cardinality(Announcing(b)) = 0
  <2>1. Announcing(b) = {}
    BY DEF Init, Announcing
  <2> QED BY <2>1, FS_EmptySet
<1>2. \A b \in Books : Counted(b)
  BY <1>1 DEF Init, Counted
<1> QED BY <1>2, TypeInit DEF DraftInv

\* A step that lets nobody begin to announce, and touches no counter.
LEMMA NobodyNew ==
    ASSUME IsFiniteSet(Workers), DraftInv, UNCHANGED <<made, notified>>,
           \A v \in Workers : pc'[v] = "notify" => pc[v] = "notify" /\ book'[v] = book[v],
           NEW b \in Books
    PROVE  Counted(b)'
<1>1. Announcing(b)' \subseteq Announcing(b)
  BY DEF Announcing
<1>2. Cardinality(Announcing(b)') <= Cardinality(Announcing(b)) /\ Cardinality(Announcing(b)') \in Nat
  BY <1>1, AnnouncingFinite, FS_Subset, FS_CardinalityType
<1>3. notified[b] \in Nat /\ made[b] \in Nat /\ notified[b] + Cardinality(Announcing(b)) <= made[b]
  BY DEF DraftInv, TypeOK, Counted
<1> QED BY <1>2, <1>3, AnnouncingFinite DEF Counted

\* The draft is made: its pod will announce it.
LEMMA InsertCounts ==
    ASSUME IsFiniteSet(Workers), DraftInv, NEW w \in Workers, pc[w] = "insert",
           pc' = [pc EXCEPT ![w] = "notify"], UNCHANGED <<book, notified>>,
           made' = [made EXCEPT ![book[w]] = @ + 1], NEW b \in Books
    PROVE  Counted(b)'
<1>1. notified[b] \in Nat /\ made[b] \in Nat /\ notified[b] + Cardinality(Announcing(b)) <= made[b]
  BY DEF DraftInv, TypeOK, Counted
<1>2. CASE book[w] = b
  <2>1. Announcing(b)' = Announcing(b) \cup {w} /\ w \notin Announcing(b)
    BY <1>2 DEF Announcing, DraftInv, TypeOK
  <2>2. Cardinality(Announcing(b)') = Cardinality(Announcing(b)) + 1
    BY <2>1, AnnouncingFinite, FS_AddElement
  <2>3. made'[b] = made[b] + 1
    BY <1>2 DEF DraftInv, TypeOK
  <2> QED BY <1>1, <2>2, <2>3, AnnouncingFinite DEF Counted
<1>3. CASE book[w] # b
  <2>1. Announcing(b)' = Announcing(b)
    BY <1>3 DEF Announcing, DraftInv, TypeOK
  <2>2. made'[b] = made[b]
    BY <1>3 DEF DraftInv, TypeOK
  <2> QED BY <1>1, <2>1, <2>2 DEF Counted
<1> QED BY <1>2, <1>3

\* The announcement: its pod announces no more.
LEMMA NotifyCounts ==
    ASSUME IsFiniteSet(Workers), DraftInv, NEW w \in Workers, Notify(w), NEW b \in Books
    PROVE  Counted(b)'
<1>1. notified[b] \in Nat /\ made[b] \in Nat /\ notified[b] + Cardinality(Announcing(b)) <= made[b]
  BY DEF DraftInv, TypeOK, Counted
<1>2. \A v \in Workers \ {w} : pc'[v] = pc[v] /\ book'[v] = book[v]
  BY DEF Notify, DraftInv, TypeOK
<1>3. pc[w] = "notify" /\ pc'[w] = "books" /\ UNCHANGED made
  BY DEF Notify, DraftInv, TypeOK
<1>4. CASE book[w] = b
  <2>1. Announcing(b)' = Announcing(b) \ {w} /\ w \in Announcing(b)
    BY <1>2, <1>3, <1>4 DEF Announcing
  <2>4. IsFiniteSet(Announcing(b))
    BY AnnouncingFinite
  <2>2. Cardinality(Announcing(b)') = Cardinality(Announcing(b)) - 1
    <3>1. Cardinality(Announcing(b) \ {w}) = Cardinality(Announcing(b)) - 1
      BY <2>1, <2>4, FS_RemoveElement
    <3> QED BY <2>1, <3>1
  <2>3. notified'[b] = notified[b] + 1
    BY <1>4 DEF Notify, DraftInv, TypeOK
  <2> QED BY <1>1, <1>3, <2>2, <2>3, AnnouncingFinite DEF Counted
<1>5. CASE book[w] # b
  <2>1. Announcing(b)' = Announcing(b)
    BY <1>2, <1>3, <1>5 DEF Announcing
  <2>2. notified'[b] = notified[b]
    BY <1>5 DEF Notify, DraftInv, TypeOK
  <2> QED BY <1>1, <1>3, <2>1, <2>2 DEF Counted
<1> QED BY <1>4, <1>5

LEMMA DraftStep == ASSUME IsFiniteSet(Workers) PROVE DraftInv /\ [Next]_vars => DraftInv'
<1> SUFFICES ASSUME DraftInv, [Next]_vars PROVE \A b \in Books : Counted(b)'
  BY TypeStep DEF DraftInv
<1>1. TypeOK
  BY DEF DraftInv
\* The steps of a tick that neither make nor announce a draft.
<1>2. ASSUME NEW w \in Workers,
             \/ TickBegin(w) \/ TemplateEnd(w) \/ TickEnd(w) \/ Snapshot(w) \/ Crash(w)
             \/ \E t \in Templates : ListBooks(w, t)
      PROVE  \A b \in Books : Counted(b)'
  <2>1. /\ UNCHANGED <<drafts, made, notified>>
        /\ pc' = pc \/ \E at \in {"idle", "templates", "books", "insert"} : pc' = [pc EXCEPT ![w] = at]
        /\ book' = book \/ \E b : book' = [book EXCEPT ![w] = b]
        /\ pc[w] = "notify" => pc'[w] # "notify"
    BY <1>1, <1>2 DEF TickBegin, TemplateEnd, TickEnd, Snapshot, Crash, ListBooks, TypeOK
  <2>2. \A v \in Workers : pc'[v] = "notify" => pc[v] = "notify" /\ book'[v] = book[v]
    BY <1>1, <2>1 DEF TypeOK
  <2> QED BY <1>1, <2>1, <2>2, NobodyNew
<1>3. ASSUME NEW w \in Workers, Insert(w) PROVE \A b \in Books : Counted(b)'
  <2>1. CASE book' = [book EXCEPT ![w] = None] /\ pc' = [pc EXCEPT ![w] = "books"]
             /\ UNCHANGED <<drafts, made, notified>>
    <3>1. \A v \in Workers : pc'[v] = "notify" => pc[v] = "notify" /\ book'[v] = book[v]
      BY <1>1, <2>1 DEF TypeOK
    <3> QED BY <1>1, <2>1, <3>1, NobodyNew
  <2>2. CASE /\ drafts' = [drafts EXCEPT ![book[w]] = 1]
             /\ made' = [made EXCEPT ![book[w]] = @ + 1]
             /\ pc' = [pc EXCEPT ![w] = "notify"] /\ UNCHANGED <<book, notified>>
    <3>1. pc[w] = "insert"
      BY <1>3 DEF Insert
    <3> QED BY <2>2, <3>1, InsertCounts
  <2> QED BY <1>3, <2>1, <2>2 DEF Insert
<1>4. ASSUME NEW w \in Workers, Notify(w) PROVE \A b \in Books : Counted(b)'
  BY <1>1, <1>4, NotifyCounts DEF Notify
<1>5. ASSUME UNCHANGED <<pc, book, made, notified>> PROVE \A b \in Books : Counted(b)'
  BY <1>5, NobodyNew
<1>6. ASSUME \/ \E b \in Books : CreateBook(b) \/ CreateCustomer(b) \/ DeleteDraft(b)
             \/ \E m \in Mailboxes : SwitchMailbox(m)
      PROVE  \A c \in Books : Counted(c)'
  BY <1>5, <1>6 DEF CreateBook, CreateCustomer, DeleteDraft, SwitchMailbox
<1>7. CASE LockExpires \/ UNCHANGED vars
  BY <1>1, <1>5, <1>7 DEF LockExpires, vars
<1> QED BY <1>2, <1>3, <1>4, <1>6, <1>7 DEF Next, Step

-----------------------------------------------------------------------------
\* Every reachable state of the worker is well typed: a pod has a template and
\* a book exactly while it works on one, and makes no more drafts of a template
\* in a tick than it may.
THEOREM DraftsTyped == Spec => []TypeOK
<1> QED BY TypeInit, TypeStep, PTL DEF Spec

\* A draft is announced at most once, and not by the pod that lost the race.
THEOREM AnnouncedOnce == ASSUME IsFiniteSet(Workers) PROVE Spec => []AnnouncesItsOwn
<1>1. DraftInv => AnnouncesItsOwn
  <2> SUFFICES ASSUME DraftInv, NEW b \in Books PROVE notified[b] <= made[b]
    BY DEF AnnouncesItsOwn
  <2> QED BY AnnouncingFinite DEF DraftInv, TypeOK, Counted
<1>2. (Init => DraftInv) /\ (DraftInv /\ [Next]_vars => DraftInv')
  BY DraftInit, DraftStep
<1> QED BY <1>1, <1>2, PTL DEF Spec
=============================================================================

--------------------------- MODULE MailboxAccounts ---------------------------
(***************************************************************************)
(* One mail address in two systems: the account at the mail server (mailu) *)
(* and the Mailbox rows, one in each company at most, which keep the       *)
(* password the server must know (internal/service/mailbox,                *)
(* internal/mailu).                                                        *)
(*                                                                         *)
(* Registration, change of password and deletion write one after the other *)
(* and nothing locks the address: a step fails after the first was done,   *)
(* its answer is lost, the undoing of a step fails, the pod dies, another  *)
(* request comes between, or another company registers the address.        *)
(***************************************************************************)
EXTENDS Naturals, FiniteSets

CONSTANTS
    Requests,     \* requests; each brings a password of its own
    Companies,
    Company,      \* whose user makes each request
    MaxFaults     \* bound: failed calls and statements, and pods that die

None    == "none"
Foreign == "foreign"   \* an account that was there before, with its password

VARIABLES
    account,  \* password of the account at the mail server, or None
    mailbox,  \* the row of each company: who made it, password_enc, its owner
              \* permit; id None = no row
    request,  \* where each request is, and what it remembers
    stale,    \* history: companies whose row may have another password
    crossed,  \* history: requests that were under way while another was
    orphaned, \* history: an account was made, or its row deleted, and no more came
    faults    \* faults so far

vars == <<account, mailbox, request, stale, crossed, orphaned, faults>>

Passwords == Requests \cup {Foreign}
NoMailbox == [id |-> None, password |-> None, owned |-> FALSE]

Init ==
    /\ account \in {None, Foreign}
    /\ mailbox = [c \in Companies |-> NoMailbox]
    /\ request = [k \in Requests |-> [at |-> "idle", made |-> FALSE, id |-> None]]
    /\ stale = {} /\ crossed = {} /\ orphaned = FALSE
    /\ faults = 0

Own(k)  == mailbox[Company[k]]
Busy(k) == request[k].at \notin {"idle", "done"}
Others(k) == {j \in Requests \ {k} : Busy(j)}
Registered == {c \in Companies : mailbox[c].id # None}

Go(k, where)  == request' = [request EXCEPT ![k].at = where]
Write(k, r)   == mailbox' = [mailbox EXCEPT ![Company[k]] = r]
Fault == faults < MaxFaults /\ faults' = faults + 1

\* k begins: nothing is said of the rows any more when another is under way.
Begin(k) ==
    /\ request[k].at = "idle"
    /\ crossed' = crossed \cup (IF Others(k) = {} THEN {} ELSE {k} \cup Others(k))

\* Rows that are left behind when k begins, and by what it does.
Behind(k, cs) == stale' = (IF Others(k) = {} THEN stale ELSE Companies) \cup cs

\* The row of k has its password, which the account has too if k was alone.
Agreed(k) == stale' = IF k \in crossed THEN Companies ELSE stale \ {Company[k]}

-----------------------------------------------------------------------------
(* CreateMailbox                                                           *)

CreateUser(k) ==
    /\ Begin(k) /\ Behind(k, {})
    /\ \/ /\ account = None
          /\ account' = k
          /\ request' = [request EXCEPT ![k].at = "insert", ![k].made = TRUE]
          /\ UNCHANGED <<orphaned, faults>>
       \/ /\ account # None   \* ErrConflict: the account is adopted
          /\ Go(k, "adopt")
          /\ UNCHANGED <<account, orphaned, faults>>
       \/ /\ Fault            \* also when the answer is lost and the account made
          /\ account' \in {account, IF account = None THEN k ELSE account}
          /\ Go(k, "done")
          /\ orphaned' = TRUE
    /\ UNCHANGED mailbox

\* SetPassword, which leaves every row behind that the address has. An account
\* that has gone since the conflict is not found; the answer may be lost after
\* the password was set.
Adopt(k) ==
    /\ request[k].at = "adopt"
    /\ \/ /\ account # None
          /\ account' = k
          /\ stale' = stale \cup Registered
          /\ \/ Go(k, "insert") /\ UNCHANGED faults
             \/ Go(k, "done") /\ Fault
       \/ /\ (account = None /\ UNCHANGED faults) \/ Fault
          /\ Go(k, "done")
          /\ UNCHANGED <<account, stale>>
    /\ UNCHANGED <<mailbox, crossed, orphaned>>

\* Faulty: the account that was made for the row stays when the row is refused.
InsertOrLeave(k) ==
    /\ request[k].at = "insert"
    /\ \/ /\ Own(k).id = None
          /\ Write(k, [id |-> k, password |-> k, owned |-> FALSE])
          /\ Agreed(k)
          /\ Go(k, "permit")
          /\ UNCHANGED faults
       \/ /\ (Own(k).id # None /\ UNCHANGED faults) \/ Fault
          /\ Go(k, "done")
          /\ UNCHANGED <<mailbox, stale>>
    /\ UNCHANGED <<account, crossed, orphaned>>

\* mailbox_company_address_uniq refuses a second row of the company. Only an
\* account this request has made is taken back.
Insert(k) ==
    /\ request[k].at = "insert"
    /\ \/ /\ Own(k).id = None
          /\ Write(k, [id |-> k, password |-> k, owned |-> FALSE])
          /\ Agreed(k)
          /\ Go(k, "permit")
          /\ UNCHANGED faults
       \/ /\ (Own(k).id # None /\ UNCHANGED faults) \/ Fault
          /\ Go(k, IF request[k].made THEN "rollback" ELSE "done")
          /\ UNCHANGED <<mailbox, stale>>
    /\ UNCHANGED <<account, crossed, orphaned>>

\* DeleteUser, after a refused row and at the end of DeleteMailbox: for all rows.
DeleteUser(k) ==
    /\ request[k].at \in {"rollback", "remove"}
    /\ \/ account' = None /\ stale' = stale \cup Registered
       \/ UNCHANGED <<account, stale>>
    /\ \/ account' = None /\ UNCHANGED <<orphaned, faults>>
       \/ Fault /\ orphaned' = TRUE
    /\ Go(k, "done")
    /\ UNCHANGED <<mailbox, crossed>>

CreateMailboxPermit(k) ==
    /\ request[k].at = "permit"
    /\ \/ /\ Own(k).id = k
          /\ Write(k, [Own(k) EXCEPT !.owned = TRUE])
          /\ UNCHANGED faults
       \/ /\ (Own(k).id # k /\ UNCHANGED faults) \/ Fault
          /\ UNCHANGED mailbox
    /\ Go(k, "done")
    /\ UNCHANGED <<account, stale, crossed, orphaned>>

-----------------------------------------------------------------------------
(* UpdateMailbox with a new password, and DeleteMailbox: for the owner     *)

\* Faulty: the answer of the mail server is not waited for.
SetPasswordAndGoOn(k) ==
    /\ Begin(k) /\ Own(k).owned
    /\ request' = [request EXCEPT ![k].at = "update", ![k].id = Own(k).id]
    /\ \/ /\ account # None
          /\ account' = k
          /\ Behind(k, Registered \ {Company[k]})
          /\ UNCHANGED faults
       \/ /\ (account = None /\ UNCHANGED faults) \/ Fault
          /\ Behind(k, {})
          /\ UNCHANGED account
    /\ UNCHANGED <<mailbox, orphaned>>

\* The mail server first; if it refuses, the row stays as it is. It does so too
\* when the password was set and the answer is lost.
SetPassword(k) ==
    /\ Begin(k) /\ Own(k).owned
    /\ \/ /\ account # None
          /\ account' = k
          /\ \/ /\ request' = [request EXCEPT ![k].at = "update", ![k].id = Own(k).id]
                /\ Behind(k, Registered \ {Company[k]})
                /\ UNCHANGED faults
             \/ Go(k, "done") /\ Behind(k, Registered) /\ Fault
       \/ /\ (account = None /\ UNCHANGED faults) \/ Fault
          /\ Go(k, "done")
          /\ Behind(k, {})
          /\ UNCHANGED account
    /\ UNCHANGED <<mailbox, orphaned>>

UpdateMailbox(k) ==
    /\ request[k].at = "update"
    /\ \/ /\ Own(k).id = request[k].id
          /\ Write(k, [Own(k) EXCEPT !.password = k])
          /\ Agreed(k)
          /\ UNCHANGED faults
       \/ /\ (Own(k).id # request[k].id /\ UNCHANGED faults) \/ Fault
          /\ stale' = stale \cup {Company[k]}
          /\ UNCHANGED mailbox
    /\ Go(k, "done")
    /\ UNCHANGED <<account, crossed, orphaned>>

\* The row first, its permits with it, then the account.
DeleteMailbox(k) ==
    /\ Begin(k) /\ Own(k).owned /\ Behind(k, {})
    /\ \/ Write(k, NoMailbox) /\ Go(k, "remove") /\ UNCHANGED faults
       \/ Fault /\ Go(k, "done") /\ UNCHANGED mailbox
    /\ UNCHANGED <<account, orphaned>>

\* The pod of k dies between two steps.
Die(k) ==
    /\ Busy(k) /\ Fault
    /\ Go(k, "done")
    /\ stale' = IF request[k].at = "update" THEN stale \cup {Company[k]} ELSE stale
    /\ orphaned' = (orphaned \/ request[k].at \in {"insert", "rollback", "remove"})
    /\ UNCHANGED <<account, mailbox, crossed>>

Next ==
    \E k \in Requests :
        \/ CreateUser(k) \/ Adopt(k) \/ Insert(k) \/ CreateMailboxPermit(k) \/ DeleteUser(k)
        \/ SetPassword(k) \/ UpdateMailbox(k) \/ DeleteMailbox(k) \/ Die(k)

Spec == Init /\ [][Next]_vars

-----------------------------------------------------------------------------
(* Properties                                                              *)

TypeOK ==
    /\ account \in Passwords \cup {None}
    /\ mailbox \in [Companies -> [id : Requests \cup {None}, password : Requests \cup {None},
                                  owned : BOOLEAN]]
    /\ request \in [Requests -> [at : {"idle", "adopt", "insert", "rollback", "remove", "permit",
                                       "update", "done"},
                                 made : BOOLEAN, id : Requests \cup {None}]]
    /\ stale \subseteq Companies /\ crossed \subseteq Requests /\ orphaned \in BOOLEAN
    /\ faults \in 0..MaxFaults

Quiet == \A k \in Requests : ~Busy(k)

\* The password in a row opens the account, so that mail can be sent and
\* read ("Phox が確実に送受信できるよう…資格情報を揃える", create_mailbox.go:78-80),
\* over refusals and their undoing, for each company that has registered the
\* address. A row is left behind when the password was set and the row not
\* written, because its UPDATE failed, the answer was lost or the pod died
\* (update_mailbox.go:48-58), when the address was registered again, by its
\* company or another, when another company changed the password or deleted the
\* account, and when two requests crossed. One change of its password that no
\* other request crosses makes it good, whatever went before.
CredentialsAgree ==
    Quiet => \A c \in Registered \ stale : account = mailbox[c].password

\* An account that a request has made does not outlast its rows ("孤児を防ぐ",
\* create_mailbox.go:110-111), unless its removal failed, the pod died before or
\* two requests crossed; one that was there before is never removed by a
\* registration.
NoOrphan ==
    (Quiet /\ Registered = {} /\ crossed = {} /\ ~orphaned)
        => \/ account = None
           \/ \A k \in Requests : ~request[k].made
=============================================================================

---------------------------- MODULE CompanyUsers ----------------------------
(***************************************************************************)
(* A user has an account in Keycloak and a row in the database              *)
(* (internal/service/user, internal/keycloakadmin, the provisioning in      *)
(* internal/service/auth/interceptor.go).                                   *)
(*                                                                         *)
(* CreateCompanyUser makes the account, then the row, and undoes the        *)
(* account when the row fails. Two others make the row as well: the first   *)
(* request of an account without one, in the default company, which is      *)
(* another here, and AddCompanyUser, by any user for his company. Owners    *)
(* delete rows, each after a look at its own row and at the target.         *)
(***************************************************************************)
EXTENDS Naturals, FiniteSets

CONSTANTS
    Creations,   \* CreateCompanyUser requests; an account bears its request's name
    Owners,      \* the owners of the company
    Deletions,   \* DeleteCompanyUser requests
    MaxMishaps   \* bound: failed calls and statements

VARIABLES
    keycloak,    \* accounts
    users,       \* rows of the company
    strangers,   \* rows of the default company
    creation,    \* where each creation is
    deletion,    \* where each deletion is, and its target
    entered,     \* history: who got a row otherwise, always as a viewer
    doubts,      \* history: creations whose outcome is not known
    mishaps      \* mishaps so far

vars == <<keycloak, users, strangers, creation, deletion, entered, doubts, mishaps>>

Init ==
    /\ keycloak = Owners
    /\ users = Owners
    /\ strangers = {}
    /\ creation = [c \in Creations |-> "idle"]
    /\ deletion = [d \in Deletions |-> [at |-> "idle", target |-> {}]]
    /\ entered = {} /\ doubts = {}
    /\ mishaps = 0

Mishap == mishaps < MaxMishaps /\ mishaps' = mishaps + 1
Doubt(c) == doubts' = doubts \cup {c}
At(c, where) == creation' = [creation EXCEPT ![c] = where]

People == Creations \cup Owners

\* Accounts whose id has been seen: an account that was removed is still in a
\* list of ListKeycloakUsers, or in a token that has not expired.
Listed   == Owners \cup keycloak \cup {c \in Creations : creation[c] = "undone"}
LoggedIn == Owners \cup {c \in Creations : creation[c] \in {"insert", "undo", "undone", "created", "late"}}

-----------------------------------------------------------------------------
(* CreateCompanyUser                                                       *)

\* keycloakadmin.CreateUser, first half. A lost answer leaves the account.
CreateUser(c) ==
    /\ creation[c] = "idle"
    /\ \/ /\ keycloak' = keycloak \cup {c}
          /\ At(c, "password")
          /\ UNCHANGED <<doubts, mishaps>>
       \/ /\ Mishap
          /\ At(c, "refused")
          /\ \/ UNCHANGED <<keycloak, doubts>>
             \/ keycloak' = keycloak \cup {c} /\ Doubt(c)
    /\ UNCHANGED <<users, strangers, deletion, entered>>

SetPassword(c) ==
    /\ creation[c] = "password"
    /\ \/ At(c, "insert") /\ UNCHANGED mishaps
       \/ Mishap /\ At(c, "undo")
    /\ UNCHANGED <<keycloak, users, strangers, deletion, entered, doubts>>

\* The answer to the caller needs the company: it is an error when GetCompany
\* fails, with everything done.
Answer(c) ==
    \/ At(c, "created") /\ UNCHANGED mishaps
    \/ At(c, "late") /\ Mishap

\* Faulty: the account is kept when the transaction fails.
CreateRowOrLeave(c) ==
    /\ creation[c] = "insert"
    /\ \/ /\ c \notin users \cup strangers
          /\ users' = users \cup {c}
          /\ Answer(c)
       \/ /\ At(c, "refused")
          /\ (c \in users \cup strangers /\ UNCHANGED mishaps) \/ Mishap
          /\ UNCHANGED users
    /\ UNCHANGED <<keycloak, strangers, deletion, entered, doubts>>

\* The transaction: begin, INSERT with role viewer, commit. A row that is
\* there already is a duplicate key; a commit may be done and its answer lost.
CreateRow(c) ==
    /\ creation[c] = "insert"
    /\ \/ /\ c \notin users \cup strangers
          /\ users' = users \cup {c}
          /\ \/ Answer(c) /\ UNCHANGED doubts
             \/ At(c, "undo") /\ Mishap /\ Doubt(c)
       \/ /\ At(c, "undo")
          /\ (c \in users \cup strangers /\ UNCHANGED mishaps) \/ Mishap
          /\ UNCHANGED <<users, doubts>>
    /\ UNCHANGED <<keycloak, strangers, deletion, entered>>

\* DeleteUser in Keycloak; its failure is logged or ignored.
UndoAccount(c) ==
    /\ creation[c] = "undo"
    /\ \/ keycloak' = keycloak \ {c} /\ UNCHANGED <<doubts, mishaps>>
       \/ Mishap /\ Doubt(c) /\ UNCHANGED keycloak
    /\ At(c, "undone")
    /\ UNCHANGED <<users, strangers, deletion, entered>>

\* Authenticate: a valid token whose account has no row gets one, with role
\* viewer. The account is not looked at.
JitProvisionUser(u) ==
    /\ u \in LoggedIn \ (users \cup strangers)
    /\ strangers' = strangers \cup {u}
    /\ entered' = entered \cup {u}
    /\ UNCHANGED <<keycloak, users, creation, deletion, doubts, mishaps>>

\* Anyone with a row imports an account into his company.
AddCompanyUser(u) ==
    /\ u \in Listed \ (users \cup strangers)
    /\ \/ users # {} /\ users' = users \cup {u} /\ UNCHANGED strangers
       \/ strangers # {} /\ strangers' = strangers \cup {u} /\ UNCHANGED users
    /\ entered' = entered \cup {u}
    /\ UNCHANGED <<keycloak, creation, deletion, doubts, mishaps>>

-----------------------------------------------------------------------------
(* DeleteCompanyUser                                                       *)

\* The caller is an owner (only the seed and the database make one, a row made
\* again is a viewer's), the target another user of the company. Two owners may
\* check at the same time and delete each other.
CheckDeletion(d, u, t) ==
    /\ deletion[d].at = "idle"
    /\ u \in (Owners \cap users) \ entered
    /\ t \in users \ {u}
    /\ deletion' = [deletion EXCEPT ![d] = [at |-> "checked", target |-> {t}]]
    /\ UNCHANGED <<keycloak, users, strangers, creation, entered, doubts, mishaps>>

\* The row goes, with everything that refers to it, whosever company it is by
\* then; the account stays.
DeleteUser(d) ==
    /\ deletion[d].at = "checked"
    /\ \/ /\ users' = users \ deletion[d].target
          /\ strangers' = strangers \ deletion[d].target
          /\ UNCHANGED mishaps
       \/ Mishap /\ UNCHANGED <<users, strangers>>
    /\ deletion' = [deletion EXCEPT ![d].at = "done"]
    /\ UNCHANGED <<keycloak, creation, entered, doubts>>

Next ==
    \/ \E c \in Creations : CreateUser(c) \/ SetPassword(c) \/ CreateRow(c) \/ UndoAccount(c)
    \/ \E u \in People : JitProvisionUser(u) \/ AddCompanyUser(u)
    \/ \E d \in Deletions : (\E u, t \in People : CheckDeletion(d, u, t)) \/ DeleteUser(d)

Spec == Init /\ [][Next]_vars

-----------------------------------------------------------------------------
(* Properties                                                              *)

TypeOK ==
    /\ keycloak \subseteq People
    /\ users \subseteq People
    /\ strangers \subseteq People
    /\ creation \in [Creations -> {"idle", "password", "insert", "undo", "created", "late", "refused", "undone"}]
    /\ deletion \in [Deletions -> [at : {"idle", "checked", "done"}, target : SUBSET People]]
    /\ entered \subseteq People /\ doubts \subseteq Creations
    /\ mishaps \in 0..MaxMishaps

\* A creation is done or undone (create_company_user.go:69-101, "failed to
\* rollback keycloak user"), over logins, imports and deletions at any moment.
\* When the row was committed there are account and row, until an owner deletes
\* the row, also if the caller is told of an error (:102-105). Otherwise there is
\* no account, unless an answer was lost or the undoing failed, and a row only if
\* the person logged in or was imported: the row then stays without an account.
CreationIsWhole ==
    \A c \in Creations :
        /\ creation[c] \in {"created", "late"} =>
              /\ c \in keycloak
              /\ c \in users \/ \E d \in Deletions : deletion[d] = [at |-> "done", target |-> {c}]
        /\ creation[c] \in {"refused", "undone"} /\ c \notin doubts =>
              /\ c \notin keycloak
              /\ c \in users \cup strangers => c \in entered
=============================================================================

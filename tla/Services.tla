------------------------------ MODULE Services -------------------------------
(***************************************************************************)
(* The services that keep two things in step on their own: one TLC run      *)
(* explores each of them from its own initial states. They share no state,  *)
(* so `part` is chosen at the beginning and the others stay where they are. *)
(***************************************************************************)
EXTENDS CampaignLinks

CONSTANTS
    AccountRequests, Companies, Company, AccountFaults,      \* MailboxAccounts
    RedialRequests, MaxVersion, RedialFaults,                \* Redials
    OfferRows, OfferDays, Holidays, LastTabled, LastDay,     \* OfferDeadline
    MaxTries, MaxSlips,
    Creations, Owners, Deletions, MaxMishaps,                \* CompanyUsers
    Clicks, Window, MaxSeconds, MaxPriority,                 \* CallLog
    Connections, HubPods, PodOf, Slots, MaxNotices,          \* CallStream
    Grants, CalendarCalls, MaxRotations, NoGrant,            \* GoogleTokens
    Domains, Askers, Ttl, MaxHours,                          \* DomainHealth
    PollPods, Messages, Kind, Known, Faults, PollFaults      \* MailIngest

VARIABLES
    part,
    account, mailbox, request, stale, crossing, orphaned, accountFaults,
    redial, calendar, connected, call, slips, losses,
    today, deadline, send, form, decided, printed, strayed,
    keycloak, users, strangers, creation, deletion, entered, doubts, mishaps,
    clock, calls, statuses, click, together, blind,
    handler, clients, closed, queue, redis, sending, away, notices,
    row, google, tokenCall, consent, wish, astray, missed,
    dns, cache, dnsClock, look, since, lastGone,
    uid, uidNext, validity, old, synced, stored, answered, timeline,
    cursor, at, poll, pollFaults, unread, dropped

Accounts == INSTANCE MailboxAccounts
                WITH Requests <- AccountRequests, MaxFaults <- AccountFaults, crossed <- crossing,
                     faults <- accountFaults
Planned  == INSTANCE Redials
                WITH Requests <- RedialRequests, MaxFaults <- RedialFaults
Offer    == INSTANCE OfferDeadline
                WITH Rows <- OfferRows, Days <- OfferDays
Users    == INSTANCE CompanyUsers
Log      == INSTANCE CallLog
                WITH MaxClock <- MaxSeconds
Streams  == INSTANCE CallStream
                WITH Streams <- Connections, Pods <- HubPods
Tokens   == INSTANCE GoogleTokens
                WITH Calls <- CalendarCalls, call <- tokenCall
Health   == INSTANCE DomainHealth
                WITH MaxClock <- MaxHours, clock <- dnsClock
Ingest   == INSTANCE MailIngest
                WITH Pods <- PollPods, MaxFaults <- PollFaults, pc <- at, faults <- pollFaults

\* The days off of the table never fill two weeks.
ASSUME WorkingDaysReturn ==
    \A d \in 0..LastTabled : \E w \in d..(d + 14) : ~Offer!Weekend(w) /\ ~Offer!JpHoliday(w)

accountsVars == <<account, mailbox, request, stale, crossing, orphaned, accountFaults>>
redialsVars  == <<redial, calendar, connected, call, slips, losses>>
offerVars    == <<today, deadline, send, form, decided, printed, strayed>>
usersVars    == <<keycloak, users, strangers, creation, deletion, entered, doubts, mishaps>>
logVars      == <<clock, calls, statuses, click, together, blind>>
streamsVars  == <<handler, clients, closed, queue, redis, sending, away, notices>>
tokensVars   == <<row, google, tokenCall, consent, wish, astray, missed>>
healthVars   == <<dns, cache, dnsClock, look, since, lastGone>>
ingestVars   == <<uid, uidNext, validity, old, synced, stored, answered, timeline,
                  cursor, at, poll, pollFaults, unread, dropped>>

AllInit ==
    /\ part \in {"links", "accounts", "redials", "offer", "users", "log", "streams", "tokens",
                "health", "ingest"}
    /\ Init /\ Accounts!Init /\ Planned!Init /\ Offer!Init /\ Users!Init /\ Log!Init /\ Streams!Init
    /\ Tokens!Init /\ Health!Init /\ Ingest!Init
    /\ part # "accounts" => account = "none"
    /\ part # "redials" => connected
    /\ part # "health" => \A d \in Domains : dns[d] = "mx"
    /\ part # "offer" => \A r \in OfferRows : ~send[r].old

\* Every part but the one that runs stays.
Others ==
    /\ UNCHANGED part
    /\ IF part = "links" THEN TRUE ELSE UNCHANGED vars
    /\ IF part = "accounts" THEN TRUE ELSE UNCHANGED accountsVars
    /\ IF part = "redials" THEN TRUE ELSE UNCHANGED redialsVars
    /\ IF part = "offer" THEN TRUE ELSE UNCHANGED offerVars
    /\ IF part = "users" THEN TRUE ELSE UNCHANGED usersVars
    /\ IF part = "log" THEN TRUE ELSE UNCHANGED logVars
    /\ IF part = "streams" THEN TRUE ELSE UNCHANGED streamsVars
    /\ IF part = "tokens" THEN TRUE ELSE UNCHANGED tokensVars
    /\ IF part = "health" THEN TRUE ELSE UNCHANGED healthVars
    /\ IF part = "ingest" THEN TRUE ELSE UNCHANGED ingestVars

AllNext ==
    \/ part = "links"    /\ Next /\ Others
    \/ part = "accounts" /\ Accounts!Next /\ Others
    \/ part = "redials"  /\ Planned!Next /\ Others
    \/ part = "offer"    /\ Offer!Next /\ Others
    \/ part = "users"    /\ Users!Next /\ Others
    \/ part = "log"      /\ Log!Next /\ Others
    \/ part = "streams"  /\ Streams!Next /\ Others
    \/ part = "tokens"   /\ Tokens!Next /\ Others
    \/ part = "health"   /\ Health!Next /\ Others
    \/ part = "ingest"   /\ Ingest!Next /\ Others

allVars == <<part, vars, accountsVars, redialsVars, offerVars, usersVars, logVars, streamsVars,
             tokensVars, healthVars, ingestVars>>

AllSpec == AllInit /\ [][AllNext]_allVars

\* With the fairness of the parts that promise that something happens.
FairSpec ==
    /\ AllSpec
    /\ Streams!Fairness
    /\ \A p \in PollPods : WF_allVars(part = "ingest" /\ Ingest!PollStep(p) /\ Others)

AllTypesOK ==
    /\ part = "links"    => TypeOK
    /\ part = "accounts" => Accounts!TypeOK
    /\ part = "redials"  => Planned!TypeOK
    /\ part = "offer"    => Offer!TypeOK
    /\ part = "users"    => Users!TypeOK
    /\ part = "log"      => Log!TypeOK
    /\ part = "streams"  => Streams!TypeOK
    /\ part = "tokens"   => Tokens!TypeOK
    /\ part = "health"   => Health!TypeOK
    /\ part = "ingest"   => Ingest!TypeOK

\* The properties of the parts, as their modules state them.
CredentialsAgree == Accounts!CredentialsAgree
NoOrphan         == Accounts!NoOrphan
EventMatchesRow  == Planned!EventMatchesRow
OneDeadline      == Offer!OneDeadline
CreationIsWhole  == Users!CreationIsWhole
ClicksCountOnce  == Log!ClicksCountOnce
NoSendOnClosed   == Streams!NoSendOnClosed
ConnectionIsTheUsers == Tokens!ConnectionIsTheUsers
RefusedOnEvidence == Health!RefusedOnEvidence
ClientsLeave     == Streams!ClientsLeave
EveryMailFiled   == Ingest!EveryMailFiled
=============================================================================

---------------------------- MODULE DomainHealth ----------------------------
(***************************************************************************)
(* Whether a domain takes mail (MXChecker, internal/campaign/health.go).   *)
(*                                                                         *)
(* The send worker asks for one domain, DraftCreator for all domains of    *)
(* its recipients at once; both use the table DomainHealth as a cache and  *)
(* may look up one domain at the same time. A row that is refused once is  *)
(* skipped for good, so a wrong "no" loses a recipient.                    *)
(***************************************************************************)
EXTENDS Integers, FiniteSets

CONSTANTS
    Domains,
    Askers,     \* sends and drafts under way
    Ttl,        \* domainCacheTTL
    MaxClock    \* bound

VARIABLES
    dns,       \* what DNS has for each domain
    cache,     \* table DomainHealth: has_mx and checked_at
    clock,     \* one tick is longer than any lookup
    look,      \* where each asker is with each domain
    since,     \* when each asker began
    lastGone   \* history: when a domain was last without mail, or its address was asked for in vain

vars == <<dns, cache, clock, look, since, lastGone>>

Records == {"mx", "address", "nothing"}
Results == {"yes", "no", "unknown"}
Stages  == {"none", "mx", "host", "keep", "deny"} \cup Results
Ages    == -(Ttl + 1) .. MaxClock   \* the lowest: never

Never == -(Ttl + 1)

Init ==
    /\ dns \in [Domains -> Records]
    /\ cache = [d \in Domains |-> [has |-> "no", checked |-> Never]]
    /\ clock = 0
    /\ look = [a \in Askers |-> [d \in Domains |-> "none"]]
    /\ since = [a \in Askers |-> 0]
    /\ lastGone = [d \in Domains |-> IF dns[d] = "nothing" THEN 0 ELSE Never]

Idle(a) == \A d \in Domains : look[a][d] = "none"
Settled(a) == \A d \in Domains : look[a][d] \in Results \cup {"none"}

Goes(a, d, stage) == look' = [look EXCEPT ![a] = [look[a] EXCEPT ![d] = stage]]

\* Faulty: an entry is good for ever.
FreshForEver(d) == cache[d].checked # Never

\* A domain that is not in the table was never checked.
Fresh(d) == clock - cache[d].checked < Ttl

FromCache(d) == IF Fresh(d) THEN cache[d].has ELSE "mx"

-----------------------------------------------------------------------------
\* The worker, before it sends; a cache that cannot be read counts as empty.
Check(a, d) ==
    /\ Idle(a)
    /\ \E stage \in {FromCache(d), "mx"} : Goes(a, d, stage)
    /\ since' = [since EXCEPT ![a] = clock]
    /\ UNCHANGED <<dns, cache, clock, lastGone>>

\* A draft, for all domains of its recipients.
CheckMany(a) ==
    /\ Idle(a)
    /\ \/ look' = [look EXCEPT ![a] = [d \in Domains |-> FromCache(d)]]
       \/ look' = [look EXCEPT ![a] = [d \in Domains |-> "mx"]]
    /\ since' = [since EXCEPT ![a] = clock]
    /\ UNCHANGED <<dns, cache, clock, lastGone>>

\* Only "there is none" leads on to the address; a timeout decides nothing and is not kept.
LookupMX(a, d) ==
    /\ look[a][d] = "mx"
    /\ \E stage \in {IF dns[d] = "mx" THEN "keep" ELSE "host", "unknown"} : Goes(a, d, stage)
    /\ UNCHANGED <<dns, cache, clock, since, lastGone>>

\* Here every failure counts as "there is none", a timeout too.
LookupHost(a, d) ==
    /\ look[a][d] = "host"
    /\ \/ dns[d] = "address" /\ Goes(a, d, "keep") /\ UNCHANGED lastGone
       \/ Goes(a, d, "deny") /\ lastGone' = [lastGone EXCEPT ![d] = clock]
    /\ UNCHANGED <<dns, cache, clock, since>>

\* The result stands whether or not it could be written.
UpsertDomainHealth(a, d) ==
    LET answer == IF look[a][d] = "keep" THEN "yes" ELSE "no"
    IN  /\ look[a][d] \in {"keep", "deny"}
        /\ cache' \in {cache, [cache EXCEPT ![d] = [has |-> answer, checked |-> clock]]}
        /\ Goes(a, d, answer)
        /\ UNCHANGED <<dns, clock, since, lastGone>>

\* MXCheckBudget is spent: what was not begun or waits for the MX is left open, a
\* lookup of the address fails and counts as "no", and nothing can be written.
BudgetSpent(a) ==
    /\ ~Idle(a)
    /\ look' = [look EXCEPT ![a] = [d \in Domains |->
                  CASE look[a][d] = "mx" -> "unknown"
                    [] look[a][d] \in {"host", "deny"} -> "no"
                    [] look[a][d] = "keep" -> "yes"
                    [] OTHER -> look[a][d]]]
    /\ lastGone' = [d \in Domains |-> IF look[a][d] = "host" THEN clock ELSE lastGone[d]]
    /\ UNCHANGED <<dns, cache, clock, since>>

\* The row is skipped or sent, the draft is written.
Decide(a) ==
    /\ ~Idle(a) /\ Settled(a)
    /\ look' = [look EXCEPT ![a] = [d \in Domains |-> "none"]]
    /\ UNCHANGED <<dns, cache, clock, since, lastGone>>

-----------------------------------------------------------------------------
\* The owner of a domain changes its records.
RecordsChange(d) ==
    /\ dns' \in [Domains -> Records]
    /\ dns'[d] # dns[d] /\ \A e \in Domains \ {d} : dns'[e] = dns[e]
    /\ lastGone' = IF dns'[d] = "nothing" THEN [lastGone EXCEPT ![d] = clock] ELSE lastGone
    /\ UNCHANGED <<cache, clock, look, since>>

\* No lookup lasts for more than one tick.
Tick ==
    /\ clock < MaxClock
    /\ \A a \in Askers : Idle(a) \/ since[a] = clock
    /\ clock' = clock + 1
    /\ lastGone' = [d \in Domains |-> IF dns[d] = "nothing" THEN clock + 1 ELSE lastGone[d]]
    /\ UNCHANGED <<dns, cache, look, since>>

Next ==
    \/ \E a \in Askers :
         \/ CheckMany(a) \/ BudgetSpent(a) \/ Decide(a)
         \/ \E d \in Domains :
              Check(a, d) \/ LookupMX(a, d) \/ LookupHost(a, d) \/ UpsertDomainHealth(a, d)
    \/ \E d \in Domains : RecordsChange(d)
    \/ Tick

Spec == Init /\ [][Next]_vars

-----------------------------------------------------------------------------
(* Properties                                                              *)

TypeOK ==
    /\ dns \in [Domains -> Records]
    /\ cache \in [Domains -> [has : {"yes", "no"}, checked : Ages]]
    /\ clock \in 0..MaxClock
    /\ look \in [Askers -> [Domains -> Stages]]
    /\ since \in [Askers -> 0..MaxClock]
    /\ lastGone \in [Domains -> Ages]

\* Nobody is refused a mail because of what DNS said long ago, or could not say: the
\* domain was without mail at some time in the last thirty days ("判定不能なときは
\* 送信対象に残す", health.go:82), although a slow lookup may store its "no" after a
\* newer "yes" and date it later than it was. The lookup of the address is left
\* out: its failures are taken for "there is none".
RefusedOnEvidence ==
    [][\A a \in Askers, d \in Domains :
          look'[a][d] = "no" /\ look[a][d] # "no" => clock - lastGone'[d] <= Ttl]_vars
=============================================================================

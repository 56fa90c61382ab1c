----------------------------- MODULE DripPromise -----------------------------
(***************************************************************************)
(* What a drip campaign promises each recipient, without workers, locks or *)
(* statuses: mails come one at a time and in order, each at most once, and *)
(* none is begun while the recipient is barred (answered, bounced or on    *)
(* the suppression list).                                                  *)
(***************************************************************************)
EXTENDS Naturals

CONSTANTS Recipients, MaxStep

VARIABLES
    phase,   \* "open": may be taken up; "taken": a mail is being prepared;
             \* "out": it left, not yet recorded; "closed": nothing more comes
    mails,   \* number of mails that left for each recipient
    barred   \* recipients nothing may be begun for

pvars == <<phase, mails, barred>>

Init ==
    /\ phase = [r \in Recipients |-> "open"]
    /\ mails = [r \in Recipients |-> 0]
    /\ barred = {}

Take(r) ==
    /\ phase[r] = "open"
    /\ r \notin barred
    /\ phase' = [phase EXCEPT ![r] = "taken"]
    /\ UNCHANGED <<mails, barred>>

Send(r) ==
    /\ phase[r] = "taken"
    /\ mails[r] < MaxStep
    /\ phase' = [phase EXCEPT ![r] = "out"]
    /\ mails' = [mails EXCEPT ![r] = @ + 1]
    /\ UNCHANGED barred

\* Nothing left: the recipient may be tried again.
GiveBack(r) ==
    /\ phase[r] = "taken"
    /\ phase' = [phase EXCEPT ![r] = "open"]
    /\ UNCHANGED <<mails, barred>>

\* The mail is recorded and the sequence goes on.
GoOn(r) ==
    /\ phase[r] = "out"
    /\ phase' = [phase EXCEPT ![r] = "open"]
    /\ UNCHANGED <<mails, barred>>

\* Closing is for good: no action leaves "closed".
Close(R) ==
    /\ R # {}
    /\ \A r \in R : phase[r] # "closed"
    /\ phase' = [r \in Recipients |-> IF r \in R THEN "closed" ELSE phase[r]]
    /\ UNCHANGED <<mails, barred>>

SetBarred(B) ==
    /\ barred' = B
    /\ UNCHANGED <<phase, mails>>

Next ==
    \/ \E r \in Recipients : Take(r) \/ Send(r) \/ GiveBack(r) \/ GoOn(r)
    \/ \E R \in SUBSET Recipients : Close(R)
    \/ \E B \in SUBSET Recipients : SetBarred(B)

Spec == Init /\ [][Next]_pvars
=============================================================================

---------------------------- MODULE GoogleTokens ----------------------------
(***************************************************************************)
(* The row of one user in UserGoogleToken (internal/oauth/google.go,       *)
(* internal/gcal/real.go, internal/service/googleoauth).                   *)
(*                                                                         *)
(* The user connects an account and disconnects it; every calendar call    *)
(* reads the row, refreshes the access token when it has expired, and      *)
(* writes back what Google gave it: a new access token, a new refresh      *)
(* token, or the row's removal when the old one is refused. Nothing ties   *)
(* the write to the row that was read.                                     *)
(***************************************************************************)
EXTENDS Naturals, FiniteSets

CONSTANTS
    Grants,       \* consents of the user, each with an account of its own
    Calls,        \* calls of the calendar that may be under way
    MaxRotations, \* bound: new refresh tokens of a grant
    NoGrant

VARIABLES
    row,      \* UserGoogleToken: grant and number of the refresh token, owner of the access token
    google,   \* what Google says of each grant: state and number of its refresh token
    call,     \* where each call is and what it has read
    consent,  \* grants that were exchanged and not written yet
    wish,     \* history: what the user asked for last, a grant or NoGrant
    astray,   \* history: grants of calls that were under way when the user's wish was written
    missed    \* history: a call was refused a refresh token that another had rotated,
              \* or a rotated one was not written

vars == <<row, google, call, consent, wish, astray, missed>>

NoRow == [grant |-> NoGrant, number |-> 0, access |-> NoGrant]
Row == [grant : Grants \cup {NoGrant}, number : 0..MaxRotations, access : Grants \cup {NoGrant}]
Rest == [at |-> "idle", row |-> NoRow]

Init ==
    /\ row = NoRow
    /\ google = [g \in Grants |-> [state |-> "unused", number |-> 0]]
    /\ call = [c \in Calls |-> Rest]
    /\ consent = {}
    /\ wish = NoGrant
    /\ astray = {}
    /\ missed = FALSE

Connected == row.grant # NoGrant
Live(g) == google[g].state = "live"
UnderWay == {call[c].row.grant : c \in {b \in Calls : call[b].at # "idle"}}

Goes(c, stage, held) == call' = [call EXCEPT ![c] = [at |-> stage, row |-> held]]
Ends(c) == Goes(c, "idle", NoRow)

-----------------------------------------------------------------------------
\* The user. What he asks for is his wish from the moment it is in the row.
Wishes(g) ==
    /\ wish' = g
    /\ astray' = astray \cup UnderWay
    /\ UNCHANGED missed

\* The callback: Google makes a grant of the code, ...
Exchange(g) ==
    /\ google[g].state = "unused"
    /\ google' = [google EXCEPT ![g].state = "live"]
    /\ consent' = consent \cup {g}
    /\ UNCHANGED <<row, call, wish, astray, missed>>

\* ... which replaces the one in the row; or the write fails and the page says so.
UpsertConsent(g) ==
    /\ g \in consent
    /\ consent' = consent \ {g}
    /\ \/ /\ row' = [grant |-> g, number |-> google[g].number, access |-> g]
          /\ Wishes(g)
       \/ UNCHANGED <<row, wish, astray, missed>>
    /\ UNCHANGED <<google, call>>

DisconnectGoogle ==
    /\ row' = NoRow
    /\ Wishes(NoGrant)
    /\ UNCHANGED <<google, call, consent>>

\* At Google, without the program.
RevokeAtGoogle(g) ==
    /\ Live(g)
    /\ google' = [google EXCEPT ![g].state = "revoked"]
    /\ UNCHANGED <<row, call, consent, wish, astray, missed>>

-----------------------------------------------------------------------------
\* newService: the row as it is now; its access token may have expired.
TokenSource(c) ==
    /\ call[c].at = "idle" /\ Connected
    /\ \/ row.access # NoGrant /\ Goes(c, "use", row)
       \/ Goes(c, "refresh", row)
    /\ UNCHANGED <<row, google, consent, wish, astray, missed>>

\* Google refuses a grant that was revoked and a refresh token that was replaced.
Refused(c) ==
    LET held == call[c].row
    IN  ~Live(held.grant) \/ held.number # google[held.grant].number

\* The token endpoint answers with an access token, now and then with a new
\* refresh token, with invalid_grant, or not at all.
Token(c) ==
    LET held == call[c].row
        g == held.grant
    IN  /\ call[c].at = "refresh"
        /\ \/ /\ ~Refused(c)
              /\ Goes(c, "access", [held EXCEPT !.access = g])
              /\ UNCHANGED <<google, missed>>
           \/ /\ ~Refused(c) /\ google[g].number < MaxRotations
              /\ google' = [google EXCEPT ![g].number = held.number + 1]
              /\ Goes(c, "rotated", [held EXCEPT !.access = g, !.number = held.number + 1])
              /\ UNCHANGED missed
           \/ /\ Refused(c)
              /\ Goes(c, "drop", held)
              /\ missed' = (missed \/ Live(g))
              /\ UNCHANGED google
           \/ /\ Ends(c)
              /\ UNCHANGED <<google, missed>>
        /\ UNCHANGED <<row, consent, wish, astray>>

\* An UPDATE of whatever row the user has now; a failure is only logged.
UpdateUserGoogleTokenAccess(c) ==
    /\ call[c].at = "access"
    /\ row' \in {row, IF Connected THEN [row EXCEPT !.access = call[c].row.access] ELSE row}
    /\ Goes(c, "use", call[c].row)
    /\ UNCHANGED <<google, consent, wish, astray, missed>>

\* An upsert: it makes the row again if it is gone.
UpsertRotated(c) ==
    /\ call[c].at = "rotated"
    /\ \/ row' = call[c].row /\ UNCHANGED missed
       \/ UNCHANGED row /\ missed' = TRUE
    /\ Goes(c, "use", call[c].row)
    /\ UNCHANGED <<google, consent, wish, astray>>

\* Faulty: whatever keeps the refresh from succeeding costs the connection.
DropAlways(c) ==
    /\ call[c].at \in {"drop", "refresh"}
    /\ row' = NoRow
    /\ Ends(c)
    /\ UNCHANGED <<google, consent, wish, astray, missed>>

\* handleTokenError, after ErrTokenRevoked only; or the DELETE fails.
DropRevoked(c) ==
    /\ call[c].at = "drop"
    /\ row' \in {row, NoRow}
    /\ Ends(c)
    /\ UNCHANGED <<google, consent, wish, astray, missed>>

\* The event is made in the account of the access token, or refused; or the pod ends before.
Finish(c) ==
    /\ call[c].at # "idle"
    /\ Ends(c)
    /\ missed' = (missed \/ call[c].at = "rotated")
    /\ UNCHANGED <<row, google, consent, wish, astray>>

Next ==
    \/ \E g \in Grants : Exchange(g) \/ UpsertConsent(g) \/ RevokeAtGoogle(g)
    \/ DisconnectGoogle
    \/ \E c \in Calls :
         \/ TokenSource(c) \/ Token(c) \/ UpdateUserGoogleTokenAccess(c) \/ UpsertRotated(c)
         \/ DropRevoked(c) \/ Finish(c)

Spec == Init /\ [][Next]_vars

-----------------------------------------------------------------------------
(* Properties                                                              *)

TypeOK ==
    /\ row \in Row
    /\ google \in [Grants -> [state : {"unused", "live", "revoked"}, number : 0..MaxRotations]]
    /\ call \in [Calls -> [at : {"idle", "use", "refresh", "access", "rotated", "drop"}, row : Row]]
    /\ consent \subseteq Grants
    /\ wish \in Grants \cup {NoGrant}
    /\ astray \subseteq Grants
    /\ missed \in BOOLEAN

\* The row is what the user asked for last, whatever calls refresh, rotate and
\* fail meanwhile: an account other than the connected one, or one he disconnected,
\* is there only if a call with its token was under way when he said so; and the
\* connection goes only when Google no longer honours it ("再連携を促す", real.go:22-23)
\* or when calls got in each other's way over a rotated token.
ConnectionIsTheUsers ==
    /\ {row.grant, row.access} \ {NoGrant, wish} \subseteq astray
    /\ wish # NoGrant /\ Live(wish) /\ astray = {} /\ ~missed =>
          /\ row.grant = wish
          /\ \/ row.number = google[wish].number
             \/ \E c \in Calls : call[c].at = "rotated" /\ call[c].row.number = google[wish].number
=============================================================================

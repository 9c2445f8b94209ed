------------------------------- MODULE Sessions -------------------------------
(***************************************************************************)
(* One signed-in browser: its tabs share the refresh token in localStorage *)
(* and each keeps an access token of its own in memory.  A 401, or the     *)
(* load of a page, exchanges the refresh token for a new pair              *)
(* (lib/session.ts, lib/api.ts, app/providers.tsx); the server revokes a   *)
(* refresh token when it is used (AuthService.refreshTokens).              *)
(*                                                                         *)
(* Code of one tab that runs without waiting is one step; an answer may    *)
(* come at any time or be lost.  A pair of tokens is a number, 0 is none.  *)
(***************************************************************************)
EXTENDS Naturals, FiniteSets

CONSTANTS Tabs, Calls,  \* tabs, API calls of one tab
          MaxEvents     \* bound: expired tokens and page loads

None == 0
NoTab == "no tab"

ASSUME SessionsAssumption == MaxEvents \in Nat /\ NoTab \notin Tabs

VARIABLES
    stored,   \* localStorage axon_tickets_rt
    access,   \* _accessToken of each tab
    call,     \* API calls of each tab
    restore,  \* AuthHydrator of each tab
    flight,   \* inFlight of each tab: the exchange under way
    locks,    \* the browser has navigator.locks
    lock,     \* the tab that holds axon_tickets:session-refresh
    live,     \* server: refresh:<user>:<jti>
    valid,    \* server: access tokens that have not expired
    issued,   \* server: pairs ever made
    leaving,  \* sign-out of each tab: "no", "asked", "gone"
    events,
    broken,   \* history: a token was revoked and its successor never arrived, the
              \* stored token ran out, or /auth/me refused a page load
    late,     \* history: an exchange was under way when somebody signed out
    kicked    \* history: tabs told that their session has expired

sessionVars == <<stored, access, call, restore, flight, locks, lock, live, valid,
                 issued, leaving, events, broken, late, kicked>>

server == <<live, valid, issued>>
history == <<events, broken, late, kicked>>

Resting == [at |-> "none", sent |-> None, got |-> None, second |-> FALSE]
Unsent == [at |-> "idle", with |-> None, again |-> FALSE]

SessionTypeOK ==
    /\ stored \in Nat
    /\ access \in [Tabs -> Nat]
    /\ call \in [Tabs -> [Calls -> [at : {"idle", "sent", "waits"}, with : Nat,
                                    again : BOOLEAN]]]
    /\ restore \in [Tabs -> [at : {"no", "waits", "me"}, with : Nat]]
    /\ flight \in [Tabs -> [at : {"none", "lock", "post", "checked", "revoked",
                                  "answered", "refused", "failed"},
                            sent : Nat, got : Nat, second : BOOLEAN]]
    /\ locks \in BOOLEAN /\ lock \in Tabs \cup {NoTab}
    /\ live \subseteq Nat /\ valid \subseteq Nat /\ issued \in Nat
    /\ leaving \in [Tabs -> {"no", "asked", "gone"}]
    /\ events \in 0 .. MaxEvents
    /\ broken \in BOOLEAN /\ late \in BOOLEAN /\ kicked \subseteq Tabs

Here(t) == leaving[t] # "gone" /\ t \notin kicked

\* Two tabs of a stored session are being opened.
SessionInit ==
    /\ stored = 1 /\ live = {1} /\ issued = 1 /\ valid = {}
    /\ access = [t \in Tabs |-> None]
    /\ call = [t \in Tabs |-> [c \in Calls |-> Unsent]]
    /\ restore = [t \in Tabs |-> [at |-> "waits", with |-> None]]
    /\ flight = [t \in Tabs |-> [Resting EXCEPT !.at = "lock"]]
    /\ locks \in BOOLEAN /\ lock = NoTab
    /\ leaving = [t \in Tabs |-> "no"]
    /\ events = 0 /\ broken = FALSE /\ late = FALSE /\ kicked = {}

-----------------------------------------------------------------------------
(* lib/api.ts: a call is sent with the token of its tab *)

Send(t, c) ==
    /\ Here(t) /\ call[t][c] = Unsent
    /\ call' = [call EXCEPT ![t][c] = [at |-> "sent", with |-> access[t], again |-> FALSE]]
    /\ UNCHANGED <<stored, access, restore, flight, locks, lock, leaving, server, history>>

\* Any answer but 401, or none at all: the call is over.
Answered(t, c) ==
    /\ call[t][c].at = "sent"
    /\ call' = [call EXCEPT ![t][c] = Unsent]
    /\ UNCHANGED <<stored, access, restore, flight, locks, lock, leaving, server, history>>

\* A call that was sent before an exchange finished does not start another one.
NewerToken(t, c) == access[t] # None /\ access[t] # call[t][c].with

\* Mutant: every late 401 exchanges the token once more.
NeverNewer(t, c) == FALSE

RetryAtOnce(t, c) == NewerToken(t, c)

\* refreshSession: calls share the exchange that is under way in their tab.
Joins(t) ==
    flight' = IF flight[t].at = "none"
                THEN [flight EXCEPT ![t] = [Resting EXCEPT !.at = "lock"]]
                ELSE flight

Unauthorized(t, c) ==
    /\ call[t][c].at = "sent" /\ call[t][c].with \notin valid
    /\ \/ /\ call[t][c].again
          /\ call' = [call EXCEPT ![t][c] = Unsent]
          /\ UNCHANGED flight
       \/ /\ ~call[t][c].again /\ RetryAtOnce(t, c)
          /\ call' = [call EXCEPT ![t][c] = [at |-> "sent", with |-> access[t], again |-> TRUE]]
          /\ UNCHANGED flight
       \/ /\ ~call[t][c].again /\ ~RetryAtOnce(t, c)
          /\ call' = [call EXCEPT ![t][c].at = "waits"]
          /\ Joins(t)
    /\ UNCHANGED <<stored, access, restore, locks, lock, leaving, server, history>>

-----------------------------------------------------------------------------
(* lib/session.ts: rotate, one tab after the other where the browser has locks *)

\* Mutant: the tabs exchange side by side.
NoQueue(t) == TRUE

MayRotate(t) == ~locks \/ lock = NoTab

Waiting(t) == {c \in Calls : call[t][c].at = "waits"}

\* The promise is settled: everybody in the tab who waited goes on.
Settles(t, waiting) ==
    /\ flight' = [flight EXCEPT ![t] = Resting]
    /\ call' = [call EXCEPT ![t] = [c \in Calls |-> IF c \in Waiting(t) THEN waiting ELSE call[t][c]]]

Releases(t) == lock' = IF lock = t THEN NoTab ELSE lock

\* Mutant: the lock is handed back only after a success.
KeepsLock(t) == UNCHANGED lock

ReleasesAfterFailure(t) == Releases(t)

\* clearAuth and the way to the sign-in page.
SignedOut(t) ==
    /\ stored' = None
    /\ access' = [access EXCEPT ![t] = None]
    /\ restore' = [restore EXCEPT ![t] = [at |-> "no", with |-> None]]

\* SessionExpiredError: for a call and for AuthHydrator alike.
Expires(t) ==
    /\ SignedOut(t)
    /\ Settles(t, Unsent)
    /\ Releases(t)
    /\ kicked' = kicked \cup {t}
    /\ UNCHANGED <<locks, leaving, server, events, broken, late>>

Granted(t) ==
    /\ flight[t].at = "lock" /\ MayRotate(t)
    /\ \/ /\ stored = None
          /\ Expires(t)
       \/ /\ stored # None
          /\ flight' = [flight EXCEPT ![t] = [Resting EXCEPT !.at = "post", !.sent = stored]]
          /\ lock' = IF locks THEN t ELSE lock
          /\ UNCHANGED <<stored, access, call, restore, locks, leaving, server, history>>

\* refreshTokens looks the token up ...
ServerChecks(t) ==
    /\ flight[t].at = "post"
    /\ flight' = [flight EXCEPT ![t].at = IF flight[t].sent \in live THEN "checked" ELSE "refused"]
    /\ UNCHANGED <<stored, access, call, restore, locks, lock, leaving, server, history>>

\* ... revokes it ...
ServerRevokes(t) ==
    /\ flight[t].at = "checked"
    /\ live' = live \ {flight[t].sent}
    /\ flight' = [flight EXCEPT ![t].at = "revoked"]
    /\ UNCHANGED <<stored, access, call, restore, locks, lock, leaving, valid, issued, history>>

\* ... and stores a new one, for a new pair.
ServerIssues(t) ==
    /\ flight[t].at = "revoked"
    /\ issued' = issued + 1
    /\ live' = live \cup {issued'}
    /\ valid' = valid \cup {issued'}
    /\ flight' = [flight EXCEPT ![t].at = "answered", ![t].got = issued']
    /\ UNCHANGED <<stored, access, call, restore, locks, lock, leaving, history>>

\* No answer, or any error but 401, with the sent token as it was.
RequestLost(t) ==
    /\ flight[t].at \in {"post", "checked"}
    /\ flight' = [flight EXCEPT ![t].at = "failed"]
    /\ UNCHANGED <<stored, access, call, restore, locks, lock, leaving, server, history>>

\* The same, with the sent token revoked: its successor was not stored, or the
\* answer that carried it is lost.  A server that goes on with a request its tab has
\* given up counts as one that had revoked the token before.
AnswerLost(t) ==
    /\ flight[t].at \in {"revoked", "answered"}
    /\ flight' = [flight EXCEPT ![t].at = "failed"]
    /\ broken' = TRUE
    /\ UNCHANGED <<stored, access, call, restore, locks, lock, leaving, server, events,
                   late, kicked>>

Succeeds(t) == LET pair == flight[t].got IN
    /\ flight[t].at = "answered"
    /\ stored' = pair
    /\ access' = [access EXCEPT ![t] = pair]
    /\ Settles(t, [at |-> "sent", with |-> pair, again |-> TRUE])
    /\ restore' = IF restore[t].at = "waits"
                    THEN [restore EXCEPT ![t] = [at |-> "me", with |-> pair]] ELSE restore
    /\ Releases(t)
    /\ UNCHANGED <<locks, leaving, server, history>>

\* Another tab may have stored a newer token while this one was refused.
Refused(t) ==
    /\ flight[t].at = "refused"
    /\ \/ /\ ~flight[t].second /\ stored \notin {None, flight[t].sent}
          /\ flight' = [flight EXCEPT ![t].at = "post", ![t].sent = stored, ![t].second = TRUE]
          /\ UNCHANGED <<stored, access, call, restore, locks, lock, leaving, server, history>>
       \/ /\ flight[t].second \/ stored \in {None, flight[t].sent}
          /\ Expires(t)

\* An outage keeps the stored session.
Fails(t) ==
    /\ flight[t].at = "failed"
    /\ Settles(t, Unsent)
    /\ restore' = IF restore[t].at = "waits"
                    THEN [restore EXCEPT ![t].at = "no"] ELSE restore
    /\ ReleasesAfterFailure(t)
    /\ UNCHANGED <<stored, access, locks, leaving, server, history>>

-----------------------------------------------------------------------------
(* app/providers.tsx: AuthHydrator, once per page load *)

\* Mutant: the token this tab received, whatever another one has done since.
OwnToken(t) == restore[t].with

Newest(t) == stored

Latest(t) == Newest(t)

Restored(t) ==
    /\ restore[t].at = "me"
    /\ IF Latest(t) = None
         THEN SignedOut(t)
         ELSE /\ stored' = Latest(t)
              /\ access' = [access EXCEPT ![t] = restore[t].with]
              /\ restore' = [restore EXCEPT ![t] = [at |-> "no", with |-> None]]
    /\ UNCHANGED <<call, flight, locks, lock, leaving, server, history>>

\* /auth/me failed: the stored session stays for a reload ...
RestoreFails(t) ==
    /\ restore[t].at = "me"
    /\ restore' = [restore EXCEPT ![t] = [at |-> "no", with |-> None]]
    /\ UNCHANGED <<stored, access, call, flight, locks, lock, leaving, server, history>>

\* ... unless the answer was 401, 403 or 404.
RestoreRefused(t) ==
    /\ restore[t].at = "me"
    /\ SignedOut(t)
    /\ broken' = TRUE
    /\ UNCHANGED <<call, flight, locks, lock, leaving, server, events, late, kicked>>

\* The page is loaded anew.  While the server works on an exchange it could as
\* well be loaded a moment later.
Reload(t) ==
    /\ Here(t) /\ leaving[t] = "no" /\ events < MaxEvents
    /\ flight[t].at \in {"none", "lock", "answered"}
    /\ events' = events + 1
    /\ broken' = (broken \/ flight[t].at = "answered")
    /\ access' = [access EXCEPT ![t] = None]
    /\ call' = [call EXCEPT ![t] = [c \in Calls |-> Unsent]]
    /\ restore' = [restore EXCEPT ![t] = [at |-> IF stored = None THEN "no" ELSE "waits",
                                          with |-> None]]
    /\ flight' = [flight EXCEPT ![t] = IF stored = None THEN Resting
                                       ELSE [Resting EXCEPT !.at = "lock"]]
    /\ Releases(t)
    /\ UNCHANGED <<stored, locks, leaving, server, late, kicked>>

-----------------------------------------------------------------------------
(* Time, and a person who signs out in one tab *)

\* A quarter of an hour; a page is restored, or not, within a minute.
AccessExpires(t) ==
    /\ events < MaxEvents
    /\ access[t] \in valid /\ restore[t].at # "me"
    /\ events' = events + 1
    /\ valid' = valid \ {access[t]}
    /\ UNCHANGED <<stored, access, call, restore, flight, locks, lock, live, issued,
                   leaving, broken, late, kicked>>

\* Seven days.
RefreshExpires ==
    /\ events < MaxEvents
    /\ stored \in live
    /\ events' = events + 1
    /\ live' = live \ {stored}
    /\ broken' = TRUE
    /\ UNCHANGED <<stored, access, call, restore, flight, locks, lock, valid, issued,
                   leaving, late, kicked>>

\* POST /auth/logout: revoked, unless the access token has expired.
AsksToLeave(t) ==
    /\ Here(t) /\ leaving[t] = "no" /\ restore[t].at = "no" /\ stored # None
    /\ leaving' = [leaving EXCEPT ![t] = "asked"]
    /\ live' = IF access[t] \in valid THEN live \ {stored} ELSE live
    /\ UNCHANGED <<stored, access, call, restore, flight, locks, lock, valid, issued, history>>

Exchanging(t) == flight[t].at \notin {"none", "lock"}

Leaves(t) ==
    /\ leaving[t] = "asked"
    /\ SignedOut(t)
    /\ leaving' = [leaving EXCEPT ![t] = "gone"]
    /\ late' = (late \/ \E s \in Tabs : Exchanging(s))
    /\ UNCHANGED <<call, flight, locks, lock, server, events, broken, kicked>>

-----------------------------------------------------------------------------
CallStep(t, c) == Answered(t, c) \/ Unauthorized(t, c)

ExchangeStep(t) ==
    \/ ServerChecks(t) \/ ServerRevokes(t) \/ ServerIssues(t)
    \/ Succeeds(t) \/ Refused(t) \/ Fails(t)

HydratorStep(t) == Restored(t) \/ RestoreFails(t) \/ RestoreRefused(t)

TabStep(t) ==
    \/ \E c \in Calls : Send(t, c) \/ CallStep(t, c)
    \/ Granted(t) \/ ExchangeStep(t) \/ RequestLost(t) \/ AnswerLost(t)
    \/ HydratorStep(t) \/ Reload(t) \/ AccessExpires(t) \/ AsksToLeave(t) \/ Leaves(t)

SessionNext == RefreshExpires \/ \E t \in Tabs : TabStep(t)

\* Every request ends, if only by its timeout of 30 s, and the browser hands the
\* lock out in the order in which it was asked for.
Fairness ==
    \A t \in Tabs :
        /\ WF_sessionVars(ExchangeStep(t)) /\ SF_sessionVars(Granted(t))
        /\ WF_sessionVars(HydratorStep(t))
        /\ \A c \in Calls : WF_sessionVars(CallStep(t, c))

SessionSpec == SessionInit /\ [][SessionNext]_sessionVars /\ Fairness

-----------------------------------------------------------------------------
(* Properties *)

\* With locks, the tabs of a session keep it, and none is sent to the sign-in page,
\* however they refresh, reload and fail, until somebody signs out, an exchange is
\* lost after the old token was revoked, the stored token is a week old or
\* /auth/me refuses a page load.
NoForcedSignOut ==
    locks /\ ~broken /\ (\A t \in Tabs : leaving[t] = "no") =>
        kicked = {} /\ stored # None

\* A sign-out clears the session for good, unless a tab was exchanging the token
\* at that moment: nobody who was restoring a page puts it back.
SignOutHolds == (\E t \in Tabs : leaving[t] = "gone") /\ ~late => stored = None

\* An exchange never replaces an access token that still works: late answers to
\* calls of before, and the calls of a tab together, make one exchange.
RotatesOnlyExpired ==
    [][\A t \in Tabs :
          access[t] # None /\ access'[t] > access[t] => access[t] \notin valid]_sessionVars

\* No exchange, and so no call and no page load that waits for one, hangs for
\* ever, whatever is lost on the way and whichever tab is closed with the lock.
ExchangesSettle == \A t \in Tabs : flight[t].at # "none" ~> flight[t].at = "none"
=============================================================================

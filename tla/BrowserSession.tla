---------------------------- MODULE BrowserSession ----------------------------
(***************************************************************************)
(* Session renewal as the browser does it: packages/api-client/src/http.ts *)
(* in each tab, one cookie jar for all of them, and the server of module   *)
(* Sessions behind /v1/auth/refresh.  A 401 renews the session once per    *)
(* tab and retries the call; the renewals of two tabs know nothing of each *)
(* other and carry whatever cookie the jar held when they were sent.       *)
(***************************************************************************)
EXTENDS Sessions

CONSTANTS
    Calls,         \* bound: Calls[t], the calls tab t runs at once
    Unlucky        \* bound: tabs whose renewals may be lost, turned away or aborted

ASSUME BSAssumption ==
    /\ DOMAIN Calls = Requests
    /\ Unlucky \subseteq Requests

VARIABLES
    jar,        \* the cookies: the refresh token, and whether the access token is valid
    call,       \* call[t][c]: where apiRequest c of tab t is
    flight,     \* flight[t]: refreshInFlight of tab t, with the cookie it carries
    blocked,    \* blocked[t]: refreshBlockedUntil lies ahead
    expired,    \* expired[t]: onSessionExpired was called in t
    ended,      \* history: logout, revocation or expiry ended the session
    clash,      \* history: two tabs renewed at once
    cut,        \* history: the API failed after it had read a renewal's token
    missed,     \* history: what the API answered to a renewal was lost
    failed      \* history: failed[t]: a renewal of t had no answer of the API's

mishaps == <<cut, missed, failed>>
clientVars == <<jar, call, flight, blocked, expired, ended, clash, mishaps>>
vars == <<serverVars, clientVars>>

(* Each tab has at most one renewal in flight, in a request slot of its own. *)
Tabs == Requests
Where == {"idle", "sent", "denied", "waiting", "retry"}
Cookie == Tokens \union {NoToken}
NoFlight == [step |-> "none", cookie |-> NoToken]
Empty == [refresh |-> NoToken, access |-> FALSE]

ClientTypeOK ==
    /\ SessionsTypeOK
    /\ jar \in [refresh : Cookie, access : BOOLEAN]
    /\ \A t \in Tabs : call[t] \in [Calls[t] -> Where]
    /\ flight \in [Tabs -> [step : {"none", "sent", "served"}, cookie : Cookie]]
    /\ blocked \in [Tabs -> BOOLEAN]
    /\ expired \in [Tabs -> BOOLEAN]
    /\ {ended, clash, cut, missed} \subseteq BOOLEAN
    /\ failed \in [Tabs -> BOOLEAN]

(* The user has just logged in: one live token, in the jar. *)
BrowserInit ==
    /\ \E k \in Tokens :
          /\ token = [j \in Tokens |-> IF j = k THEN "live" ELSE "none"]
          /\ root = [j \in Tokens |-> IF j = k THEN k ELSE NoToken]
          /\ jar = [refresh |-> k, access |-> TRUE]
    /\ link = [l \in Links |-> "none"]
    /\ deleted = FALSE
    /\ epoch = 0
    /\ born = [k \in Tokens |-> 0]
    /\ uses = [k \in Tokens |-> 0]
    /\ resets = [l \in Links |-> 0]
    /\ authReq = [r \in Requests |-> NoRequest]
    /\ call = [t \in Tabs |-> [c \in Calls[t] |-> "idle"]]
    /\ flight = [t \in Tabs |-> NoFlight]
    /\ blocked = [t \in Tabs |-> FALSE]
    /\ expired = [t \in Tabs |-> FALSE]
    /\ ended = FALSE
    /\ clash = FALSE
    /\ cut = FALSE
    /\ missed = FALSE
    /\ failed = [t \in Tabs |-> FALSE]

Lives(k) == k \in Tokens /\ token[k] = "live"

Moved(t, c, where) == call' = [call EXCEPT ![t][c] = where]

(* The calls of t that await the renewal all go on together. *)
Released(t, where) ==
    call' = [call EXCEPT ![t] =
               [c \in Calls[t] |-> IF @[c] = "waiting" THEN where ELSE @[c]]]

------------------------------------------------------------------------------
(* A call takes the cookies along; an expired access token earns a 401.  Each
   such call may cost a renewal, so no more are sent than there are tokens left. *)
Pending == UNION {{<<t, c>> : c \in {d \in Calls[t] : call[t][d] \in {"denied", "waiting"}}} :
                      t \in Tabs}
TokensLeft == {k \in Tokens : token[k] = "none"}

Send(t, c) ==
    /\ call[t][c] = "idle"
    /\ ~ expired[t]
    /\ jar.access \/ Cardinality(Pending) < Cardinality(TokensLeft)
    /\ Moved(t, c, IF jar.access THEN "sent" ELSE "denied")
    /\ UNCHANGED <<serverVars, jar, flight, blocked, expired, ended, clash, mishaps>>

Answered(t, c) ==
    /\ call[t][c] = "sent"
    /\ Moved(t, c, "idle")
    /\ UNCHANGED <<serverVars, jar, flight, blocked, expired, ended, clash, mishaps>>

(* A 401: give up, start the renewal, or join the one in flight. *)
GiveUp(t, c) ==
    /\ call[t][c] = "denied"
    /\ blocked[t]
    /\ Moved(t, c, "idle")
    /\ expired' = [expired EXCEPT ![t] = TRUE]
    /\ UNCHANGED <<serverVars, jar, flight, blocked, ended, clash, mishaps>>

StartRenewal(t, c) ==
    /\ call[t][c] = "denied"
    /\ ~ blocked[t]
    /\ flight[t] = NoFlight
    /\ Moved(t, c, "waiting")
    /\ flight' = [flight EXCEPT ![t] = [step |-> "sent", cookie |-> jar.refresh]]
    /\ clash' = (clash \/ \E x \in Tabs : flight[x] # NoFlight)
    /\ UNCHANGED <<serverVars, jar, blocked, expired, ended, mishaps>>

JoinRenewal(t, c) ==
    /\ call[t][c] = "denied"
    /\ ~ blocked[t]
    /\ flight[t] # NoFlight
    /\ Moved(t, c, "waiting")
    /\ UNCHANGED <<serverVars, jar, flight, blocked, expired, ended, clash, mishaps>>

(* The call is sent once more; whatever comes back is its answer. *)
Retry(t, c) ==
    /\ call[t][c] = "retry"
    /\ Moved(t, c, "idle")
    /\ UNCHANGED <<serverVars, jar, flight, blocked, expired, ended, clash, mishaps>>

------------------------------------------------------------------------------
(* The server reads the cookie the renewal carries, not the jar's. *)
Serve(t) ==
    /\ flight[t].step = "sent"
    /\ ReadToken(t, flight[t].cookie)
    /\ flight' = [flight EXCEPT ![t].step = "served"]
    /\ UNCHANGED <<jar, call, blocked, expired, ended, clash, mishaps>>

ServerStep(t) ==
    /\ \/ RevokeUsed(t) /\ UNCHANGED cut
       \/ (\E k \in Tokens : Issue(t, k)) /\ UNCHANGED cut
       \/ t \in Unlucky /\ Abort(t) /\ cut' = TRUE
    /\ UNCHANGED <<jar, call, flight, blocked, expired, ended, clash, missed, failed>>

(* Variants carrying a bug: the new refresh cookie is not stored, and the
   promise is not cleared. *)
RenewedOldCookie(t) ==
    /\ At(t, "granted")
    /\ flight[t].step = "served"
    /\ jar' = [jar EXCEPT !.access = TRUE]
    /\ Released(t, "retry")
    /\ flight' = [flight EXCEPT ![t] = NoFlight]
    /\ Answer(t)
    /\ UNCHANGED <<blocked, expired, ended, clash, mishaps>>
RenewedKeepsFlight(t) ==
    /\ At(t, "granted")
    /\ flight[t].step = "served"
    /\ jar' = [refresh |-> authReq[t].issued, access |-> TRUE]
    /\ Released(t, "retry")
    /\ Answer(t)
    /\ UNCHANGED <<flight, blocked, expired, ended, clash, mishaps>>

(* Set-Cookie of the answer, then refreshSession resolves true. *)
Renewed(t) ==
    /\ At(t, "granted")
    /\ flight[t].step = "served"
    /\ jar' = [refresh |-> authReq[t].issued, access |-> TRUE]
    /\ Released(t, "retry")
    /\ flight' = [flight EXCEPT ![t] = NoFlight]
    /\ Answer(t)
    /\ UNCHANGED <<blocked, expired, ended, clash, mishaps>>

(* Variant carrying a bug: the calls that wait are never told. *)
RefusedSilently(t) ==
    /\ At(t, "refused")
    /\ flight[t].step = "served"
    /\ jar' = Empty
    /\ flight' = [flight EXCEPT ![t] = NoFlight]
    /\ blocked' = [blocked EXCEPT ![t] = TRUE]
    /\ expired' = [expired EXCEPT ![t] = TRUE]
    /\ Answer(t)
    /\ UNCHANGED <<call, ended, clash, mishaps>>

(* Variant carrying a bug: the cookies stay. *)
RefusedKeepsCookie(t) ==
    /\ At(t, "refused")
    /\ flight[t].step = "served"
    /\ Released(t, "idle")
    /\ flight' = [flight EXCEPT ![t] = NoFlight]
    /\ blocked' = [blocked EXCEPT ![t] = TRUE]
    /\ expired' = [expired EXCEPT ![t] = TRUE]
    /\ Answer(t)
    /\ UNCHANGED <<jar, ended, clash, mishaps>>

(* A refused renewal clears the cookies, blocks the next ones and sends the
   user to /login. *)
Refused(t) ==
    /\ At(t, "refused")
    /\ flight[t].step = "served"
    /\ jar' = Empty
    /\ Released(t, "idle")
    /\ flight' = [flight EXCEPT ![t] = NoFlight]
    /\ blocked' = [blocked EXCEPT ![t] = TRUE]
    /\ expired' = [expired EXCEPT ![t] = TRUE]
    /\ Answer(t)
    /\ UNCHANGED <<ended, clash, mishaps>>

(* No answer at all: resolves false, without the cooldown. *)
Lost(t) ==
    /\ t \in Unlucky
    /\ \/ flight[t].step = "sent" /\ UNCHANGED authReq
       \/ flight[t].step = "served" /\ authReq[t].step \in {"granted", "refused"} /\ Proceed(t, NoRequest)
    /\ Released(t, "idle")
    /\ flight' = [flight EXCEPT ![t] = NoFlight]
    /\ expired' = [expired EXCEPT ![t] = TRUE]
    /\ failed' = [failed EXCEPT ![t] = TRUE]
    /\ missed' = (missed \/ flight[t].step = "served")
    /\ UNCHANGED <<rows, history, jar, blocked, ended, clash, cut>>

(* The host answers 502, 503 or 504: not ok, so the cooldown applies. *)
Unavailable(t) ==
    /\ t \in Unlucky
    /\ flight[t].step = "sent"
    /\ Released(t, "idle")
    /\ flight' = [flight EXCEPT ![t] = NoFlight]
    /\ blocked' = [blocked EXCEPT ![t] = TRUE]
    /\ expired' = [expired EXCEPT ![t] = TRUE]
    /\ failed' = [failed EXCEPT ![t] = TRUE]
    /\ UNCHANGED <<serverVars, jar, ended, clash, cut, missed>>

Cooldown(t) ==
    /\ blocked[t]
    /\ blocked' = [blocked EXCEPT ![t] = FALSE]
    /\ UNCHANGED <<serverVars, jar, call, flight, expired, ended, clash, mishaps>>

------------------------------------------------------------------------------
(* The access token lives 15 minutes. *)
AccessExpires ==
    /\ jar.access
    /\ jar' = [jar EXCEPT !.access = FALSE]
    /\ UNCHANGED <<serverVars, call, flight, blocked, expired, ended, clash, mishaps>>

(* POST /v1/auth/logout is behind JwtAuthGuard and never renews: without a
   valid access token it answers 401 and changes nothing. *)
LogoutClicked ==
    /\ jar.refresh # NoToken
    /\ IF jar.access
         THEN Logout(jar.refresh) /\ jar' = Empty /\ ended' = TRUE
         ELSE UNCHANGED <<serverVars, jar, ended>>
    /\ UNCHANGED <<call, flight, blocked, expired, clash, mishaps>>

(* Another device revokes the session, or the refresh token runs out. *)
EndedElsewhere ==
    /\ \E k \in Tokens : Expire(k) \/ (token[k] = "live" /\ RevokeSession(k))
    /\ ended' = TRUE
    /\ UNCHANGED <<jar, call, flight, blocked, expired, clash, mishaps>>

BrowserNext ==
    \/ \E t \in Tabs : \E c \in Calls[t] :
          \/ Send(t, c)
          \/ Answered(t, c)
          \/ GiveUp(t, c)
          \/ StartRenewal(t, c)
          \/ JoinRenewal(t, c)
          \/ Retry(t, c)
    \/ \E t \in Tabs :
          \/ Serve(t)
          \/ ServerStep(t)
          \/ Renewed(t)
          \/ Refused(t)
          \/ Lost(t)
          \/ Unavailable(t)
          \/ Cooldown(t)
    \/ AccessExpires
    \/ LogoutClicked
    \/ EndedElsewhere

BrowserSpec == BrowserInit /\ [][BrowserNext]_vars

(* Promises are settled, the server finishes what it has begun, and answers
   arrive; cookies need not expire, and nobody need click anything. *)
BrowserFairness ==
    \A t \in Tabs :
        /\ WF_vars(Serve(t))
        /\ WF_vars(ServerStep(t))
        /\ WF_vars(Renewed(t))
        /\ WF_vars(Refused(t))
        /\ \A c \in Calls[t] : WF_vars(Answered(t, c) \/ GiveUp(t, c) \/ StartRenewal(t, c)
                                        \/ JoinRenewal(t, c) \/ Retry(t, c))

FairBrowserSpec == BrowserSpec /\ BrowserFairness
------------------------------------------------------------------------------
(***************************************************************************)
(* However many calls of a tab meet a 401 together or one after another,   *)
(* and whatever other tabs do, the user is sent to /login for a cause: the *)
(* session was ended, this tab's own renewal had no answer of the API's,   *)
(* or the API's answer to some renewal was an error or was lost, or two    *)
(* tabs renewed at once.  A renewal that succeeds is none.                 *)
(***************************************************************************)
SignedOutForACause ==
    \A t \in Tabs : expired[t] => ended \/ failed[t] \/ cut \/ missed \/ clash

(***************************************************************************)
(* What the cookies are worth when no renewal is under way and nobody      *)
(* ended the session, lost renewals and two tabs at once included: the     *)
(* refresh token is live, or a tab has sent the user to /login.  A token   *)
(* that is not live stays in the jar only if an answer was lost; otherwise *)
(* the refusal has cleared it, so that middleware does not take it for a   *)
(* session that can be renewed.  And the jar is emptied only after one of  *)
(* these mishaps.                                                          *)
(***************************************************************************)
NoDeadCookieIsKept ==
    ~ ended /\ (\A t \in Tabs : flight[t] = NoFlight) =>
        /\ Lives(jar.refresh) \/ \E t \in Tabs : expired[t]
        /\ jar.refresh \in Tokens => Lives(jar.refresh) \/ missed
        /\ jar.refresh = NoToken => cut \/ missed \/ clash

(***************************************************************************)
(* A call that met a 401 is not left hanging: it is retried or given up,   *)
(* even when the renewal it awaits was started by another call.            *)
(***************************************************************************)
EveryCallSettles ==
    \A t \in Tabs : \A c \in Calls[t] : call[t][c] \in {"denied", "waiting"} ~> call[t][c] = "idle"

(***************************************************************************)
(* A waiting call always has a renewal to wait for, and a renewal always   *)
(* has a call waiting: the shared promise is cleared exactly when it       *)
(* settles.                                                                *)
(***************************************************************************)
WaitersHaveAFlight ==
    \A t \in Tabs : (\E c \in Calls[t] : call[t][c] = "waiting") <=> flight[t] # NoFlight
==============================================================================

------------------------------ MODULE Navigation ------------------------------
(***************************************************************************)
(* Where one browser window ends up: the redirects of the Next middleware, *)
(* of the onboarding entry page and of onSessionExpired, over the cookies, *)
(* the query cache and the API's renewal of the session.                   *)
(***************************************************************************)
EXTENDS Naturals

VARIABLES
    role,       \* the user's role
    account,    \* at the API: onboarding "started" or "finished", or "gone"
    page,       \* the page shown
    heading,    \* the page a navigation under way asks for
    hops,       \* redirects since the user last did something
    session,    \* the session cookie, by its JWT
    refresh,    \* the refresh cookie, by its row
    me,         \* the cached answer to auth/me
    status,     \* the cached answer to onboarding/state
    cooling,    \* refreshBlockedUntil lies ahead
    settled    \* the queries of the page got their answer

navVars == <<role, account, page, heading, hops, session, refresh, me, status, cooling, settled>>

(* Every other role has no area of its own, and lands on an open page. *)
ROLES == {"FOUNDER", "INVESTOR", "ADMIN", "MENTOR"}
PROTECTED_PREFIXES == {"/founder", "/investor", "/admin"}
AUTH_ROUTES == {"/login", "/register"}
Page == PROTECTED_PREFIXES \union AUTH_ROUTES
            \union {"/verify-email", "/onboarding", "wizard", "/mentors/bookings", "/"}
MaxHops == 2

PREFIX_ROLES(area) == {"ADMIN", CASE area = "/founder" -> "FOUNDER"
                                  [] area = "/investor" -> "INVESTOR"
                                  [] area = "/admin" -> "ADMIN"}
RoleHome == CASE role = "FOUNDER" -> "/founder"
              [] role = "INVESTOR" -> "/investor"
              [] role = "ADMIN" -> "/admin"
              [] role = "MENTOR" -> "/mentors/bookings"

NavTypeOK ==
    /\ role \in ROLES
    /\ account \in {"none", "started", "finished", "gone"}
    /\ page \in Page
    /\ heading \in Page \union {"none"}
    /\ hops \in 0..MaxHops + 1
    /\ session \in {"none", "valid", "expired"}
    /\ refresh \in {"none", "live", "dead"}
    /\ me \in {"unknown", "failed", "user", "nobody"}
    /\ status \in {"unknown", "started", "finished"}
    /\ cooling \in BOOLEAN /\ settled \in BOOLEAN

NavInit ==
    /\ role \in ROLES /\ account = "none"
    /\ page = "/" /\ heading = "none" /\ hops = 0
    /\ session = "none" /\ refresh = "none"
    /\ me = "unknown" /\ status = "unknown"
    /\ cooling = FALSE /\ settled = TRUE

AtRest == heading = "none"
Redirect(to) == heading' = to /\ hops' = IF hops > MaxHops THEN hops ELSE hops + 1
GoFor(to) == heading' = to /\ hops' = 0
(* A full load starts the client code anew. *)
Reload == me' = "unknown" /\ status' = "unknown" /\ cooling' = FALSE
------------------------------------------------------------------------------
(* readSession: a token that has expired is no session.  Variant carrying a
   bug: exp is not read. *)
SessionAnyAge == session # "none"
ReadSession == session = "valid"

(* The page the middleware answers a request with; the matcher leaves the
   other pages out. *)
Middleware(to) ==
    CASE to \in PROTECTED_PREFIXES /\ ~ ReadSession /\ refresh = "none" -> "/login"
      [] to \in PROTECTED_PREFIXES /\ ReadSession /\ role \notin PREFIX_ROLES(to) -> RoleHome
      [] to \in AUTH_ROUTES /\ ReadSession -> RoleHome
      [] OTHER -> to

Arrive ==
    /\ ~ AtRest
    /\ IF Middleware(heading) # heading
         THEN Redirect(Middleware(heading)) /\ UNCHANGED <<page, settled>>
         ELSE /\ page' = heading /\ heading' = "none" /\ settled' = FALSE
              /\ UNCHANGED hops
    /\ me' = IF me = "failed" THEN "unknown" ELSE me
    /\ UNCHANGED <<role, account, session, refresh, status, cooling>>

(* The page's queries, and useCurrentUser in its frame; the onboarding pages
   ask for the onboarding state too. *)
Asks == page \in PROTECTED_PREFIXES \union {"/onboarding", "wizard", "/mentors/bookings", "/verify-email"}
AsksStatus == page \in {"/onboarding", "wizard"}
CallSucceeds ==
    /\ AtRest /\ Asks /\ ~ settled
    /\ session = "valid"
    /\ settled' = TRUE
    /\ me' = "user"
    /\ status' = IF AsksStatus /\ account \in {"started", "finished"} THEN account ELSE status
    /\ UNCHANGED <<role, account, page, heading, hops, session, refresh, cooling>>

(* A 401 renews the session; the call runs again. *)
Renew ==
    /\ AtRest /\ Asks /\ ~ settled
    /\ session # "valid" /\ refresh = "live" /\ ~ cooling
    /\ session' = "valid"
    /\ UNCHANGED <<role, account, page, heading, hops, refresh, me, status, cooling, settled>>

(* onSessionExpired, for a call from a signed-in area, loads the sign-in page.
   Elsewhere auth/me is in error; without data only until the next page. *)
MeFailed == me' = IF me \in {"unknown", "failed"} THEN "failed" ELSE "nobody"

SessionExpired ==
    IF page \in PROTECTED_PREFIXES
    THEN Redirect("/login") /\ Reload
    ELSE MeFailed /\ UNCHANGED <<heading, hops, status>>

(* The API refuses to renew, and clears both cookies. *)
RenewalRefused ==
    /\ AtRest /\ Asks /\ ~ settled
    /\ session # "valid" /\ refresh # "live" /\ ~ cooling
    /\ session' = "none" /\ refresh' = "none"
    /\ settled' = TRUE
    /\ SessionExpired
    /\ page \notin PROTECTED_PREFIXES => cooling' = TRUE
    /\ UNCHANGED <<role, account, page>>

(* No answer to the renewal, or none asked for within a minute of a refusal. *)
RenewalFails ==
    /\ AtRest /\ Asks /\ ~ settled
    /\ session # "valid"
    /\ settled' = TRUE
    /\ SessionExpired
    /\ page \notin PROTECTED_PREFIXES => UNCHANGED cooling
    /\ UNCHANGED <<role, account, page, session, refresh>>

(* The entry page: it waits for data, of any age, and replaces itself. *)
EnterOnboarding ==
    /\ AtRest /\ page = "/onboarding"
    /\ me # "unknown"
    /\ \/ me \in {"nobody", "failed"} /\ Redirect("/login")
       \/ /\ me = "user" /\ status # "unknown"
          /\ Redirect(IF role # "ADMIN" /\ status # "finished" THEN "wizard" ELSE RoleHome)
    /\ UNCHANGED <<role, account, page, session, refresh, me, status, cooling, settled>>
------------------------------------------------------------------------------
(* The user: a link or a reload, and what the pages offer. *)
Browse(to) ==
    /\ AtRest /\ GoFor(to)
    /\ Reload \/ UNCHANGED <<me, status, cooling>>
    /\ UNCHANGED <<role, account, page, session, refresh, settled>>

SignIn ==
    /\ session' = "valid" /\ refresh' = "live"
    /\ me' = "user" /\ cooling' = FALSE

Register ==
    /\ AtRest /\ page = "/register" /\ account = "none"
    /\ account' = "started"
    /\ SignIn /\ GoFor("/verify-email")
    /\ UNCHANGED <<role, page, status, settled>>
(* A page that sent the reader here is where a login leads back to. *)
LoginSucceeds(to) ==
    /\ AtRest /\ page = "/login" /\ account \in {"started", "finished"}
    /\ SignIn /\ GoFor(to)
    /\ UNCHANGED <<role, account, page, status, settled>>
(* The OAuth callback creates the account it does not find, and the browser
   comes back to a new page. *)
OAuth ==
    /\ AtRest /\ page \in AUTH_ROUTES /\ account # "gone"
    /\ account' = IF account = "none" THEN "started" ELSE account
    /\ session' = "valid" /\ refresh' = "live"
    /\ Reload /\ GoFor("/onboarding")
    /\ UNCHANGED <<role, page, settled>>

Publish ==
    /\ AtRest /\ page = "wizard" /\ session = "valid" /\ account = "started"
    /\ account' = "finished"
    /\ GoFor(IF role \in {"FOUNDER", "INVESTOR"} THEN RoleHome ELSE "/")
    /\ UNCHANGED <<role, page, session, refresh, me, status, cooling, settled>>

LogoutSucceeds ==
    /\ AtRest /\ page \in PROTECTED_PREFIXES \union {"/mentors/bookings"}
    /\ session' = "none" /\ refresh' = "none" /\ me' = "nobody"
    /\ GoFor("/login")
    /\ UNCHANGED <<role, account, page, status, cooling, settled>>

(* DELETE v1/users/me: the refresh tokens are revoked and no cookie is
   cleared.  The answer has no body, which apiRequest fails to read, so the
   settings page does not go on to the sign-in page. *)
DeleteAccount ==
    /\ AtRest /\ page = "/investor" /\ session = "valid" /\ account # "gone"
    /\ account' = "gone"
    /\ refresh' = IF refresh = "live" THEN "dead" ELSE refresh
    /\ UNCHANGED <<role, page, heading, hops, session, me, status, cooling, settled>>

(* Time: the token or its cookie, the refresh token, the renewal's cooldown;
   open pages ask again. *)
SessionLapses ==
    /\ AtRest /\ session = "valid"
    /\ session' \in {"none", "expired"}
    /\ settled' = FALSE /\ hops' = 0
    /\ UNCHANGED <<role, account, page, heading, refresh, me, status, cooling>>
RefreshDies ==
    /\ AtRest /\ refresh = "live"
    /\ refresh' \in {"none", "dead"}
    /\ UNCHANGED <<role, account, page, heading, hops, session, me, status, cooling, settled>>
CooldownOver ==
    /\ cooling
    /\ cooling' = FALSE
    /\ UNCHANGED <<role, account, page, heading, hops, session, refresh, me, status, settled>>

NavNext ==
    \/ Arrive \/ CallSucceeds \/ Renew \/ RenewalRefused \/ RenewalFails \/ EnterOnboarding
    \/ \E to \in Page \ {"wizard", "/verify-email"} : Browse(to)
    \/ \E to \in PROTECTED_PREFIXES \union {"/onboarding"} : LoginSucceeds(to)
    \/ Register \/ OAuth \/ Publish \/ LogoutSucceeds \/ DeleteAccount
    \/ SessionLapses \/ RefreshDies \/ CooldownOver

NavSpec == NavInit /\ [][NavNext]_navVars
------------------------------------------------------------------------------
(***************************************************************************)
(* Redirects end: the middleware, the entry page and onSessionExpired      *)
(* never send a reader round and round, whatever the cookies, the caches   *)
(* and the API say; two hops are the longest way.  A dashboard at rest     *)
(* is one the API serves: whoever got there on a refresh cookie alone has  *)
(* a session once the page's calls were answered.                          *)
(***************************************************************************)
RedirectsSettle ==
    /\ hops <= MaxHops
    /\ AtRest /\ page \in PROTECTED_PREFIXES /\ settled => session = "valid"

(***************************************************************************)
(* Deleting the account revokes every refresh token "to force logout       *)
(* everywhere immediately": the window that did it shows no dashboard.     *)
(***************************************************************************)
GoneIsSignedOut ==
    account = "gone" /\ AtRest /\ page \in PROTECTED_PREFIXES => session # "valid"
==============================================================================

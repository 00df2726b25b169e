------------------------------ MODULE ApiRoutes ------------------------------
(***************************************************************************)
(* Which handler of the API a request reaches, and who may call it: the    *)
(* routes of every controller in the order of their registration, and the  *)
(* guards in front of them.  "v1" is left out of every path.               *)
(***************************************************************************)
EXTENDS Sequences, Integers

Roles == {"FOUNDER", "INVESTOR", "MENTOR", "INCUBATOR", "UNIVERSITY",
          "SERVICE_PROVIDER", "JOB_SEEKER", "ADMIN"}
Visitor == "visitor"    \* nobody is signed in

Public == Roles \union {Visitor}
SignedIn == Roles
FounderOnly == {"FOUNDER"}
InvestorOnly == {"INVESTOR"}
MentorOnly == {"MENTOR"}

(* A parameter of a route; in a request, an id or a slug that is the name of
   no other segment. *)
Id == "*"

Route(verb, path, who, body) == [verb |-> verb, path |-> path, who |-> who, body |-> body]
Get(path, who) == Route("GET", path, who, TRUE)
Post(path, who) == Route("POST", path, who, TRUE)
Patch(path, who) == Route("PATCH", path, who, TRUE)
Delete(path, who) == Route("DELETE", path, who, TRUE)
NoContent(route) == Route(route.verb, route.path, route.who, FALSE)
Controller(prefix, routes) ==
    [i \in DOMAIN routes |->
        Route(routes[i].verb, prefix \o routes[i].path, routes[i].who, routes[i].body)]
------------------------------------------------------------------------------
AppController == Controller(<<>>, <<Get(<<"health">>, Public)>>)

AdminController == Controller(<<"admin">>, <<
    Get(<<"system-health">>, {"ADMIN"}),
    Get(<<"verification-overview">>, {"ADMIN"}),
    Get(<<"plan-limits">>, {"ADMIN"}),
    Patch(<<"plan-limits", Id>>, {"ADMIN"}),
    Get(<<"analytics", "totals">>, {"ADMIN"}),
    Get(<<"analytics", "signups">>, {"ADMIN"}),
    Get(<<"analytics", "connection-acceptance-rate">>, {"ADMIN"}),
    Get(<<"analytics", "verification-funnel">>, {"ADMIN"}),
    Get(<<"users">>, {"ADMIN"})>>)

AnalyticsController == Controller(<<>>, <<
    Get(<<"analytics">>, InvestorOnly),
    Get(<<"recommendations">>, InvestorOnly \union FounderOnly)>>)

(* Signing in and out. *)
AuthSessionRoutes == Controller(<<"auth">>, <<
    Post(<<"register">>, Public),
    Post(<<"login">>, Public),
    Post(<<"mfa", "challenge">>, Public),
    Post(<<"refresh">>, Public),
    Post(<<"logout">>, SignedIn),
    Get(<<"me">>, SignedIn)>>)

(* Codes, passwords, the second factor. *)
AuthAccountRoutes == Controller(<<"auth">>, <<
    Post(<<"verify-email", "resend">>, SignedIn),
    Post(<<"verify-email", "confirm">>, SignedIn),
    Post(<<"password", "forgot">>, Public),
    Post(<<"password", "reset">>, Public),
    Post(<<"password", "change">>, SignedIn),
    Post(<<"mfa", "enroll">>, SignedIn),
    Post(<<"mfa", "enroll", "confirm">>, SignedIn),
    Post(<<"mfa", "disable">>, SignedIn),
    Get(<<"sessions">>, SignedIn),
    Delete(<<"sessions", Id>>, SignedIn),
    Delete(<<"sessions">>, SignedIn)>>)

AuthBrowserRoutes == Controller(<<"auth">>,
    <<Get(<<"captcha-site-key">>, Public), Get(<<"csrf">>, Public)>>
    \o <<Get(<<"google">>, Public), Get(<<"google", "callback">>, Public),
         Get(<<"github">>, Public), Get(<<"github", "callback">>, Public),
         Get(<<"linkedin">>, Public), Get(<<"linkedin", "callback">>, Public)>>)

BillingController == Controller(<<"billing">>, <<Post(<<"webhook">>, Public)>>)

CommunityController == Controller(<<"community">>, <<
    Get(<<"feed">>, SignedIn),
    Post(<<"posts">>, SignedIn),
    Delete(<<"posts", Id>>, SignedIn),
    Get(<<"posts", Id, "comments">>, SignedIn),
    Post(<<"posts", Id, "comments">>, SignedIn),
    Post(<<"posts", Id, "like">>, SignedIn),
    Post(<<"comments", Id, "like">>, SignedIn),
    Post(<<"polls", Id, "vote">>, SignedIn),
    Post(<<"posts", Id, "rsvp">>, SignedIn),
    Delete(<<"posts", Id, "rsvp">>, SignedIn),
    Post(<<"posts", Id, "bookmark">>, SignedIn)>>)

ConnectionsController == Controller(<<"connections">>, <<
    Get(<<>>, SignedIn),
    Get(<<"quota">>, FounderOnly),
    Get(<<"meetings">>, SignedIn),
    Post(<<>>, FounderOnly),
    Post(<<Id, "respond">>, InvestorOnly),
    Get(<<Id, "messages">>, SignedIn),
    Post(<<Id, "messages">>, SignedIn),
    Post(<<Id, "request-info">>, InvestorOnly),
    Get(<<Id, "meetings">>, SignedIn),
    Post(<<Id, "meetings">>, SignedIn)>>)

DiscoveryController == Controller(<<"discovery">>, <<Get(<<"feed">>, SignedIn)>>)

DocumentsController == Controller(<<"documents">>, <<
    Get(<<>>, SignedIn),
    Get(<<"shared-with-me">>, SignedIn),
    Post(<<>>, SignedIn),
    Delete(<<Id>>, SignedIn),
    Get(<<Id, "access">>, SignedIn),
    Get(<<Id, "grants">>, SignedIn),
    Post(<<Id, "grants">>, SignedIn),
    Delete(<<"grants", Id>>, SignedIn),
    Post(<<"grants", Id, "accept-nda">>, SignedIn)>>)

FollowsController == Controller(<<"follows">>, <<
    Get(<<"me">>, SignedIn),
    Get(<<"me", "followers">>, SignedIn),
    Get(<<Id>>, SignedIn),
    Post(<<Id>>, SignedIn),
    Delete(<<Id>>, SignedIn)>>)

FutureModulesController == Controller(<<"future-modules">>, <<
    Get(<<>>, Public), Get(<<Id>>, Public)>>)

HiringController == Controller(<<"jobs">>, <<
    Get(<<>>, Public),
    Get(<<"mine">>, FounderOnly),
    Get(<<"applications", "mine">>, SignedIn),
    Post(<<>>, FounderOnly),
    Patch(<<Id>>, FounderOnly),
    Post(<<Id, "close">>, FounderOnly),
    Post(<<Id, "apply">>, SignedIn),
    Get(<<Id, "applications">>, FounderOnly),
    Patch(<<"applications", Id>>, FounderOnly)>>)

IncubatorsController == Controller(<<"incubators">>, <<
    Get(<<>>, Public), Get(<<Id>>, Public)>>)

InvestorsController == Controller(<<"investors">>, <<
    Get(<<>>, SignedIn),
    Get(<<"me">>, InvestorOnly),
    Patch(<<"me">>, InvestorOnly),
    Get(<<"me", "co-investors">>, InvestorOnly),
    Get(<<Id>>, Public),
    Post(<<>>, InvestorOnly)>>)

MandatesController == Controller(<<"investors", "me", "mandates">>, <<
    Get(<<>>, InvestorOnly),
    Post(<<>>, InvestorOnly),
    Patch(<<Id>>, InvestorOnly),
    Delete(<<Id>>, InvestorOnly),
    Get(<<Id, "matches">>, InvestorOnly)>>)

SavedSearchesController == Controller(<<"investors", "me", "saved-searches">>, <<
    Get(<<>>, InvestorOnly),
    Post(<<>>, InvestorOnly),
    Patch(<<Id>>, InvestorOnly),
    Delete(<<Id>>, InvestorOnly),
    Get(<<Id, "run">>, InvestorOnly),
    Get(<<Id, "new-count">>, InvestorOnly),
    Post(<<Id, "mark-viewed">>, InvestorOnly)>>)

MediaController == Controller(<<"media">>, <<Post(<<"upload-url">>, SignedIn)>>)

MentorsController == Controller(<<"mentors">>, <<
    Get(<<>>, Public),
    Get(<<"bookings">>, SignedIn),
    Get(<<Id>>, Public),
    Post(<<Id, "book">>, FounderOnly),
    Post(<<"bookings", Id, "respond">>, MentorOnly),
    Post(<<"bookings", Id, "review">>, MentorOnly),
    Post(<<"bookings", Id, "review-mentor">>, FounderOnly)>>)

NotificationsController == Controller(<<"notifications">>, <<
    Get(<<>>, SignedIn),
    Get(<<"unread-count">>, SignedIn),
    Patch(<<"read-all">>, SignedIn),
    Patch(<<Id, "read">>, SignedIn)>>)

OnboardingController == Controller(<<"onboarding">>, <<
    Get(<<"state">>, SignedIn),
    Patch(<<"draft">>, SignedIn),
    Post(<<"publish">>, SignedIn)>>)

PipelineController == Controller(<<"pipeline">>, <<
    Get(<<>>, InvestorOnly),
    Post(<<>>, InvestorOnly),
    Patch(<<Id>>, InvestorOnly),
    Patch(<<Id, "pass">>, InvestorOnly),
    Delete(<<Id>>, InvestorOnly)>>)

PortfolioController == Controller(<<"portfolio">>, <<
    Get(<<>>, InvestorOnly),
    Get(<<"dashboard">>, InvestorOnly),
    Patch(<<Id, "exit">>, InvestorOnly),
    Patch(<<Id, "follow-up">>, InvestorOnly)>>)

RelationshipClaimsController == Controller(<<"relationship-claims">>, <<
    Get(<<>>, SignedIn),
    Post(<<>>, {"FOUNDER", "INVESTOR", "INCUBATOR", "UNIVERSITY"}),
    Post(<<Id, "respond">>, SignedIn)>>)

SearchController == Controller(<<"search">>, <<Get(<<>>, SignedIn)>>)

ServiceProvidersController == Controller(<<"service-providers">>, <<
    Get(<<>>, Public), Get(<<Id>>, Public)>>)

(* The founder's own startup comes before the slugs: "me" is no startup's. *)
StartupsOwnRoutes == Controller(<<"startups">>, <<
    Get(<<>>, SignedIn),
    Get(<<"me">>, FounderOnly),
    Get(<<"me", "health">>, FounderOnly),
    Get(<<"me", "trust-preview">>, FounderOnly),
    Post(<<"me", "traction">>, FounderOnly),
    Get(<<"me", "traction-history">>, FounderOnly),
    Get(<<"me", "benchmark">>, FounderOnly),
    Patch(<<"me", "visibility">>, FounderOnly),
    Get(<<"me", "funding-rounds">>, FounderOnly),
    Post(<<"me", "funding-rounds">>, FounderOnly),
    Delete(<<"me", "funding-rounds", Id>>, FounderOnly)>>)

StartupsPublicRoutes == Controller(<<"startups">>, <<
    Get(<<"me", "activity">>, FounderOnly),
    Get(<<"me", "views">>, FounderOnly),
    Get(<<"me", "analytics">>, FounderOnly),
    Post(<<"me", "milestones">>, FounderOnly),
    Get(<<Id>>, Public),
    Get(<<Id, "milestones">>, Public),
    Get(<<Id, "activity">>, Public),
    Post(<<Id, "view">>, InvestorOnly),
    Post(<<>>, FounderOnly)>>)

(* A wrong order: the profiles by slug are asked first. *)
StartupsBySlugFirst == StartupsPublicRoutes \o StartupsOwnRoutes
StartupsController == StartupsOwnRoutes \o StartupsPublicRoutes

UniversitiesController == Controller(<<"universities">>, <<
    Get(<<>>, Public), Get(<<Id>>, Public)>>)

UsersController == Controller(<<"users">>, <<NoContent(Delete(<<"me">>, SignedIn))>>)

VerificationController == Controller(<<"verification">>, <<
    Post(<<"phone", "request">>, SignedIn),
    Post(<<"phone", "confirm">>, SignedIn),
    Post(<<"checks">>, SignedIn),
    Get(<<Id, Id>>, SignedIn)>>)

WatchlistController == Controller(<<"watchlist">>, <<
    Get(<<>>, InvestorOnly),
    Post(<<>>, InvestorOnly),
    Delete(<<Id>>, InvestorOnly),
    Patch(<<Id>>, InvestorOnly),
    Get(<<"triggers">>, InvestorOnly),
    Post(<<"triggers">>, InvestorOnly),
    Delete(<<"triggers", Id>>, InvestorOnly)>>)

WorkspaceController == Controller(<<"workspace">>, <<Get(<<"home">>, InvestorOnly)>>)

(* AppModule's own controller comes first, then those of the modules it
   imports.  Where the order matters, between routes that one request fits,
   they stand in one controller. *)
Routes ==
    AppController \o UsersController
    \o AuthSessionRoutes \o AuthAccountRoutes \o AuthBrowserRoutes
    \o StartupsController \o InvestorsController \o MandatesController
    \o OnboardingController \o ConnectionsController \o DiscoveryController
    \o NotificationsController \o BillingController \o MediaController
    \o AdminController \o FutureModulesController \o WatchlistController
    \o PipelineController \o PortfolioController \o RelationshipClaimsController
    \o SavedSearchesController \o WorkspaceController \o AnalyticsController
    \o DocumentsController \o VerificationController \o MentorsController
    \o IncubatorsController \o HiringController \o CommunityController
    \o UniversitiesController \o ServiceProvidersController \o FollowsController
    \o SearchController
------------------------------------------------------------------------------
(* A request is the verb and the path; a route's parameter takes any segment. *)
Fits(route, request) ==
    /\ route.verb = request.verb
    /\ Len(route.path) = Len(request.path)
    /\ \A i \in DOMAIN route.path : route.path[i] \in {Id, request.path[i]}

Fitting(request) == {i \in DOMAIN Routes : Fits(Routes[i], request)}
Served(request) == Fitting(request) # {}
(* The first one registered takes the request. *)
Reached(request) == Routes[CHOOSE i \in Fitting(request) : \A j \in Fitting(request) : i <= j]
(* JwtAuthGuard, then RolesGuard. *)
Admitted(who, request) == who \in Reached(request).who
==============================================================================

------------------------------ MODULE WebPages ------------------------------
(***************************************************************************)
(* The pages of the web app: what each of them asks the API for when it    *)
(* opens, which calls it offers and while it shows what, and where its     *)
(* links lead.  Layout, wording and what only the browser keeps are left   *)
(* out; a page is named by its route.                                      *)
(***************************************************************************)
EXTENDS ApiClient, FiniteSets

Always == {}
(* The page shows a row of this kind in one of these states. *)
Shows(row, states) == {<<row, states>>}
PublishedStartup == Shows("startup", {"published"})
NoStartup == Shows("startup", {"none"})
(* What a search of startups answers with. *)
ListedStartup == PublishedStartup \union Shows("visibility", {"PUBLIC", "INVESTOR_ONLY"})

Reads(calls) == {[call |-> c, who |-> Public] : c \in calls}
ReadsFor(who, calls) == {[call |-> c, who |-> who] : c \in calls}
(* A button or form: the call, what it asks the service to do with the row,
   the states it is shown in and the readers it is shown to. *)
OfferTo(who, call, does, when) == [call |-> call, does |-> does, when |-> when, who |-> who]
Offer(call, does, when) == OfferTo(Public, call, does, when)
LinkFor(who, to, when) == [to |-> to, when |-> when, who |-> who]
Link(to, when) == LinkFor(Public, to, when)
LinksTo(pages) == {Link(p, Always) : p \in pages}

Part(reads, offers, links) == [reads |-> reads, offers |-> offers, links |-> links]
Together(parts) == Part(UNION {p.reads : p \in parts}, UNION {p.offers : p \in parts},
                        UNION {p.links : p \in parts})
------------------------------------------------------------------------------
(* The frame around the pages of the dashboards. *)
PartnerNav == {"/mentors", "/incubators", "/universities", "/service-providers", "/community"}
ROLE_NAV(who) ==
    CASE who = "FOUNDER" -> {"/founder", "/founder/analytics", "/founder/documents", "/founder/hiring",
            "/mentors", "/mentors/bookings", "/incubators", "/learning", "/community"}
      [] who = "MENTOR" -> {"/mentors/bookings", "/learning", "/community"}
      [] who = "JOB_SEEKER" -> {"/jobs", "/learning", "/community"}
      [] who = "INVESTOR" -> {"/investor", "/investor/discover", "/investor/portfolio",
            "/investor/requests", "/investor/watchlist", "/investor/meetings", "/investor/messages",
            "/investor/pipeline", "/investor/mandates", "/investor/saved-searches",
            "/investor/co-investors", "/investor/recommendations", "/investor/analytics",
            "/investor/documents", "/investor/profile", "/investor/settings", "/community"}
      [] who = "ADMIN" -> {"/admin"}
      [] who \in {"INCUBATOR", "UNIVERSITY", "SERVICE_PROVIDER"} -> PartnerNav

Sidebar == Part(Reads({authApi.me}), {},
    LinksTo({"/modules/[slug]"})
    \union UNION {{LinkFor({r}, to, Always) : to \in ROLE_NAV(r)} : r \in Roles})

(* A notice leads to what it is about. *)
NotificationBell == Part(
    Reads({notificationsApi.unreadCount, notificationsApi.list}),
    {Offer(notificationsApi.markAllRead, "read", Always)},
    {Link("/connections/[id]", Shows("message", {"sent"})),
     Link("/community", Shows("comment", {"written"}))})

GlobalSearch == Part(
    Reads({searchApi.search}), {},
    {Link("/startups/[slug]", ListedStartup)}
    \union LinksTo({"/mentors/[id]", "/incubators/[id]", "/jobs", "/search"}))

Topbar == Part(Reads({authApi.me}), {Offer(authApi.logout, Simply, Always)}, {})

DashboardLayout == Together({Sidebar, Topbar, NotificationBell, GlobalSearch})
DashboardPage(parts) == Together(parts \union {DashboardLayout})

(* Nobody is offered to follow himself. *)
FollowButton(owner) == Part(
    Reads({authApi.me, followsApi.isFollowing}),
    {OfferTo(SignedIn \ {owner}, followsApi.follow, Simply, Shows("follow", {"no"})),
     OfferTo(SignedIn \ {owner}, followsApi.unfollow, Simply, Shows("follow", {"yes"}))},
    {})
------------------------------------------------------------------------------
(* The founder's pages. *)
SendConnectRequestDialog == Part({},
    {Offer(mediaApi.createUploadUrl, Simply, Always),
     Offer(connectionsApi.create, Simply, Shows("investor", {"open"}))}, {})

VisibilitySettingsCard ==
    Part({}, {Offer(startupsApi.updateMyVisibility, to, PublishedStartup) :
        to \in {"PUBLIC", "INVESTOR_ONLY", "PRIVATE", "STEALTH"}}, {})

AddMilestoneDialog == Part({}, {Offer(startupsApi.addMilestone, Simply, PublishedStartup)}, {})
EvidenceUpload == Part({}, {Offer(mediaApi.createUploadUrl, Simply, Always)}, {})
QuickActionsCard == Together({AddMilestoneDialog, EvidenceUpload,
    Part({}, {}, {Link("/startups/[slug]", PublishedStartup)})})

NextActionsCard == Part({}, {}, {Link(to, PublishedStartup) : to \in
    {"/onboarding/founder", "/founder/settings", "/founder/documents", "/founder/analytics", "/founder"}})

FounderActivityCard == Part(Reads({startupsApi.getMyActivity}), {}, {})
RecentProfileViewsCard == Part(Reads({startupsApi.getMyProfileViews}), {}, {})
StartupHealthCard == Part({}, {}, {Link("/startups/[slug]", PublishedStartup)})
ProfileCompletionCard == Part({}, {}, {Link("/founder", PublishedStartup)})

FounderDashboardPage == DashboardPage({
    SendConnectRequestDialog, VisibilitySettingsCard, QuickActionsCard, NextActionsCard,
    FounderActivityCard, RecentProfileViewsCard, StartupHealthCard, ProfileCompletionCard,
    Part(Reads({startupsApi.getMine, startupsApi.getMyHealth, startupsApi.getMyTrustPreview,
                startupsApi.getMyBenchmark, investorsApi.list, connectionsApi.list,
                connectionsApi.quota, analyticsApi.getFounderRecommendations}),
         {},
         {Link("/onboarding/founder", NoStartup),
          Link("/connections/[id]", Shows("connection", {"ACCEPTED"}))})})

FounderAnalyticsPage == DashboardPage({
    Part(Reads({startupsApi.getMyAnalytics}), {},
         {Link("/onboarding/founder", NoStartup)})})

(* A grant is offered to the investors of accepted requests. *)
DocumentAccessPanel == Part(
    Reads({connectionsApi.list, documentsApi.listGrants}),
    {Offer(documentsApi.grant, terms,
           Shows("document", {"kept"}) \union Shows("connection", {"ACCEPTED"})) :
        terms \in {"plain", "nda"}}
    \union {Offer(documentsApi.revokeGrant, Simply, Shows("grant", {"open", "nda"}))},
    {})

FounderDocumentsPage == DashboardPage({
    DocumentAccessPanel,
    Part(Reads({documentsApi.list}),
         {Offer(mediaApi.createUploadUrl, Simply, Always),
          Offer(documentsApi.upload, Simply, Always),
          Offer(documentsApi.remove, Simply, Shows("document", {"kept"}))}, {})})

PostJobDialog == Part({}, {Offer(hiringApi.create, Simply, Always)}, {})
(* The three answers stay offered after an answer. *)
ApplicantsList == Part(
    Reads({hiringApi.listApplications}),
    {Offer(hiringApi.respondToApplication, answer,
           Shows("application", {"SUBMITTED", "SHORTLISTED", "REJECTED", "HIRED"})) :
        answer \in {"SHORTLISTED", "REJECTED", "HIRED"}}, {})
JobCard == Part({}, {Offer(hiringApi.close, Simply, Shows("job", {"OPEN"}))}, {})

FounderHiringPage == DashboardPage({
    PostJobDialog, ApplicantsList, JobCard, Part(Reads({hiringApi.listMine}), {}, {})})
------------------------------------------------------------------------------
(* The investor's pages. *)
DashboardCard(to) == Part({}, {}, LinksTo({to}))

InvestorDashboardPage == DashboardPage({
    Part(Reads({connectionsApi.list, watchlistApi.list, portfolioApi.list,
                connectionsApi.listMyMeetings, notificationsApi.unreadCount,
                analyticsApi.getRecommendations, investorsApi.getMine, workspaceApi.home}),
         {},
         {Link("/startups/[slug]", PublishedStartup)}
         \union LinksTo({"/investor/mandates", "/investor/messages", "/investor/profile",
                  "/investor/discover", "/investor/pipeline", "/investor/requests",
                  "/investor/analytics", "/investor/watchlist", "/investor/co-investors",
                  "/investor/portfolio", "/investor/meetings", "/investor/recommendations"}))})

DiscoverStartupCard == Part({},
    {Offer(watchlistApi.follow, Simply, ListedStartup), Offer(pipelineApi.add, Simply, ListedStartup)}, {})
QuickViewDialog == Part({}, {}, {Link("/startups/[slug]", ListedStartup)})

(* Comparing and filtering happen in the browser, over the answer and in the
   query of the search. *)
DiscoverPage == DashboardPage({
    DiscoverStartupCard, QuickViewDialog, Part(Reads({startupsApi.search}), {}, {})})

ScheduleMeetingDialog ==
    Part({}, {Offer(connectionsApi.scheduleMeeting, Simply, Shows("connection", {"PENDING"}))}, {})

PendingRequest == Part({},
    {Offer(connectionsApi.respond, answer, Shows("connection", {"PENDING"})) :
        answer \in {"ACCEPTED", "DECLINED", "IGNORED"}}
    \union {Offer(watchlistApi.follow, Simply, Shows("connection", {"PENDING"})),
            Offer(connectionsApi.requestInfo, Simply,
                  Shows("connection", {"PENDING"}) \union Shows("info", {"no"}))}, {})

InvestorRequestsPage == DashboardPage({
    ScheduleMeetingDialog, PendingRequest,
    Part(Reads({connectionsApi.list}), {},
         {Link("/connections/[id]", Shows("connection", {"ACCEPTED"}))})})

(* A wrong list: only the triggers of watched startups. *)
TriggersOfWatched == Part(
    Reads({watchlistApi.listTriggers}),
    {Offer(watchlistApi.createTrigger, Simply, Shows("watched", {"yes"})),
     Offer(watchlistApi.removeTrigger, Simply, Shows("trigger", {"set"}) \union Shows("watched", {"yes"}))}, {})
TriggersTab == Part(
    Reads({watchlistApi.listTriggers}),
    {Offer(watchlistApi.createTrigger, Simply, Shows("watched", {"yes"})),
     Offer(watchlistApi.removeTrigger, Simply, Shows("trigger", {"set"}))}, {})

WatchedStartup == Part({},
    {Offer(watchlistApi.unfollow, Simply, Shows("watched", {"yes"})),
     Offer(watchlistApi.update, Simply, Shows("watched", {"yes"}))},
    {Link("/startups/[slug]", Shows("watched", {"yes"}))})

WatchlistPage == DashboardPage({
    TriggersTab, WatchedStartup,
    Part(Reads({watchlistApi.list}), {}, LinksTo({"/investor/watchlist"}))})

PortfolioRow == Part({},
    {Offer(portfolioApi.setFollowUp, Simply, Shows("holding", {"held", "exited"})),
     Offer(portfolioApi.recordExit, Simply, Shows("holding", {"held"}))},
    {Link("/startups/[slug]", Shows("holding", {"held", "exited"}))})

PortfolioPage == DashboardPage({
    PortfolioRow, Part(Reads({portfolioApi.list, portfolioApi.dashboard}), {}, {})})

(* A card may be dropped on every column. *)
PipelinePage == DashboardPage({
    Part(Reads({pipelineApi.list}),
         {Offer(pipelineApi.update, stage, Shows("deal", {"open", "closed"})) :
             stage \in {"open", "closed"}}, {})})

CreateMandateDialog == Part({}, {Offer(mandatesApi.create, Simply, Always)}, {})
MandateCard == Part(
    ReadsFor(Public, {mandatesApi.matches}),
    {Offer(mandatesApi.update, "paused", Shows("mandate", {"active"})),
     Offer(mandatesApi.update, "active", Shows("mandate", {"paused"})),
     Offer(mandatesApi.remove, Simply, Shows("mandate", {"active", "paused"}))}, {})
MandatesPage == DashboardPage({
    CreateMandateDialog, MandateCard, Part(Reads({mandatesApi.list}), {}, {})})

SavedSearchRow == Part(
    Reads({savedSearchesApi.newMatchesCount, savedSearchesApi.run}),
    {Offer(savedSearchesApi.markViewed, Simply, Shows("search", {"kept"})),
     Offer(savedSearchesApi.remove, Simply, Shows("search", {"kept"}))},
    {Link("/startups/[slug]", Shows("search", {"kept"}) \union ListedStartup)})
SavedSearchesPage == DashboardPage({
    SavedSearchRow,
    Part(Reads({savedSearchesApi.list}), {Offer(savedSearchesApi.create, Simply, Always)}, {})})

InvestorProfilePage == DashboardPage({
    Part(Reads({investorsApi.getMine}),
         {Offer(investorsApi.updateMine, Simply, Shows("investorProfile", {"published"}))},
         {Link("/onboarding/investor", Shows("investorProfile", {"none"}))})})

InvestorSettingsPage == DashboardPage({
    Part({}, {Offer(usersApi.deleteMe, Simply, Always)}, LinksTo({"/login"}))})

InvestorDocumentsPage == DashboardPage({
    Part(Reads({documentsApi.list}),
         {Offer(mediaApi.createUploadUrl, Simply, Always),
          Offer(documentsApi.upload, Simply, Always),
          Offer(documentsApi.access, Simply, Shows("ownDocument", {"kept"})),
          Offer(documentsApi.remove, "own", Shows("ownDocument", {"kept"}))}, {})})

MeetingsPage == DashboardPage({
    Part(Reads({connectionsApi.listMyMeetings, authApi.me}), {},
         {Link("/connections/[id]", Shows("meeting", {"planned"}))})})

MessagesPage == DashboardPage({
    Part(Reads({connectionsApi.list}), {},
         {Link("/connections/[id]", Shows("connection", {"ACCEPTED"}))})})

CoInvestorsPage == DashboardPage({Part(Reads({investorsApi.getMyCoInvestorGraph}), {}, {})})
RecommendationsPage == DashboardPage({
    Part(Reads({analyticsApi.getRecommendations}), {}, {Link("/startups/[slug]", PublishedStartup)})})
InvestorAnalyticsPage == DashboardPage({Part(Reads({analyticsApi.get}), {}, {})})
------------------------------------------------------------------------------
(* The pages for every role. *)
(* All types of posts are offered to everyone. *)
CreatePostDialog == Part(Reads({startupsApi.getMine}),
    {Offer(communityApi.createPost, type, Always) :
        type \in {"FOUNDER_POST", "STARTUP_UPDATE", "ANNOUNCEMENT", "POLL", "EVENT"}}, {})

CommentsSection == Part(Reads({communityApi.listComments}),
    {Offer(communityApi.addComment, Simply, Shows("post", {"own", "others"}))}, {})

(* A vote is taken back from the offer once cast; attending an event is not. *)
PostCard == Part({},
    {Offer(communityApi.removePost, Simply, Shows("post", {"own"})),
     Offer(communityApi.vote, Simply, Shows("post", {"own", "others"}) \union Shows("voted", {"no"}))}
    \union {Offer(call, Simply, Shows("post", {"own", "others"})) :
        call \in {communityApi.rsvp, communityApi.likePost, communityApi.bookmarkPost}}, {})

CommunityPage == DashboardPage({CreatePostDialog, CommentsSection, PostCard,
    Part(Reads({communityApi.feed, authApi.me}), {}, {})})

MentorsDirectoryPage == DashboardPage({
    Part(Reads({mentorsApi.list}), {}, LinksTo({"/mentors/[id]"}))})

RequestSessionDialog == Part({}, {Offer(mentorsApi.book, Simply, Always)}, {})
MentorDetailPage == DashboardPage({
    FollowButton("MENTOR"), RequestSessionDialog, Part(Reads({mentorsApi.getById}), {}, {})})

(* A wrong condition: any booking that was answered. *)
LeaveReviewAnytime == Part({},
    {OfferTo(MentorOnly, mentorsApi.reviewBooking, Simply, Shows("booking", {"ACCEPTED", "DECLINED"}))}, {})
LeaveReviewDialog == Part({},
    {OfferTo(MentorOnly, mentorsApi.reviewBooking, Simply, Shows("booking", {"ACCEPTED"}))}, {})
LeaveMentorReviewDialog == Part({},
    {OfferTo(SignedIn \ MentorOnly, mentorsApi.reviewMentor, Simply, Shows("booking", {"ACCEPTED"}))}, {})
BookingRow == Part({},
    {OfferTo(MentorOnly, mentorsApi.respondToBooking, answer, Shows("booking", {"PENDING"})) :
        answer \in {"ACCEPTED", "DECLINED"}}, {})
MentorBookingsPage == DashboardPage({LeaveReviewDialog, LeaveMentorReviewDialog, BookingRow,
    Part(Reads({authApi.me, mentorsApi.listBookings}), {}, {})})

ApplyDialog == Part({}, {Offer(hiringApi.apply, Simply, Shows("job", {"OPEN"}))}, {})
JobsBrowsePage == DashboardPage({ApplyDialog, Part(Reads({hiringApi.search}), {}, {})})

ConnectionMessagesPage == DashboardPage({
    Part(Reads({authApi.me, connectionsApi.list, connectionsApi.listMessages}),
         {Offer(connectionsApi.sendMessage, Simply, Shows("connection", {"ACCEPTED"}))}, {})})

SearchPage == DashboardPage({
    Part(Reads({searchApi.search}), {},
         {Link("/startups/[slug]", ListedStartup)}
         \union LinksTo({"/mentors/[id]", "/incubators/[id]", "/jobs"}))})

IncubatorsPage == DashboardPage({
    Part(Reads({incubatorsApi.list}), {}, LinksTo({"/incubators/[id]"}))})
IncubatorDetailPage == DashboardPage({
    FollowButton("INCUBATOR"), Part(Reads({incubatorsApi.getById}), {}, {})})
UniversitiesPage == DashboardPage({
    Part(Reads({universitiesApi.list}), {}, LinksTo({"/universities/[id]"}))})
UniversityDetailPage == DashboardPage({Part(Reads({universitiesApi.getById}), {}, {})})
ServiceProvidersPage == DashboardPage({
    Part(Reads({serviceProvidersApi.list}), {}, LinksTo({"/service-providers/[id]"}))})
ServiceProviderDetailPage == DashboardPage({Part(Reads({serviceProvidersApi.getById}), {}, {})})
LearningPage == DashboardPage({})
FutureModulePage == DashboardPage({})

PlanLimitRow == Part({}, {Offer(planLimitsApi.update, Simply, Always)}, {})
AdminDashboardPage == DashboardPage({PlanLimitRow,
    Part(Reads({adminApi.verificationOverview, adminApi.totals, adminApi.signups,
                adminApi.connectionAcceptanceRate, adminApi.verificationFunnel,
                adminApi.listUsers, planLimitsApi.list, adminApi.systemHealth}), {}, {})})
------------------------------------------------------------------------------
(* The pages for visitors. *)
NavBar == Part({}, {}, LinksTo({"/", "/register", "/login", "/pricing", "/about"}))
Footer == Part({}, {}, LinksTo({"/about"}))
MarketingPage(parts) == Together(parts \union {NavBar, Footer})

LandingPage == MarketingPage({Part({}, {}, LinksTo({"/register", "/login"}))})
AboutPage == MarketingPage({Part({}, {}, LinksTo({"/"}))})
PricingPage == MarketingPage({Part({}, {}, LinksTo({"/register"}))})

(* An investor's visit is counted. *)
StartupProfilePage == MarketingPage({FollowButton("FOUNDER"),
    Part(Reads({startupsApi.getBySlug, startupsApi.getPublicActivity, authApi.me})
         \union ReadsFor(InvestorOnly, {startupsApi.recordView}), {}, {})})

LoginPage == Part(Reads({authApi.captchaSiteKey}),
    {Offer(call, Simply, Always) : call \in {authApi.login, authApi.completeMfaChallenge}},
    LinksTo({"/", "/forgot-password", "/register", "/unavailable"}))
RegisterPage == Part(Reads({authApi.captchaSiteKey}), {Offer(authApi.register, Simply, Always)},
    LinksTo({"/", "/login"}))
ForgotPasswordPage == Part({}, {Offer(authApi.forgotPassword, Simply, Always)}, LinksTo({"/", "/login"}))
ResetPasswordPage == Part({}, {Offer(authApi.resetPassword, Simply, Always)},
    LinksTo({"/", "/login", "/forgot-password"}))
VerifyEmailPage == Part(Reads({authApi.me}),
    {Offer(call, Simply, Always) : call \in {authApi.confirmVerificationEmail, authApi.resendVerificationEmail}},
    LinksTo({"/", "/onboarding"}))
UnavailablePage == Part({}, {}, LinksTo({"/"}))
------------------------------------------------------------------------------
(* A role's wizard; a founder's and an investor's leads to their dashboards,
   the others' to the landing page. *)
WizardPage(profile, next) == Part(
    Reads({onboardingApi.getState}),
    {Offer(onboardingApi.saveDraft, Simply, Always), Offer(onboardingApi.publish, profile, Always)},
    LinksTo({next}))

ROLE_ONBOARDING_PATH(who) ==
    CASE who = "FOUNDER" -> "/onboarding/founder"
      [] who = "INVESTOR" -> "/onboarding/investor"
      [] who = "MENTOR" -> "/onboarding/mentor"
      [] who = "INCUBATOR" -> "/onboarding/incubator"
      [] who = "UNIVERSITY" -> "/onboarding/university"
      [] who = "SERVICE_PROVIDER" -> "/onboarding/service-provider"
      [] who = "JOB_SEEKER" -> "/onboarding/job-seeker"

ROLE_HOME(who) ==
    CASE who = "FOUNDER" -> "/founder"
      [] who = "INVESTOR" -> "/investor"
      [] who = "ADMIN" -> "/admin"
      [] who = "MENTOR" -> "/mentors/bookings"
      [] who = "JOB_SEEKER" -> "/jobs"
      [] OTHER -> "/community"

(* Whether the profile is published decides where the entry page sends: both
   ways are links here. *)
OnboardingRedirectPage == Part(
    Reads({authApi.me, onboardingApi.getState}), {},
    {LinkFor({r}, ROLE_ONBOARDING_PATH(r), Always) : r \in Roles \ {"ADMIN"}}
    \union {LinkFor({r}, ROLE_HOME(r), Always) : r \in Roles}
    \union {LinkFor({Visitor}, "/login", Always)})
------------------------------------------------------------------------------
FounderArea == {"/founder", "/founder/analytics", "/founder/documents", "/founder/hiring"}
InvestorArea ==
    {"/investor", "/investor/discover", "/investor/portfolio", "/investor/requests",
     "/investor/watchlist", "/investor/meetings", "/investor/messages", "/investor/pipeline",
     "/investor/mandates", "/investor/saved-searches", "/investor/co-investors",
     "/investor/recommendations", "/investor/analytics", "/investor/documents",
     "/investor/profile", "/investor/settings"}
AdminArea == {"/admin"}

InvestorPage(path) ==
    CASE path = "/investor" -> InvestorDashboardPage
      [] path = "/investor/discover" -> DiscoverPage
      [] path = "/investor/portfolio" -> PortfolioPage
      [] path = "/investor/requests" -> InvestorRequestsPage
      [] path = "/investor/watchlist" -> WatchlistPage
      [] path = "/investor/meetings" -> MeetingsPage
      [] path = "/investor/messages" -> MessagesPage
      [] path = "/investor/pipeline" -> PipelinePage
      [] path = "/investor/mandates" -> MandatesPage
      [] path = "/investor/saved-searches" -> SavedSearchesPage
      [] path = "/investor/co-investors" -> CoInvestorsPage
      [] path = "/investor/recommendations" -> RecommendationsPage
      [] path = "/investor/analytics" -> InvestorAnalyticsPage
      [] path = "/investor/documents" -> InvestorDocumentsPage
      [] path = "/investor/profile" -> InvestorProfilePage
      [] path = "/investor/settings" -> InvestorSettingsPage

FounderPage(path) ==
    CASE path = "/founder" -> FounderDashboardPage
      [] path = "/founder/analytics" -> FounderAnalyticsPage
      [] path = "/founder/documents" -> FounderDocumentsPage
      [] path = "/founder/hiring" -> FounderHiringPage

SharedPages ==
    {"/mentors", "/mentors/[id]", "/mentors/bookings", "/jobs", "/search", "/community",
     "/connections/[id]", "/incubators", "/incubators/[id]", "/universities", "/universities/[id]",
     "/service-providers", "/service-providers/[id]", "/learning", "/modules/[slug]"}
SharedPage(path) ==
    CASE path = "/mentors" -> MentorsDirectoryPage
      [] path = "/mentors/[id]" -> MentorDetailPage
      [] path = "/mentors/bookings" -> MentorBookingsPage
      [] path = "/jobs" -> JobsBrowsePage
      [] path = "/search" -> SearchPage
      [] path = "/community" -> CommunityPage
      [] path = "/connections/[id]" -> ConnectionMessagesPage
      [] path = "/incubators" -> IncubatorsPage
      [] path = "/incubators/[id]" -> IncubatorDetailPage
      [] path = "/universities" -> UniversitiesPage
      [] path = "/universities/[id]" -> UniversityDetailPage
      [] path = "/service-providers" -> ServiceProvidersPage
      [] path = "/service-providers/[id]" -> ServiceProviderDetailPage
      [] path = "/learning" -> LearningPage
      [] path = "/modules/[slug]" -> FutureModulePage

EntryPages ==
    {"/", "/about", "/pricing", "/startups/[slug]", "/login", "/register", "/forgot-password",
     "/reset-password", "/verify-email", "/unavailable", "/onboarding"}
EntryPage(path) ==
    CASE path = "/" -> LandingPage
      [] path = "/about" -> AboutPage
      [] path = "/pricing" -> PricingPage
      [] path = "/startups/[slug]" -> StartupProfilePage
      [] path = "/login" -> LoginPage
      [] path = "/register" -> RegisterPage
      [] path = "/forgot-password" -> ForgotPasswordPage
      [] path = "/reset-password" -> ResetPasswordPage
      [] path = "/verify-email" -> VerifyEmailPage
      [] path = "/unavailable" -> UnavailablePage
      [] path = "/onboarding" -> OnboardingRedirectPage

Wizards == {ROLE_ONBOARDING_PATH(r) : r \in Roles \ {"ADMIN"}}
Wizard(path) ==
    CASE path = "/onboarding/founder" -> WizardPage("startup", "/founder")
      [] path = "/onboarding/investor" -> WizardPage("investorProfile", "/investor")
      [] OTHER -> WizardPage("otherProfile", "/")

Paths == FounderArea \union InvestorArea \union AdminArea \union SharedPages \union EntryPages \union Wizards
Pages == [path \in Paths |->
    CASE path \in FounderArea -> FounderPage(path)
      [] path \in InvestorArea -> InvestorPage(path)
      [] path \in AdminArea -> AdminDashboardPage
      [] path \in SharedPages -> SharedPage(path)
      [] path \in EntryPages -> EntryPage(path)
      [] path \in Wizards -> Wizard(path)]

(* The middleware, for a reader with a session. *)
ProtectedFor(path) ==
    CASE path \in FounderArea \union {"/founder/settings"} -> {"FOUNDER", "ADMIN"}
      [] path \in InvestorArea -> {"INVESTOR", "ADMIN"}
      [] path \in AdminArea -> {"ADMIN"}
      [] path \in {"/login", "/register"} -> {Visitor}
      [] OTHER -> Public
SentTo(who, path) ==
    IF who \in ProtectedFor(path) THEN path ELSE IF who = Visitor THEN "/login" ELSE ROLE_HOME(who)
==============================================================================

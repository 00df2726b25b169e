------------------------------ MODULE ApiClient ------------------------------
(***************************************************************************)
(* The calls of packages/api-client: for each function of an endpoint file *)
(* the request it sends.  What the query string or the body carries is     *)
(* left out.                                                               *)
(***************************************************************************)
EXTENDS ApiRoutes

(* What a call asks the service for, when it can ask for one thing only. *)
Simply == "simply"

Sends(verb, path) == [verb |-> verb, path |-> path]
Gets(path) == Sends("GET", path)
Posts(path) == Sends("POST", path)
Patches(path) == Sends("PATCH", path)
Deletes(path) == Sends("DELETE", path)
------------------------------------------------------------------------------
adminApi == [
    systemHealth |-> Gets(<<"admin", "system-health">>),
    verificationOverview |-> Gets(<<"admin", "verification-overview">>),
    totals |-> Gets(<<"admin", "analytics", "totals">>),
    signups |-> Gets(<<"admin", "analytics", "signups">>),
    connectionAcceptanceRate |-> Gets(<<"admin", "analytics", "connection-acceptance-rate">>),
    verificationFunnel |-> Gets(<<"admin", "analytics", "verification-funnel">>),
    listUsers |-> Gets(<<"admin", "users">>)]

(* Investors and founders ask the same route for their recommendations. *)
analyticsApi == [
    get |-> Gets(<<"analytics">>),
    getRecommendations |-> Gets(<<"recommendations">>),
    getFounderRecommendations |-> Gets(<<"recommendations">>)]

authApi == [
    register |-> Posts(<<"auth", "register">>),
    login |-> Posts(<<"auth", "login">>),
    completeMfaChallenge |-> Posts(<<"auth", "mfa", "challenge">>),
    logout |-> Posts(<<"auth", "logout">>),
    me |-> Gets(<<"auth", "me">>),
    resendVerificationEmail |-> Posts(<<"auth", "verify-email", "resend">>),
    confirmVerificationEmail |-> Posts(<<"auth", "verify-email", "confirm">>),
    forgotPassword |-> Posts(<<"auth", "password", "forgot">>),
    resetPassword |-> Posts(<<"auth", "password", "reset">>),
    changePassword |-> Posts(<<"auth", "password", "change">>),
    beginMfaEnrollment |-> Posts(<<"auth", "mfa", "enroll">>),
    confirmMfaEnrollment |-> Posts(<<"auth", "mfa", "enroll", "confirm">>),
    disableMfa |-> Posts(<<"auth", "mfa", "disable">>),
    listSessions |-> Gets(<<"auth", "sessions">>),
    revokeSession |-> Deletes(<<"auth", "sessions", Id>>),
    revokeOtherSessions |-> Deletes(<<"auth", "sessions">>),
    captchaSiteKey |-> Gets(<<"auth", "captcha-site-key">>),
    csrfBootstrap |-> Gets(<<"auth", "csrf">>)]

communityApi == [
    feed |-> Gets(<<"community", "feed">>),
    createPost |-> Posts(<<"community", "posts">>),
    removePost |-> Deletes(<<"community", "posts", Id>>),
    listComments |-> Gets(<<"community", "posts", Id, "comments">>),
    addComment |-> Posts(<<"community", "posts", Id, "comments">>),
    likePost |-> Posts(<<"community", "posts", Id, "like">>),
    bookmarkPost |-> Posts(<<"community", "posts", Id, "bookmark">>),
    likeComment |-> Posts(<<"community", "comments", Id, "like">>),
    vote |-> Posts(<<"community", "polls", Id, "vote">>),
    rsvp |-> Posts(<<"community", "posts", Id, "rsvp">>),
    cancelRsvp |-> Deletes(<<"community", "posts", Id, "rsvp">>)]

connectionsApi == [
    list |-> Gets(<<"connections">>),
    quota |-> Gets(<<"connections", "quota">>),
    listMyMeetings |-> Gets(<<"connections", "meetings">>),
    create |-> Posts(<<"connections">>),
    respond |-> Posts(<<"connections", Id, "respond">>),
    listMessages |-> Gets(<<"connections", Id, "messages">>),
    sendMessage |-> Posts(<<"connections", Id, "messages">>),
    requestInfo |-> Posts(<<"connections", Id, "request-info">>),
    listMeetings |-> Gets(<<"connections", Id, "meetings">>),
    scheduleMeeting |-> Posts(<<"connections", Id, "meetings">>)]

documentsApi == [
    list |-> Gets(<<"documents">>),
    upload |-> Posts(<<"documents">>),
    remove |-> Deletes(<<"documents", Id>>),
    sharedWithMe |-> Gets(<<"documents", "shared-with-me">>),
    access |-> Gets(<<"documents", Id, "access">>),
    listGrants |-> Gets(<<"documents", Id, "grants">>),
    grant |-> Posts(<<"documents", Id, "grants">>),
    revokeGrant |-> Deletes(<<"documents", "grants", Id>>),
    acceptNda |-> Posts(<<"documents", "grants", Id, "accept-nda">>)]

followsApi == [
    listFollowing |-> Gets(<<"follows", "me">>),
    listFollowers |-> Gets(<<"follows", "me", "followers">>),
    isFollowing |-> Gets(<<"follows", Id>>),
    follow |-> Posts(<<"follows", Id>>),
    unfollow |-> Deletes(<<"follows", Id>>)]

hiringApi == [
    search |-> Gets(<<"jobs">>),
    listMine |-> Gets(<<"jobs", "mine">>),
    create |-> Posts(<<"jobs">>),
    update |-> Patches(<<"jobs", Id>>),
    close |-> Posts(<<"jobs", Id, "close">>),
    apply |-> Posts(<<"jobs", Id, "apply">>),
    listApplications |-> Gets(<<"jobs", Id, "applications">>),
    listMyApplications |-> Gets(<<"jobs", "applications", "mine">>),
    respondToApplication |-> Patches(<<"jobs", "applications", Id>>)]

incubatorsApi == [list |-> Gets(<<"incubators">>), getById |-> Gets(<<"incubators", Id>>)]

investorsApi == [
    list |-> Gets(<<"investors">>),
    getById |-> Gets(<<"investors", Id>>),
    getMine |-> Gets(<<"investors", "me">>),
    updateMine |-> Patches(<<"investors", "me">>),
    getMyCoInvestorGraph |-> Gets(<<"investors", "me", "co-investors">>)]

mandatesApi == [
    list |-> Gets(<<"investors", "me", "mandates">>),
    create |-> Posts(<<"investors", "me", "mandates">>),
    update |-> Patches(<<"investors", "me", "mandates", Id>>),
    remove |-> Deletes(<<"investors", "me", "mandates", Id>>),
    matches |-> Gets(<<"investors", "me", "mandates", Id, "matches">>)]

mediaApi == [createUploadUrl |-> Posts(<<"media", "upload-url">>)]

mentorsApi == [
    list |-> Gets(<<"mentors">>),
    getById |-> Gets(<<"mentors", Id>>),
    book |-> Posts(<<"mentors", Id, "book">>),
    listBookings |-> Gets(<<"mentors", "bookings">>),
    respondToBooking |-> Posts(<<"mentors", "bookings", Id, "respond">>),
    reviewBooking |-> Posts(<<"mentors", "bookings", Id, "review">>),
    reviewMentor |-> Posts(<<"mentors", "bookings", Id, "review-mentor">>)]

notificationsApi == [
    list |-> Gets(<<"notifications">>),
    unreadCount |-> Gets(<<"notifications", "unread-count">>),
    markRead |-> Patches(<<"notifications", Id, "read">>),
    markAllRead |-> Patches(<<"notifications", "read-all">>)]

onboardingApi == [
    getState |-> Gets(<<"onboarding", "state">>),
    saveDraft |-> Patches(<<"onboarding", "draft">>),
    publish |-> Posts(<<"onboarding", "publish">>)]

pipelineApi == [
    list |-> Gets(<<"pipeline">>),
    add |-> Posts(<<"pipeline">>),
    update |-> Patches(<<"pipeline", Id>>),
    pass |-> Patches(<<"pipeline", Id, "pass">>),
    remove |-> Deletes(<<"pipeline", Id>>)]

planLimitsApi == [
    list |-> Gets(<<"admin", "plan-limits">>),
    update |-> Patches(<<"admin", "plan-limits", Id>>)]

portfolioApi == [
    list |-> Gets(<<"portfolio">>),
    dashboard |-> Gets(<<"portfolio", "dashboard">>),
    recordExit |-> Patches(<<"portfolio", Id, "exit">>),
    setFollowUp |-> Patches(<<"portfolio", Id, "follow-up">>)]

savedSearchesApi == [
    list |-> Gets(<<"investors", "me", "saved-searches">>),
    create |-> Posts(<<"investors", "me", "saved-searches">>),
    update |-> Patches(<<"investors", "me", "saved-searches", Id>>),
    remove |-> Deletes(<<"investors", "me", "saved-searches", Id>>),
    run |-> Gets(<<"investors", "me", "saved-searches", Id, "run">>),
    newMatchesCount |-> Gets(<<"investors", "me", "saved-searches", Id, "new-count">>),
    markViewed |-> Posts(<<"investors", "me", "saved-searches", Id, "mark-viewed">>)]

searchApi == [search |-> Gets(<<"search">>)]

serviceProvidersApi == [
    list |-> Gets(<<"service-providers">>), getById |-> Gets(<<"service-providers", Id>>)]

startupsApi == [
    search |-> Gets(<<"startups">>),
    getBySlug |-> Gets(<<"startups", Id>>),
    getMine |-> Gets(<<"startups", "me">>),
    getMyHealth |-> Gets(<<"startups", "me", "health">>),
    getMyTrustPreview |-> Gets(<<"startups", "me", "trust-preview">>),
    listMilestones |-> Gets(<<"startups", Id, "milestones">>),
    addMilestone |-> Posts(<<"startups", "me", "milestones">>),
    create |-> Posts(<<"startups">>),
    getMyActivity |-> Gets(<<"startups", "me", "activity">>),
    getPublicActivity |-> Gets(<<"startups", Id, "activity">>),
    getMyProfileViews |-> Gets(<<"startups", "me", "views">>),
    recordView |-> Posts(<<"startups", Id, "view">>),
    getMyAnalytics |-> Gets(<<"startups", "me", "analytics">>),
    getMyBenchmark |-> Gets(<<"startups", "me", "benchmark">>),
    updateMyVisibility |-> Patches(<<"startups", "me", "visibility">>)]

universitiesApi == [list |-> Gets(<<"universities">>), getById |-> Gets(<<"universities", Id>>)]

usersApi == [deleteMe |-> Deletes(<<"users", "me">>)]

watchlistApi == [
    list |-> Gets(<<"watchlist">>),
    follow |-> Posts(<<"watchlist">>),
    unfollow |-> Deletes(<<"watchlist", Id>>),
    update |-> Patches(<<"watchlist", Id>>),
    listTriggers |-> Gets(<<"watchlist", "triggers">>),
    createTrigger |-> Posts(<<"watchlist", "triggers">>),
    removeTrigger |-> Deletes(<<"watchlist", "triggers", Id>>)]

workspaceApi == [home |-> Gets(<<"workspace", "home">>)]
==============================================================================

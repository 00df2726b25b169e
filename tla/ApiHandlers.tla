----------------------------- MODULE ApiHandlers -----------------------------
(***************************************************************************)
(* What the handlers of the API do with the rows that the pages show: for  *)
(* a request, and what it asks for, whom the service serves, the states it *)
(* needs the rows to be in, and those it leaves them in.  Requests without *)
(* an entry change none of these rows.  Races, quotas and what the rows    *)
(* hold are the subject of the components' own modules.                    *)
(***************************************************************************)
EXTENDS ApiClient

(* Rows are written as a function from their kinds to their states. *)
Row(row, state) == {<<row, state>>}
In(row, states) == {<<row, states>>}
Nothing == {}

On(request, does, by, needs, sets) ==
    [request |-> request, does |-> does, by |-> by, needs |-> needs, sets |-> sets]
(* One entry for each of the things a request may ask for. *)
OnEach(request, asks, by, needs, row) ==
    {On(request, does, by, needs, Row(row, does)) : does \in asks}

Published == In("startup", {"published"})
------------------------------------------------------------------------------
(* Asking for more information and planning a meeting look at no status. *)
ConnectionsService ==
    LET Some == In("connection", {"PENDING", "ACCEPTED", "DECLINED", "IGNORED"})
    IN  {On(Posts(<<"connections">>), Simply, FounderOnly,
            Published \union In("connection", {"none"}), Row("connection", "PENDING")),
         On(Posts(<<"connections", Id, "request-info">>), Simply, InvestorOnly, Some, Row("info", "yes")),
         On(Posts(<<"connections", Id, "meetings">>), Simply, SignedIn, Some, Row("meeting", "planned")),
         On(Posts(<<"connections", Id, "messages">>), Simply, SignedIn,
            In("connection", {"ACCEPTED"}), Row("message", "sent"))}
        \union OnEach(Posts(<<"connections", Id, "respond">>), {"ACCEPTED", "DECLINED", "IGNORED"},
                      InvestorOnly, In("connection", {"PENDING"}), "connection")

(* A document is its owner's; its grants go with it. *)
DocumentsService ==
    LET Kept == In("document", {"kept"})
    IN  {On(Posts(<<"documents">>), Simply, FounderOnly, Nothing, Row("document", "kept")),
         On(Posts(<<"documents">>), Simply, SignedIn \ FounderOnly, Nothing, Row("ownDocument", "kept")),
         On(Deletes(<<"documents", Id>>), Simply, SignedIn, Kept,
            Row("document", "none") \union Row("grant", "none")),
         On(Deletes(<<"documents", Id>>), "own", SignedIn, In("ownDocument", {"kept"}),
            Row("ownDocument", "none")),
         On(Gets(<<"documents", Id, "access">>), Simply, SignedIn, In("ownDocument", {"kept"}), Nothing)}

(* Granting again starts afresh. *)
DocumentAccessService ==
    LET Granted == In("grant", {"open", "nda", "revoked"})
    IN  {On(Posts(<<"documents", Id, "grants">>), "plain", SignedIn, In("document", {"kept"}), Row("grant", "open")),
         On(Posts(<<"documents", Id, "grants">>), "nda", SignedIn, In("document", {"kept"}), Row("grant", "nda")),
         On(Deletes(<<"documents", "grants", Id>>), Simply, SignedIn, Granted, Row("grant", "revoked")),
         On(Posts(<<"documents", "grants", Id, "accept-nda">>), Simply, SignedIn, In("grant", {"nda"}), Row("grant", "open"))}

(* The job, and the application of one job seeker; the others' are not
   followed.  Neither closing nor answering looks at a status. *)
HiringService ==
    {On(Posts(<<"jobs">>), Simply, FounderOnly, Published \union In("job", {"none"}), Row("job", "OPEN")),
     On(Posts(<<"jobs">>), Simply, FounderOnly, Published, Nothing),
     On(Posts(<<"jobs", Id, "close">>), Simply, FounderOnly,
        Published \union In("job", {"OPEN", "CLOSED"}), Row("job", "CLOSED")),
     On(Posts(<<"jobs", Id, "apply">>), Simply, {"JOB_SEEKER"},
        In("job", {"OPEN"}) \union In("application", {"none"}), Row("application", "SUBMITTED")),
     On(Posts(<<"jobs", Id, "apply">>), Simply, SignedIn \ {"JOB_SEEKER"}, In("job", {"OPEN"}), Nothing)}
    \union OnEach(Patches(<<"jobs", "applications", Id>>), {"SHORTLISTED", "REJECTED", "HIRED"}, FounderOnly,
                  Published \union In("application", {"SUBMITTED", "SHORTLISTED", "REJECTED", "HIRED"}),
                  "application")

(* A founder may book as often as he likes; one booking is followed. *)
MentorBookingService ==
    {On(Posts(<<"mentors", Id, "book">>), Simply, FounderOnly, In("booking", {"none"}), Row("booking", "PENDING")),
     On(Posts(<<"mentors", Id, "book">>), Simply, FounderOnly, Nothing, Nothing)}
    \union OnEach(Posts(<<"mentors", "bookings", Id, "respond">>), {"ACCEPTED", "DECLINED"}, MentorOnly,
                  In("booking", {"PENDING"}), "booking")
FounderReviewsService ==
    {On(Posts(<<"mentors", "bookings", Id, "review">>), Simply, MentorOnly,
        In("booking", {"ACCEPTED"}) \union In("founderReview", {"none"}), Row("founderReview", "written"))}
MentorReviewsService ==
    {On(Posts(<<"mentors", "bookings", Id, "review-mentor">>), Simply, FounderOnly,
        In("booking", {"ACCEPTED"}) \union In("mentorReview", {"none"}), Row("mentorReview", "written"))}
------------------------------------------------------------------------------
(* The post of a founder, and what one investor does with it; the posts and
   answers of the others are not followed. *)
APost == In("post", {"own", "others"})
Of(who, request, needs, sets) ==
    {On(request, Simply, {who}, needs, sets), On(request, Simply, SignedIn \ {who}, APost, Nothing)}
(* Only an administrator announces. *)
PostsService ==
    LET Types == {"FOUNDER_POST", "STARTUP_UPDATE", "POLL", "EVENT"}
        Creating == Posts(<<"community", "posts">>)
    IN  {On(Creating, type, FounderOnly, Nothing, Row("post", "own")) : type \in Types}
        \union {On(Creating, type, SignedIn \ FounderOnly, Nothing, Nothing) : type \in Types}
        \union {On(Creating, "ANNOUNCEMENT", {"ADMIN"}, Nothing, Nothing),
                On(Deletes(<<"community", "posts", Id>>), Simply, SignedIn, In("post", {"own"}),
                   Row("post", "none") \union Row("voted", "no")
                   \union Row("rsvp", "no") \union Row("comment", "none"))}
CommentsService ==
    Of("INVESTOR", Posts(<<"community", "posts", Id, "comments">>), APost, Row("comment", "written"))
LikesService == {On(Posts(<<"community", "posts", Id, "like">>), Simply, SignedIn, APost, Nothing)}
BookmarksService == {On(Posts(<<"community", "posts", Id, "bookmark">>), Simply, SignedIn, APost, Nothing)}
PollsService ==
    Of("INVESTOR", Posts(<<"community", "polls", Id, "vote">>),
       APost \union In("voted", {"no"}), Row("voted", "yes"))
EventsService ==
    Of("INVESTOR", Posts(<<"community", "posts", Id, "rsvp">>),
       APost \union In("rsvp", {"no"}), Row("rsvp", "yes"))
    \union {On(Deletes(<<"community", "posts", Id, "rsvp">>), Simply, InvestorOnly, Nothing, Row("rsvp", "no")),
            On(Deletes(<<"community", "posts", Id, "rsvp">>), Simply, SignedIn \ InvestorOnly, Nothing, Nothing)}
FollowsService ==
    {On(Posts(<<"follows", Id>>), Simply, InvestorOnly, Nothing, Row("follow", "yes")),
     On(Deletes(<<"follows", Id>>), Simply, InvestorOnly, Nothing, Row("follow", "no"))}
    \union {On(request, Simply, SignedIn \ InvestorOnly, Nothing, Nothing) :
                request \in {Posts(<<"follows", Id>>), Deletes(<<"follows", Id>>)}}
------------------------------------------------------------------------------
(* Watching can be ended without being on: only an update needs the entry. *)
WatchlistService ==
    {On(Posts(<<"watchlist">>), Simply, InvestorOnly, Published, Row("watched", "yes")),
     On(Deletes(<<"watchlist", Id>>), Simply, InvestorOnly, Nothing, Row("watched", "no")),
     On(Patches(<<"watchlist", Id>>), Simply, InvestorOnly, In("watched", {"yes"}), Nothing)}
(* A trigger needs no entry in the watchlist, and outlives it. *)
WatchlistTriggersService ==
    {On(Posts(<<"watchlist", "triggers">>), Simply, InvestorOnly, Published, Row("trigger", "set")),
     On(Deletes(<<"watchlist", "triggers", Id>>), Simply, InvestorOnly, In("trigger", {"set"}), Row("trigger", "none"))}
(* Closing a deal makes the holding, and leaves one there already alone. *)
PipelineService ==
    LET Entry == In("deal", {"open", "closed"})
    IN  {On(Posts(<<"pipeline">>), Simply, InvestorOnly, Published, Row("deal", "open")),
         On(Patches(<<"pipeline", Id>>), "open", InvestorOnly, Entry, Row("deal", "open")),
         On(Patches(<<"pipeline", Id>>), "closed", InvestorOnly, Entry \union In("holding", {"none"}),
            Row("deal", "closed") \union Row("holding", "held")),
         On(Patches(<<"pipeline", Id>>), "closed", InvestorOnly, Entry \union In("holding", {"held", "exited"}),
            Row("deal", "closed"))}
PortfolioService ==
    LET Holding == In("holding", {"held", "exited"})
    IN  {On(Patches(<<"portfolio", Id, "exit">>), Simply, InvestorOnly, Holding, Row("holding", "exited")),
         On(Patches(<<"portfolio", Id, "follow-up">>), Simply, InvestorOnly, Holding, Nothing)}
MandatesService ==
    LET Own == In("mandate", {"active", "paused"})
        Mandate == <<"investors", "me", "mandates", Id>>
    IN  {On(Posts(<<"investors", "me", "mandates">>), Simply, InvestorOnly, Nothing, Row("mandate", "active")),
         On(Deletes(Mandate), Simply, InvestorOnly, Own, Row("mandate", "none"))}
        \union OnEach(Patches(Mandate), {"active", "paused"}, InvestorOnly, Own, "mandate")
SavedSearchesService ==
    LET Own == In("search", {"kept"})
        Search == <<"investors", "me", "saved-searches", Id>>
    IN  {On(Posts(<<"investors", "me", "saved-searches">>), Simply, InvestorOnly, Nothing, Row("search", "kept")),
         On(Posts(<<"investors", "me", "saved-searches", Id, "mark-viewed">>), Simply, InvestorOnly, Own, Nothing),
         On(Deletes(Search), Simply, InvestorOnly, Own, Row("search", "none"))}
(* The update of a profile that is not there fails in the database. *)
InvestorsService ==
    {On(Patches(<<"investors", "me">>), Simply, InvestorOnly, In("investorProfile", {"published"}), Nothing)}
StartupsService ==
    OnEach(Patches(<<"startups", "me", "visibility">>), {"PUBLIC", "INVESTOR_ONLY", "PRIVATE", "STEALTH"},
           FounderOnly, Published, "visibility")
(* Which may be told to the community. *)
MilestonesService ==
    {On(Posts(<<"startups", "me", "milestones">>), Simply, FounderOnly, Published, tells) :
        tells \in {Nothing, Row("post", "own")}}
(* A startup is published once; the other publishers update what is there. *)
OnboardingService ==
    {On(Posts(<<"onboarding", "publish">>), "startup", FounderOnly, In("startup", {"none"}),
        Row("startup", "published")),
     On(Posts(<<"onboarding", "publish">>), "investorProfile", InvestorOnly, Nothing,
        Row("investorProfile", "published")),
     On(Posts(<<"onboarding", "publish">>), "otherProfile",
        SignedIn \ {"FOUNDER", "INVESTOR", "ADMIN"}, Nothing, Nothing)}

Services == ConnectionsService \union DocumentsService \union DocumentAccessService
    \union HiringService \union MentorBookingService \union FounderReviewsService
    \union MentorReviewsService \union PostsService \union CommentsService \union LikesService
    \union BookmarksService \union PollsService \union EventsService \union FollowsService
    \union WatchlistService \union WatchlistTriggersService \union PipelineService
    \union PortfolioService \union MandatesService \union SavedSearchesService
    \union InvestorsService \union StartupsService \union MilestonesService
    \union OnboardingService
------------------------------------------------------------------------------
(* StartupPublicProjectionService.assertViewable, for a startup of a founder. *)
Viewable(who, visibility) ==
    \/ who = "FOUNDER"
    \/ visibility = "PUBLIC"
    \/ visibility = "INVESTOR_ONLY" /\ who = "INVESTOR"
==============================================================================

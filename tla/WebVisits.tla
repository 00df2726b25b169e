------------------------------ MODULE WebVisits ------------------------------
(***************************************************************************)
(* The web app in use: one browser in which people sign in, follow the     *)
(* links of the pages and press what the pages offer, and the API behind   *)
(* it.  Nothing changes but through a page somebody got to by links, so    *)
(* the module puts the pages, the client, the routes and the services      *)
(* together.  A page shows the rows as they are: what a page offers after  *)
(* somebody else changed the row is the subject of the other modules.      *)
(***************************************************************************)
EXTENDS WebPages, ApiHandlers

CONSTANT
    PartsFor    \* what is found on the pages: the value of SiteParts

VARIABLES
    topic,       \* the kinds of rows this behaviour is about
    siteRows,    \* the state of the row of each kind
    reader,      \* who sits at the browser
    openPage     \* the page shown

webVars == <<topic, siteRows, reader, openPage>>

(* A row nobody has made; all there ever is of the kinds of other topics,
   but for a published startup and an investor open for pitches. *)
Unmade == [
    startup |-> "none", visibility |-> "PUBLIC", investorProfile |-> "none", investor |-> "open",
    connection |-> "none", info |-> "no", meeting |-> "none", message |-> "none",
    document |-> "none", ownDocument |-> "none", grant |-> "none",
    job |-> "none", application |-> "none",
    booking |-> "none", founderReview |-> "none", mentorReview |-> "none",
    post |-> "none", voted |-> "no", rsvp |-> "no", comment |-> "none", follow |-> "no",
    watched |-> "no", trigger |-> "none", deal |-> "none", holding |-> "none",
    mandate |-> "none", search |-> "none"]
Kinds == DOMAIN Unmade

Topics == {
    {"startup", "connection", "info", "meeting", "message"},
    {"connection", "document", "grant", "ownDocument"},
    {"startup", "job", "application"},
    {"booking", "founderReview", "mentorReview"},
    {"post", "voted", "rsvp", "comment", "follow"},
    {"visibility", "watched", "trigger"},
    {"visibility", "deal", "holding"},
    {"startup", "investorProfile", "mandate", "search"}}

(* Whose pages show a row of the kind. *)
Readers(row) ==
    CASE row \in {"startup", "visibility", "investor", "job", "post"} -> Public
      [] row \in {"connection", "info", "meeting", "message", "grant"} -> {"FOUNDER", "INVESTOR"}
      [] row \in {"document"} -> FounderOnly
      [] row \in {"application"} -> {"FOUNDER", "JOB_SEEKER"}
      [] row \in {"booking", "founderReview", "mentorReview"} -> {"FOUNDER", "MENTOR"}
      [] row \in {"comment"} -> {"FOUNDER", "INVESTOR"}
      [] OTHER -> InvestorOnly

(* The rows as one reader sees them: a post is its author's own. *)
Seen(who) == [row \in Kinds |->
    IF who \notin Readers(row) THEN Unmade[row]
    ELSE IF row = "post" /\ siteRows.post = "own" /\ who # "FOUNDER" THEN "others"
    ELSE siteRows[row]]

Meets(view, conditions) == \A c \in conditions : view[c[1]] \in c[2]
------------------------------------------------------------------------------
(* The function: comparing it has it written out once, not at every use. *)
Tabulated(f) == IF f = f THEN f ELSE {}

(* The answer of the API: a request gets to the handler it was written for,
   the guards let the caller pass, and the service finds the rows as needed. *)
Calls == UNION {{r.call : r \in Pages[p].reads} \union {o.call : o \in Pages[p].offers} : p \in Paths}
Delivered(call) == Served(call) /\ Reached(call).path = call.path
Routed ==
    LET services == Services
        delivers == Tabulated([call \in Calls |-> Delivered(call)])
    IN Tabulated([call \in Calls |->
         [callers  |-> {who \in Public : delivers[call] /\ Admitted(who, call)},
          readable |-> delivers[call] => Reached(call).body,
          entries  |-> {s \in services : s.request = call}]])

(* What a reader finds on a page, and what the API makes of it.  A call that no
   service decides about needs no rows. *)
SiteParts ==
    LET routed == Routed
        pages  == Pages
        Asked(who, call) ==
            [call |-> call, passes |-> who \in routed[call].callers,
             readable |-> routed[call].readable]
        Offered(who, o) ==
            [asked   |-> Asked(who, o.call), does |-> o.does, when |-> o.when,
             decided |-> routed[o.call].entries # {},
             answers |-> {s \in routed[o.call].entries : s.does = o.does /\ who \in s.by}]
    IN Tabulated([where \in Paths |-> Tabulated([who \in Public |->
         Part({Asked(who, r.call) : r \in {x \in pages[where].reads : who \in x.who}},
              {Offered(who, o) : o \in {x \in pages[where].offers : who \in x.who}},
              {l \in pages[where].links : who \in l.who})])])

ASSUME PartsAssumption == PartsFor = SiteParts

Parts == PartsFor

OffersTo(who, where) == {o \in Parts[where][who].offers : Meets(Seen(who), o.when)}
LinksOf(who, where) == {l \in Parts[where][who].links : Meets(Seen(who), l.when)}
ReadsOf(who, where) == Parts[where][who].reads

Serving(who, offer) == {s \in offer.answers : Meets(Seen(who), s.needs)}
Accepted(who, offer) ==
    /\ offer.asked.passes
    /\ offer.decided => Serving(who, offer) # {}

(* A page that names a row in its path shows it only to some. *)
Loads(who, where) ==
    /\ where = "/startups/[slug]" => Viewable(who, siteRows.visibility)
    /\ where = "/connections/[id]" => Seen(who).connection = "ACCEPTED"
------------------------------------------------------------------------------
WebInit ==
    /\ topic \in Topics
    /\ siteRows = IF "startup" \in topic THEN Unmade ELSE [Unmade EXCEPT !.startup = "published"]
    /\ reader = Visitor /\ openPage = "/"

(* Whoever signs in is sent to the entry page, whoever registers to the page
   that verifies the address. *)
SignInAs == \E who \in Roles :
    /\ reader = Visitor
    /\ \/ openPage = "/login" /\ openPage' = "/onboarding"
       \/ openPage = "/register" /\ who # "ADMIN" /\ openPage' = "/verify-email"
    /\ reader' = who
    /\ UNCHANGED <<topic, siteRows>>

FollowLink == \E l \in LinksOf(reader, openPage) :
    /\ l.to \in Paths
    /\ openPage' = SentTo(reader, l.to)
    /\ UNCHANGED <<topic, siteRows, reader>>

TakeOffer == \E offer \in OffersTo(reader, openPage) :
    /\ Accepted(reader, offer)
    /\ \E s \in Serving(reader, offer) :
          /\ siteRows' = [row \in Kinds |->
                IF row \in topic /\ \E change \in s.sets : change[1] = row
                THEN (CHOOSE change \in s.sets : change[1] = row)[2]
                ELSE siteRows[row]]
          /\ siteRows' # siteRows
    /\ UNCHANGED <<topic, reader, openPage>>

(* Deleting the account is meant to end here too: Navigation tells why it
   does not. *)
SignOut ==
    /\ \E offer \in OffersTo(reader, openPage) : offer.asked.call = authApi.logout
    /\ reader' = Visitor /\ openPage' = "/login"
    /\ UNCHANGED <<topic, siteRows>>

WebNext == SignInAs \/ FollowLink \/ TakeOffer \/ SignOut
WebSpec == WebInit /\ [][WebNext]_webVars
------------------------------------------------------------------------------
WebTypeOK ==
    /\ topic \in Topics /\ reader \in Public /\ openPage \in Paths
    /\ DOMAIN siteRows = Kinds
    /\ \A row \in Kinds \ topic :
          siteRows[row] \in {Unmade[row]} \union (IF row = "startup" THEN {"published"} ELSE {})

(* Nobody is on a page of an area that the middleware keeps for others. *)
AreasAreClosed == reader \in ProtectedFor(openPage)

(* What a row is about is there: no message without an accepted request, no
   review without a session, nothing granted of a deleted document, nothing
   said about a post that is gone. *)
Made(row) == siteRows[row] # Unmade[row]
NoOrphans ==
    /\ \A row \in {"connection", "job", "watched", "trigger", "deal"} :
          Made(row) => siteRows.startup = "published"
    /\ Made("message") => siteRows.connection = "ACCEPTED"
    /\ Made("info") \/ Made("meeting") => Made("connection")
    /\ Made("application") => Made("job")
    /\ Made("founderReview") \/ Made("mentorReview") => siteRows.booking = "ACCEPTED"
    /\ Made("grant") => Made("document")
    /\ Made("voted") \/ Made("rsvp") \/ Made("comment") => Made("post")
    /\ Made("holding") => Made("deal")
------------------------------------------------------------------------------
(* What the pages offer although the API refuses it: a session to readers who
   are no founders, an announcement to those who do not administrate, what is
   done once a second time, what takes a startup without one; and the answer
   to deleting the account, which has no body to read. *)
OfferedInVain(who, offer) ==
    \/ offer.asked.call = mentorsApi.book /\ who # "FOUNDER"
    \/ offer.asked.call = communityApi.createPost /\ offer.does = "ANNOUNCEMENT" /\ who # "ADMIN"
    \/ offer.asked.call = connectionsApi.create /\ (siteRows.startup = "none" \/ siteRows.connection # "none")
    \/ offer.asked.call = hiringApi.create /\ siteRows.startup = "none"
    \/ offer.asked.call = onboardingApi.publish /\ offer.does = "startup" /\ siteRows.startup = "published"
    \/ offer.asked.call = hiringApi.apply /\ siteRows.application # "none"
    \/ offer.asked.call = communityApi.rsvp /\ siteRows.rsvp = "yes"
    \/ offer.asked.call = mentorsApi.reviewBooking /\ siteRows.founderReview = "written"
    \/ offer.asked.call = mentorsApi.reviewMentor /\ siteRows.mentorReview = "written"
    \/ offer.asked.call = usersApi.deleteMe

\* Whatever a page offers to a reader, in the state its rows are in, gets to
\* the handler it was written for, passes the guards of the route and of the
\* service, and is answered in a form the client reads: the pages and the API
\* say the same of who may do what and when.  OfferedInVain are the exceptions.
OffersAreHonoured ==
    \A offer \in OffersTo(reader, openPage) :
        \/ Accepted(reader, offer) /\ offer.asked.readable
        \/ OfferedInVain(reader, offer)

(* Links to startups that their founders hide: some lists of an investor and
   the search take no account of the visibility. *)
HiddenStillLinked ==
    {"/investor", "/investor/recommendations", "/investor/watchlist", "/investor/portfolio"}

\* A link of a page leads to a page there is, where the middleware lets the
\* reader stay and which shows what the link names, and what the page reads
\* from the API as it opens is the reader's to read.  The exceptions are the
\* settings of a founder, which do not exist, the startups of
\* HiddenStillLinked, those for investors only in everybody's search, meetings
\* of requests that were not accepted, and the community asking everybody for
\* his startup.
LinksLead ==
    /\ \A l \in LinksOf(reader, openPage) :
          \/ /\ l.to \in Paths /\ Loads(reader, l.to)
             /\ SentTo(reader, l.to) = l.to \/ l.to \in {"/login", "/register"}
          \/ l.to = "/founder/settings"
          \/ l.to = "/startups/[slug]" /\ openPage \in HiddenStillLinked
          \/ l.to = "/startups/[slug]" /\ siteRows.visibility = "INVESTOR_ONLY" /\ reader # "INVESTOR"
          \/ l.to = "/connections/[id]" /\ openPage = "/investor/meetings"
    /\ \A read \in ReadsOf(reader, openPage) :
          \/ read.passes /\ read.readable
          \/ read.call = startupsApi.getMine /\ openPage = "/community"

(* The pages a reader gets to from his home in so many clicks. *)
Clicks == 2
Near(who) ==
    LET Reach[n \in 0..Clicks] ==
            IF n = 0 THEN {ROLE_HOME(who)}
            ELSE UNION {{SentTo(who, l.to) : l \in {m \in LinksOf(who, p) : m.to \in Paths}} :
                        p \in Reach[n - 1]}
                 \union Reach[n - 1]
    IN  Reach[Clicks]

(* The rows that wait for somebody's answer, or that somebody can take back. *)
Waits(row, states, who) == [row |-> row, states |-> states, who |-> who]
Waiting == {
    Waits("startup", {"none"}, "FOUNDER"), Waits("investorProfile", {"none"}, "INVESTOR"),
    Waits("connection", {"PENDING"}, "INVESTOR"), Waits("application", {"SUBMITTED"}, "FOUNDER"),
    Waits("booking", {"PENDING"}, "MENTOR"), Waits("grant", {"open", "nda"}, "FOUNDER"),
    Waits("job", {"OPEN"}, "FOUNDER"), Waits("document", {"kept"}, "FOUNDER"),
    Waits("ownDocument", {"kept"}, "INVESTOR"), Waits("post", {"own"}, "FOUNDER"),
    Waits("follow", {"yes"}, "INVESTOR"), Waits("watched", {"yes"}, "INVESTOR"),
    Waits("trigger", {"set"}, "INVESTOR"), Waits("deal", {"open"}, "INVESTOR"),
    Waits("holding", {"held"}, "INVESTOR"), Waits("mandate", {"active"}, "INVESTOR"),
    Waits("search", {"kept"}, "INVESTOR")}

\* Whoever a row waits for finds, within two clicks of his home page, an offer
\* that the API accepts and that takes the row out of that state: no request,
\* booking, application, grant or trigger is out of reach of the one who is to
\* answer it or may end it, whatever was done to the other rows before.
NobodyIsStuck ==
    \A w \in Waiting :
        /\ reader = w.who /\ openPage = ROLE_HOME(reader)
        /\ w.row \in topic /\ siteRows[w.row] \in w.states
        => \E where \in Near(reader) : \E offer \in OffersTo(reader, where) :
              /\ Accepted(reader, offer)
              /\ \E s \in Serving(reader, offer) : \E change \in s.sets :
                    change[1] = w.row /\ change[2] \notin w.states
==============================================================================

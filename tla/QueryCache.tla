------------------------------ MODULE QueryCache ------------------------------
(***************************************************************************)
(* What a page shows after the user changed something: the hooks of        *)
(* packages/api-client over TanStack Query.  Each hook file is a table of  *)
(* its queries and their keys, and of its mutations and the keys onSuccess *)
(* invalidates or sets; the dynamics follow one query and one mutation     *)
(* that names it.  The user may repeat the mutation before it is answered, *)
(* as with a like.  Mutations without onSuccess, and the hook files none   *)
(* of whose queries a mutation names (admin, analytics, search, workspace, *)
(* incubators, service providers, universities, users), are in no pair.    *)
(***************************************************************************)
EXTENDS SequencesExt, Integers

CONSTANTS
    MaxWrites,    \* bound on the writes of one behaviour
    MaxPresses    \* bound on the mutations under way together

ASSUME CacheAssumption == MaxWrites \in Nat /\ MaxPresses \in Nat

VARIABLES
    pair,       \* the query and the mutation, or the mutations of one row
    writes,     \* how often the mutation was carried out at the server
    open,       \* a mounted page uses the query
    shown,      \* the cached answer: how many of the writes it has seen
    fresh,      \* younger than staleTime and not invalidated
    fetch,      \* the query's request: none, not read yet, answered
    brings,     \* how many of the writes that answer has seen
    sent,       \* mutations under way that the server has not carried out
    written,    \* those it has, and whose answers are on their way
    acked,      \* history: the writes there were when it last succeeded
    failed,     \* the last fetch failed
    overtaken   \* history: an older answer may have followed the invalidation

cacheVars == <<pair, writes, open, shown, fresh, fetch, brings, sent, written, acked, failed, overtaken>>
------------------------------------------------------------------------------
(* The tables. "F" stands for any filters and "I" for one id, the one the
   mutation is given; staleTime is in seconds.  Mutations that name the same
   keys share a row, and may follow one another. A login counts as one when it
   signs in, not when it asks for the second factor. *)
Query(key) == [key |-> key, polls |-> FALSE, staleTime |-> 30]
Poll(key) == [Query(key) EXCEPT !.polls = TRUE]
Write(names, drops) == [names |-> names, drops |-> drops, sets |-> {}]

Me == <<"auth", "me">>
AuthSessions == <<"auth", "sessions">>
Auth == [
    queries |-> {[Query(Me) EXCEPT !.staleTime = 60], Query(AuthSessions)},
    writes |-> {[Write({"register", "login", "completeMfa", "logout"}, {}) EXCEPT !.sets = {Me}],
                Write({"confirmEmail", "confirmMfa", "disableMfa"}, {Me}),
                Write({"revokeSession", "revokeOthers"}, {AuthSessions})}]

Connections == [
    queries |-> {Query(<<"connections", "F">>), Query(<<"connections", "quota">>),
                 Query(<<"connections", "meetings">>), Query(<<"connections", "I", "meetings">>),
                 Poll(<<"connections", "I", "messages">>)},
    writes |-> {Write({"send"}, {<<"connections">>, <<"connections", "quota">>}),
                Write({"respond", "requestInfo"}, {<<"connections">>}),
                Write({"sendMessage"}, {<<"connections", "I", "messages">>}),
                Write({"scheduleMeeting"}, {<<"connections", "I", "meetings">>})}]

Documents == [
    queries |-> {Query(<<"documents">>), Query(<<"documents", "shared-with-me">>),
                 Query(<<"documents", "I", "grants">>)},
    writes |-> {Write({"grant", "revoke"}, {<<"documents", "I", "grants">>}),
                Write({"upload", "delete"}, {<<"documents">>})}]

MyParts == {"health", "trust-preview", "activity", "views", "analytics", "benchmark"}
Startups == [
    queries |-> {Query(<<"startups", "search", "F">>), Query(<<"startups", "detail", "I">>),
                 Query(<<"startups", "me">>)}
                \union {Query(<<"startups", "me", part>>) : part \in MyParts}
                \union {Query(<<"startups", "detail", "I", part>>) : part \in {"milestones", "activity"}},
    writes |-> {Write({"updateVisibility"}, {<<"startups", "me">>}), Write({"createStartup"}, {<<"startups">>}),
                Write({"addMilestone"},
                    {<<"startups", "me">>, <<"startups", "me", "health">>, <<"startups">>})}]

Investors == [
    queries |-> {Query(<<"investors", who>>) : who \in {"F", "I", "me"}}
                \union {Query(<<"investors", "me", "co-investors">>)},
    writes |-> {Write({"updateInvestor"}, {<<"investors", "me">>})}]

Mentors == [
    queries |-> {Query(<<"mentors", which>>) : which \in {"F", "I", "bookings"}},
    writes |-> {Write({"book", "respondToBooking"}, {<<"mentors", "bookings">>}),
                Write({"reviewMentor"}, {<<"mentors">>})}]

Jobs == [
    queries |-> {Query(<<"jobs", "search", "F">>), Query(<<"jobs", "mine">>),
                 Query(<<"jobs", "I", "applications">>), Query(<<"jobs", "applications", "mine">>)},
    writes |-> {Write({"createJob", "updateJob", "closeJob"}, {<<"jobs", "mine">>}),
                Write({"apply"}, {<<"jobs", "applications", "mine">>}),
                Write({"respondToApplication"}, {<<"jobs", "I", "applications">>})}]

Feed == <<"community", "feed">>
Comments == <<"community", "posts", "I", "comments">>
Community == [
    queries |-> {Query(<<"community", "feed", "F">>), Query(Comments)},
    writes |-> {Write({"addComment"}, {Comments, Feed}),
                Write({"createPost", "removePost", "like", "bookmark", "vote", "rsvp"}, {Feed})}]

Following == {<<"follows", "following">>, <<"follows", "is-following", "I">>}
Follows == [
    queries |-> {Query(key) : key \in Following \union {<<"follows", "followers">>}},
    writes |-> {Write({"follow", "unfollow"}, Following)}]

Mandates == [
    queries |-> {Query(<<"mandates">>), Query(<<"mandates", "I", "matches">>)},
    writes |-> {Write({"createMandate", "updateMandate", "removeMandate"}, {<<"mandates">>})}]

Unread == <<"notifications", "unread-count">>
Notifications == [
    queries |-> {Query(<<"notifications", "F">>), Poll(Unread)},
    writes |-> {Write({"markRead", "markAllRead"}, {<<"notifications">>, Unread})}]

Onboarding == [
    queries |-> {[Query(<<"onboarding", "state">>) EXCEPT !.staleTime = 0]},
    writes |-> {Write({"saveDraft"}, {<<"onboarding", "state">>})}]

Pipeline == [
    queries |-> {Query(<<"pipeline">>)},
    writes |-> {Write({"addDeal", "updateDeal", "passDeal", "removeDeal"}, {<<"pipeline">>})}]

PlanLimits == [
    queries |-> {Query(<<"plan-limits">>)},
    writes |-> {Write({"updatePlanLimit"}, {<<"plan-limits">>})}]

Holdings == {<<"portfolio">>, <<"portfolio", "dashboard">>}
Portfolio == [
    queries |-> {Query(key) : key \in Holdings},
    writes |-> {Write({"recordExit", "setFollowUp"}, Holdings)}]

NewCount == <<"saved-searches", "I", "new-count">>
SavedSearches == [
    queries |-> {Query(<<"saved-searches">>), Query(<<"saved-searches", "I", "run">>), Query(NewCount)},
    writes |-> {Write({"createSearch", "updateSearch", "removeSearch"}, {<<"saved-searches">>}),
                Write({"markViewed"}, {NewCount, <<"saved-searches">>})}]

Triggers == <<"watchlist", "triggers">>
Watchlist == [
    queries |-> {Query(<<"watchlist">>), Query(Triggers)},
    writes |-> {Write({"followStartup", "unfollowStartup", "updateWatchlist"}, {<<"watchlist">>}),
                Write({"createTrigger", "removeTrigger"}, {Triggers})}]

Features == {Auth, Connections, Documents, Startups, Investors, Mentors, Jobs, Community, Follows,
             Mandates, Notifications, Onboarding, Pipeline, PlanLimits, Portfolio, SavedSearches, Watchlist}
------------------------------------------------------------------------------
(* invalidateQueries matches keys by prefix, setQueryData the key itself. *)
Drops(write, query) == \E prefix \in write.drops : IsPrefix(prefix, query.key)

Pairs ==
    {p \in [query : UNION {f.queries : f \in Features}, write : UNION {f.writes : f \in Features}] :
        p.query.key \in p.write.sets \/ Drops(p.write, p.query)}

NoAnswer == -1    \* no answer is cached

CacheTypeOK ==
    /\ pair \in Pairs
    /\ open \in BOOLEAN /\ fresh \in BOOLEAN /\ failed \in BOOLEAN /\ overtaken \in BOOLEAN
    /\ writes \in 0..MaxWrites
    /\ shown \in NoAnswer..writes /\ brings \in 0..writes /\ acked \in 0..writes
    /\ fetch \in {"none", "asked", "answered"}
    /\ sent \in Nat /\ written \in Nat /\ sent + written <= MaxPresses

CacheInit ==
    /\ pair \in Pairs
    /\ open = FALSE /\ fresh = FALSE /\ failed = FALSE /\ overtaken = FALSE
    /\ writes = 0 /\ shown = NoAnswer /\ brings = 0 /\ acked = 0
    /\ fetch = "none" /\ sent = 0 /\ written = 0
------------------------------------------------------------------------------
(* A page with the query opens: it fetches unless the answer is fresh. *)
OpenPage ==
    /\ ~ open
    /\ open' = TRUE
    /\ fetch' = IF fetch = "none" /\ ~ fresh THEN "asked" ELSE fetch
    /\ UNCHANGED <<pair, writes, shown, fresh, brings, sent, written, acked, failed, overtaken>>

ClosePage ==
    /\ open
    /\ open' = FALSE
    /\ UNCHANGED <<pair, writes, shown, fresh, fetch, brings, sent, written, acked, failed, overtaken>>

(* gcTime after the last page closed. *)
Collect ==
    /\ ~ open /\ fetch = "none" /\ shown # NoAnswer
    /\ shown' = NoAnswer /\ fresh' = FALSE
    /\ UNCHANGED <<pair, writes, open, fetch, brings, sent, written, acked, failed, overtaken>>

GoStale ==
    /\ fresh
    /\ fresh' = FALSE
    /\ UNCHANGED <<pair, writes, open, shown, fetch, brings, sent, written, acked, failed, overtaken>>

(* The network came back, or the interval of a polling query passed. *)
Refetch ==
    /\ open /\ fetch = "none"
    /\ pair.query.polls \/ ~ fresh
    /\ fetch' = "asked"
    /\ UNCHANGED <<pair, writes, open, shown, fresh, brings, sent, written, acked, failed, overtaken>>

ServerReads ==
    /\ fetch = "asked"
    /\ fetch' = "answered" /\ brings' = writes
    /\ UNCHANGED <<pair, writes, open, shown, fresh, sent, written, acked, failed, overtaken>>

(* The answer replaces the data and clears the mark of the invalidation. *)
Land ==
    /\ fetch = "answered"
    /\ fetch' = "none"
    /\ shown' = brings
    /\ brings' = 0
    /\ fresh' = (pair.query.staleTime # 0)
    /\ failed' = FALSE
    /\ overtaken' = (overtaken /\ brings < acked)
    /\ UNCHANGED <<pair, writes, open, sent, written, acked>>

FetchFails ==
    /\ fetch # "none"
    /\ fetch' = "none" /\ brings' = 0
    /\ failed' = TRUE
    /\ UNCHANGED <<pair, writes, open, shown, fresh, sent, written, acked, overtaken>>

(* The buttons that set the user's own data wait for the answer. *)
Press ==
    /\ sent + written < MaxPresses
    /\ pair.write.sets # {} => sent + written = 0
    /\ sent' = sent + 1
    /\ UNCHANGED <<pair, writes, open, shown, fresh, fetch, brings, written, acked, failed, overtaken>>

ServerWrites ==
    /\ sent > 0 /\ writes < MaxWrites
    /\ writes' = writes + 1 /\ sent' = sent - 1 /\ written' = written + 1
    /\ UNCHANGED <<pair, open, shown, fresh, fetch, brings, acked, failed, overtaken>>

(* Refused, or the answer is lost: onSuccess does not run. *)
PressFails ==
    /\ \/ sent > 0 /\ sent' = sent - 1 /\ UNCHANGED written
       \/ written > 0 /\ written' = written - 1 /\ UNCHANGED sent
    /\ UNCHANGED <<pair, writes, open, shown, fresh, fetch, brings, acked, failed, overtaken>>

(* Variant carrying a bug: a fetch under way counts as the new one. *)
KeepsFetch ==
    /\ fresh' = FALSE
    /\ fetch' = IF open /\ fetch = "none" THEN "asked" ELSE fetch
    /\ UNCHANGED <<shown, brings, overtaken>>

(* invalidateQueries: the query is marked, and fetched again when a page uses
   it.  A fetch under way is given up for that only when there is data: a first
   load goes on, and so does one that no page waits for; what they bring passes
   for fresh. *)
Invalidate ==
    LET again == open /\ (fetch = "none" \/ shown # NoAnswer)
    IN  /\ fresh' = FALSE
        /\ fetch' = IF again THEN "asked" ELSE fetch
        /\ brings' = IF again THEN 0 ELSE brings
        /\ overtaken' = (fetch # "none" /\ ~ again)
        /\ UNCHANGED shown

(* setQueryData, with the answer to the mutation, does not stop a fetch under
   way either. *)
SetData ==
    /\ shown' = writes
    /\ fresh' = TRUE
    /\ overtaken' = (fetch # "none")
    /\ UNCHANGED <<fetch, brings>>

Succeed ==
    /\ written > 0
    /\ written' = written - 1 /\ acked' = writes
    /\ \/ pair.query.key \in pair.write.sets /\ SetData
       \/ Drops(pair.write, pair.query) /\ Invalidate
    /\ UNCHANGED <<pair, writes, open, sent, failed>>

CacheNext ==
    \/ OpenPage \/ ClosePage \/ Collect \/ GoStale \/ Refetch
    \/ ServerReads \/ Land \/ FetchFails
    \/ Press \/ ServerWrites \/ PressFails \/ Succeed

CacheSpec == CacheInit /\ [][CacheNext]_cacheVars
------------------------------------------------------------------------------
(***************************************************************************)
(* What a mutation refreshes is refreshed: a page whose query onSuccess    *)
(* names, and that is not loading, shows what was written up to the last   *)
(* of the mutations that succeeded, whatever was in flight, mounted,       *)
(* cached or invalidated when it did, and however often the user repeats   *)
(* it.  The exceptions are a fetch that failed and an answer that          *)
(* invalidation cannot stop (overtaken).  Whether onSuccess names every    *)
(* page that shows what the mutation wrote is another question.            *)
(***************************************************************************)
RefreshTakesHold ==
    open /\ fetch = "none" /\ ~ failed /\ ~ overtaken => shown >= acked
==============================================================================

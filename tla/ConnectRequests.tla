--------------------------- MODULE ConnectRequests ---------------------------
(***************************************************************************)
(* ConnectionsService.create and what it depends on: the monthly quota     *)
(* (PlanLimitsService, Subscription.plan), the unique index on Connection  *)
(* and the connection.requested notification.                              *)
(*                                                                         *)
(* Every `await` of the handler is a step of its own, so the requests of   *)
(* one founder's browser tabs interleave between the quota check and the   *)
(* insert, and the calendar month may turn in between.                     *)
(***************************************************************************)
EXTENDS Naturals, FiniteSets

CONSTANTS
    Founders,      \* users that own at most one startup each
    Users,         \* every possible recipient of a request
    Investors,     \* the recipients whose role is INVESTOR
    Tabs,          \* the requests one founder can have in flight at once
    FinitePlans,   \* plans whose default limit is a number (FREE)
    OtherPlans,    \* plans whose default is unlimited
    DefaultLimit,  \* DEFAULT_MONTHLY_CONNECT_REQUEST_LIMIT.FREE
    Limits,        \* numbers an administrator may set as a limit
    MaxMonth,      \* bound: calendar months explored after the first
    Unlimited, NoRow, Nobody

ASSUME CRAssumption ==
    /\ Investors \subseteq Users
    /\ IsFiniteSet(Users)
    /\ IsFiniteSet(Tabs)
    /\ DefaultLimit \in Nat
    /\ Limits \subseteq Nat
    /\ MaxMonth \in Nat
    /\ Unlimited \notin Nat
    /\ NoRow \notin Nat
    /\ NoRow # Unlimited
    /\ Nobody \notin Users

VARIABLES
    month,       \* the calendar month of now()
    startups,    \* founders whose startup is published
    plan,        \* Subscription.plan of each founder
    planLimit,   \* the PlanLimit row of each plan, or NoRow
    sentIn,      \* sentIn[f][i]: month of createdAt of the Connection row, or NoRow
    req,         \* req[f][t]: the request running in tab t of founder f
    events,      \* events[f][i]: connection.requested events not yet handled
    inbox,       \* inbox[f][i]: CONNECTION_REQUEST notifications stored for i
    seen         \* history: limits the founder's checks let a request pass under

dbVars == <<startups, plan, planLimit>>
vars == <<month, startups, plan, planLimit, sentIn, req, events, inbox, seen>>

Plans == FinitePlans \union OtherPlans
Limit == Nat \union {Unlimited}

(* The steps of create(), each named for the await it is about to run. *)
Step == {"idle", "limit", "count", "insert", "announce"}
Reply == {"none", "201", "400", "403", "409", "500"}

Request == [step : Step, to : Users \union {Nobody}, plan : Plans,
            limit : Limit, reply : Reply]

TypeOK ==
    /\ month \in Nat
    /\ startups \subseteq Founders
    /\ plan \in [Founders -> Plans]
    /\ planLimit \in [Plans -> Limit \union {NoRow}]
    /\ sentIn \in [Founders -> [Users -> Nat \union {NoRow}]]
    /\ req \in [Founders -> [Tabs -> Request]]
    /\ events \in [Founders -> [Users -> Nat]]
    /\ inbox \in [Founders -> [Users -> Nat]]
    /\ seen \in [Founders -> SUBSET Limit]

Fresh(step, to, p) ==
    [step |-> step, to |-> to, plan |-> p, limit |-> Unlimited, reply |-> "none"]

Init ==
    /\ month = 0
    /\ startups \in SUBSET Founders
    /\ plan \in [Founders -> Plans]
    /\ planLimit = [p \in Plans |-> NoRow]
    /\ sentIn = [f \in Founders |-> [i \in Users |-> NoRow]]
    /\ req = [f \in Founders |-> [t \in Tabs |-> Fresh("idle", Nobody, plan[f])]]
    /\ events = [f \in Founders |-> [i \in Users |-> 0]]
    /\ inbox = [f \in Founders |-> [i \in Users |-> 0]]
    /\ seen = [f \in Founders |-> {}]

------------------------------------------------------------------------------
(* PlanLimitsService.getMonthlyConnectRequestLimit *)
MonthlyLimit(p) ==
    IF planLimit[p] # NoRow THEN planLimit[p]
    ELSE IF p \in FinitePlans THEN DefaultLimit ELSE Unlimited

(* The rows prisma.connection.count finds: sent by f since the month began. *)
SentThisMonth(f) == {i \in Users : sentIn[f][i] = month}
Used(f) == Cardinality(SentThisMonth(f))

(* Variant carrying a bug: a founder at the limit may send one more. *)
OverAllowsEqual(used, limit) == limit # Unlimited /\ used > limit

Over(used, limit) == limit # Unlimited /\ used >= limit

Become(f, t, r) == req' = [req EXCEPT ![f][t] = r]

(* The request ends with this status code; all but 201 are rejections. *)
Done(p, code) ==
    [step |-> "idle", to |-> Nobody, plan |-> p, limit |-> Unlimited, reply |-> code]

Answered(f, t, code) == Become(f, t, Done(req[f][t].plan, code))

(***************************************************************************)
(* create(): the startup and recipient lookups.  Neither a published       *)
(* startup nor a user's role is ever taken back, so the two reads and the  *)
(* subscription read that follows are one step.                            *)
(***************************************************************************)
Start(f, t, i) ==
    /\ req[f][t].step = "idle"
    /\ IF f \in startups /\ i \in Investors
       THEN Become(f, t, Fresh("limit", i, plan[f]))
       ELSE Answered(f, t, "400")
    /\ UNCHANGED <<month, dbVars, sentIn, events, inbox, seen>>

(* assertUnderMonthlyQuota: the limit of the plan read before; an unlimited
   plan returns without counting. *)
ReadLimit(f, t) ==
    /\ req[f][t].step = "limit"
    /\ LET l == MonthlyLimit(req[f][t].plan) IN
       /\ Become(f, t, [req[f][t] EXCEPT !.limit = l,
                           !.step = IF l = Unlimited THEN "insert" ELSE "count"])
       /\ seen' = [seen EXCEPT ![f] = IF l = Unlimited THEN @ \union {l} ELSE @]
    /\ UNCHANGED <<month, dbVars, sentIn, events, inbox>>

(* assertUnderMonthlyQuota: count this month's rows and compare. *)
CheckQuota(f, t) ==
    /\ req[f][t].step = "count"
    /\ IF Over(Used(f), req[f][t].limit)
       THEN Answered(f, t, "403") /\ UNCHANGED seen
       ELSE /\ Become(f, t, [req[f][t] EXCEPT !.step = "insert"])
            /\ seen' = [seen EXCEPT ![f] = @ \union {req[f][t].limit}]
    /\ UNCHANGED <<month, dbVars, sentIn, events, inbox>>

(* Variant carrying a bug: an index that also spans the month. *)
UniqueWithinMonth(f, i) == sentIn[f][i] = month

(* @@unique([requesterId, recipientId, startupId]); the startup is a function
   of the requester. *)
UniqueViolation(f, i) == sentIn[f][i] # NoRow

(* prisma.connection.create succeeds: createdAt is now(). *)
Insert(f, t) ==
    /\ req[f][t].step = "insert"
    /\ ~ UniqueViolation(f, req[f][t].to)
    /\ sentIn' = [sentIn EXCEPT ![f][req[f][t].to] = month]
    /\ Become(f, t, [req[f][t] EXCEPT !.step = "announce"])
    /\ UNCHANGED <<month, dbVars, events, inbox, seen>>

(* The unique index rejects the row; catch {} answers 409. *)
InsertDuplicate(f, t) ==
    /\ req[f][t].step = "insert"
    /\ UniqueViolation(f, req[f][t].to)
    /\ Answered(f, t, "409")
    /\ UNCHANGED <<month, dbVars, sentIn, events, inbox, seen>>

(* A failing await.  Inside the try block, the insert or the read that follows
   it, the failure ends in the same catch {} and the same 409. *)
DatabaseError(f, t) ==
    /\ req[f][t].step # "idle"
    /\ Answered(f, t, IF req[f][t].step \in {"insert", "announce"} THEN "409" ELSE "500")
    /\ UNCHANGED <<month, dbVars, sentIn, events, inbox, seen>>

(* findUniqueOrThrow(requester), emit("connection.requested"), return. *)
Announce(f, t) ==
    /\ req[f][t].step = "announce"
    /\ events' = [events EXCEPT ![f][req[f][t].to] = @ + 1]
    /\ Answered(f, t, "201")
    /\ UNCHANGED <<month, dbVars, sentIn, inbox, seen>>

(* NotificationsService.handleConnectionRequested stores the notification; a
   failed write is swallowed by the event emitter and never retried. *)
Notify(f, i) ==
    /\ events[f][i] > 0
    /\ events' = [events EXCEPT ![f][i] = @ - 1]
    /\ \/ inbox' = [inbox EXCEPT ![f][i] = @ + 1]
       \/ UNCHANGED inbox
    /\ UNCHANGED <<month, dbVars, sentIn, req, seen>>

------------------------------------------------------------------------------
(* PlanLimitsService.upsert; nothing reads the audit row it also writes. *)
SetLimit(p, l) ==
    /\ planLimit' = [planLimit EXCEPT ![p] = l]
    /\ UNCHANGED <<month, startups, plan, sentIn, req, events, inbox, seen>>

(* A Stripe webhook or an administrator changes Subscription.plan. *)
ChangePlan(f, p) ==
    /\ plan' = [plan EXCEPT ![f] = p]
    /\ UNCHANGED <<month, startups, planLimit, sentIn, req, events, inbox, seen>>

(* Onboarding publishes the founder's startup. *)
PublishStartup(f) ==
    /\ startups' = startups \union {f}
    /\ UNCHANGED <<month, plan, planLimit, sentIn, req, events, inbox, seen>>

(* Requests that passed their check keep the limit they passed under. *)
Passed(f) == {t \in Tabs : req[f][t].step = "insert"}

(* The calendar month turns; the history starts afresh with what is in flight. *)
NextMonth ==
    /\ month < MaxMonth
    /\ month' = month + 1
    /\ seen' = [f \in Founders |-> {req[f][t].limit : t \in Passed(f)}]
    /\ UNCHANGED <<dbVars, sentIn, req, events, inbox>>

Handler(f, t) ==
    \/ \E i \in Users : Start(f, t, i)
    \/ ReadLimit(f, t)
    \/ CheckQuota(f, t)
    \/ Insert(f, t)
    \/ InsertDuplicate(f, t)
    \/ DatabaseError(f, t)
    \/ Announce(f, t)

Next ==
    \/ \E f \in Founders, t \in Tabs : Handler(f, t)
    \/ \E f \in Founders, i \in Users : Notify(f, i)
    \/ \E p \in Plans, l \in Limits \union {Unlimited} : SetLimit(p, l)
    \/ \E f \in Founders, p \in Plans : ChangePlan(f, p)
    \/ \E f \in Founders : PublishStartup(f)
    \/ NextMonth

Spec == Init /\ [][Next]_vars
------------------------------------------------------------------------------
(* The plan limits the month's requests of f really passed under. *)
Within(f, excess) ==
    \/ Used(f) = 0
    \/ \E l \in seen[f] : l = Unlimited \/ Used(f) <= l + excess

(***************************************************************************)
(* The quota check and the insert are separate statements, so requests     *)
(* from different tabs may all count the same rows.  However they          *)
(* interleave, and whatever the administrator does to limits and plans     *)
(* meanwhile, the rows of a month exceed a limit they passed under by at   *)
(* most the number of the founder's other concurrent requests.             *)
(***************************************************************************)
QuotaOvershootBounded == \A f \in Founders : Within(f, Cardinality(Tabs) - 1)

Announcing(f, i) == {t \in Tabs : req[f][t].step = "announce" /\ req[f][t].to = i}

(***************************************************************************)
(* An investor hears of a founder at most once, and only of a request that *)
(* is stored, however many tabs send it and whichever of them fails: the   *)
(* unique index lets one insert through, and only that request announces.  *)
(***************************************************************************)
NotifiedAtMostOnce ==
    \A f \in Founders, i \in Users :
        /\ events[f][i] + inbox[f][i] + Cardinality(Announcing(f, i)) <= 1
        /\ events[f][i] + inbox[f][i] > 0 => sentIn[f][i] # NoRow
==============================================================================

----------------------------- MODULE FilingsProofs ----------------------------
(***************************************************************************)
(* TLAPS proofs about ConnectRequests, RelationshipClaims and the module   *)
(* that checks them together: type correctness, the bound on the quota     *)
(* overshoot, that an investor is notified at most once; two-sided trust   *)
(* and that an answered claim stays so.                                    *)
(***************************************************************************)
EXTENDS MCFilings, FiniteSetTheorems, TLAPS

(***************************************************************************)
(* Part 1: connect requests.                                               *)
(***************************************************************************)

K == Cardinality(Tabs)

(* A request that is running has a recipient, and no row is from the future. *)
RowInv ==
    /\ \A f \in Founders, t \in Tabs : req[f][t].step # "idle" => req[f][t].to \in Users
    /\ \A f \in Founders, i \in Users : sentIn[f][i] = NoRow \/ sentIn[f][i] <= month

(* Rows of the month and requests past their check, together, stay within a
   limit some request of the month passed under, plus the other tabs. *)
QuotaInv(f) ==
    /\ 0 \notin seen[f]
    /\ \A t \in Tabs : req[f][t].step = "insert" => req[f][t].limit \in seen[f]
    /\ \/ Unlimited \in seen[f]
       \/ \E l \in seen[f] \ {Unlimited} : Used(f) + Cardinality(Passed(f)) <= l + K - 1
       \/ Used(f) = 0 /\ Passed(f) = {}

IInv == TypeOK /\ RowInv /\ \A f \in Founders : QuotaInv(f)

(* One stored row explains every announcement about it. *)
NoticePair(f, i) ==
    /\ events[f][i] + inbox[f][i] + Cardinality(Announcing(f, i)) <= 1
    /\ sentIn[f][i] = NoRow =>
          events[f][i] + inbox[f][i] = 0 /\ Announcing(f, i) = {}

NoticeInv == \A f \in Founders, i \in Users : NoticePair(f, i)

------------------------------------------------------------------------------
(* A request replaced by a well-formed one leaves req well formed, and the
   other requests alone. *)
LEMMA BecomeTyped ==
  ASSUME TypeOK, NEW f \in Founders, NEW t \in Tabs, NEW r \in Request, Become(f, t, r)
  PROVE  /\ req' \in [Founders -> [Tabs -> Request]]
         /\ req'[f][t] = r
         /\ \A g \in Founders, u \in Tabs : <<g, u>> # <<f, t>> => req'[g][u] = req[g][u]
BY DEF TypeOK, Become

(* What the handlers make of a request is again a request. *)
LEMMA RequestForms ==
  ASSUME NEW r \in Request, NEW s \in Step, NEW c \in Reply, NEW l \in Limit,
         NEW p \in Plans, NEW i \in Users \union {Nobody}
  PROVE  /\ [r EXCEPT !.step = s] \in Request
         /\ Done(p, c) \in Request
         /\ [r EXCEPT !.limit = l, !.step = s] \in Request
         /\ Fresh(s, i, p) \in Request
<1>1. [r EXCEPT !.step = s] \in Request
  BY DEF Request
<1>2. Done(p, c) \in Request
  BY DEF Request, Done, Step, Limit
<1>3. [r EXCEPT !.limit = l, !.step = s] \in Request
  BY DEF Request
<1>4. Fresh(s, i, p) \in Request
  BY DEF Request, Fresh, Limit, Reply
<1>5. QED BY <1>1, <1>2, <1>3, <1>4

(* A step of a handler replaces its own request by a well-formed one. *)
LEMMA HandlerShape ==
  ASSUME TypeOK, NEW f \in Founders, NEW t \in Tabs, Handler(f, t)
  PROVE  \E r \in Request : Become(f, t, r)
<1> DEFINE q == req[f][t]
<1>1. q \in Request /\ plan[f] \in Plans
  BY DEF TypeOK
<1>2. q.plan \in Plans /\ q.limit \in Limit
  BY <1>1 DEF Request
<1>3. ASSUME NEW c \in Reply, Answered(f, t, c)
      PROVE  \E r \in Request : Become(f, t, r)
  BY <1>1, <1>2, <1>3, RequestForms DEF Answered, Step
<1>4. ASSUME NEW s \in Step, Become(f, t, [q EXCEPT !.step = s])
      PROVE  \E r \in Request : Become(f, t, r)
  <2>1. [q EXCEPT !.step = s] \in Request
    BY <1>1 DEF Request
  <2>2. QED BY <1>4, <2>1
<1>5. ASSUME NEW i \in Users, Start(f, t, i)
      PROVE  \E r \in Request : Become(f, t, r)
  <2>1. Fresh("limit", i, plan[f]) \in Request
    BY <1>1 DEF Request, Fresh, Step, Limit, Reply
  <2>2. QED BY <1>3, <1>5, <2>1 DEF Start, Reply
<1>6. CASE ReadLimit(f, t)
  <2> DEFINE l == MonthlyLimit(q.plan)
             s == IF l = Unlimited THEN "insert" ELSE "count"
  <2>1. l \in Limit /\ s \in Step
    BY <1>2, CRAssumption DEF MonthlyLimit, TypeOK, Limit, Step
  <2>2. [q EXCEPT !.limit = l, !.step = s] \in Request
    BY <1>1, <2>1 DEF Request
  <2>3. Become(f, t, [q EXCEPT !.limit = l, !.step = s])
    BY <1>6 DEF ReadLimit
  <2>4. QED BY <2>2, <2>3
<1>7. CASE CheckQuota(f, t)
  BY <1>3, <1>4, <1>7 DEF CheckQuota, Reply, Step
<1>8. CASE Insert(f, t)
  BY <1>4, <1>8 DEF Insert, Step
<1>9. CASE InsertDuplicate(f, t) \/ DatabaseError(f, t) \/ Announce(f, t)
  BY <1>3, <1>9 DEF InsertDuplicate, DatabaseError, Announce, Reply
<1>10. QED BY <1>5, <1>6, <1>7, <1>8, <1>9 DEF Handler

(* A request that is answered is idle again. *)
LEMMA AnsweredIdle ==
  ASSUME TypeOK, NEW f \in Founders, NEW t \in Tabs, NEW c \in Reply, Answered(f, t, c)
  PROVE  req'[f][t].step = "idle"
BY DEF Answered, Become, Done, TypeOK

(* So is one that start, the unique index, an error or the end of the handler
   answers; an accepted start is at its quota step. *)
LEMMA HandlerAnswers ==
  ASSUME TypeOK, NEW f \in Founders, NEW t \in Tabs
  PROVE  /\ \A i \in Users : Start(f, t, i) =>
              \/ req'[f][t].step = "idle"
              \/ req'[f][t].step = "limit" /\ req'[f][t].to = i
         /\ CheckQuota(f, t) =>
              \/ req'[f][t].step = "idle"
              \/ req'[f][t].step = "insert" /\ req'[f][t].to = req[f][t].to
         /\ InsertDuplicate(f, t) \/ DatabaseError(f, t) \/ Announce(f, t)
              => req'[f][t].step = "idle"
<1>1. ASSUME NEW i \in Users, Start(f, t, i)
      PROVE  \/ req'[f][t].step = "idle"
             \/ req'[f][t].step = "limit" /\ req'[f][t].to = i
  <2>1. CASE Answered(f, t, "400")
    BY <2>1, AnsweredIdle DEF Reply
  <2>2. CASE Become(f, t, Fresh("limit", i, plan[f]))
    BY <2>2 DEF Become, Fresh, TypeOK
  <2>3. QED BY <1>1, <2>1, <2>2 DEF Start
<1>2. ASSUME CheckQuota(f, t)
      PROVE  \/ req'[f][t].step = "idle"
             \/ req'[f][t].step = "insert" /\ req'[f][t].to = req[f][t].to
  <2>1. CASE Answered(f, t, "403")
    BY <2>1, AnsweredIdle DEF Reply
  <2>2. CASE Become(f, t, [req[f][t] EXCEPT !.step = "insert"])
    BY <2>2 DEF Become, TypeOK, Request
  <2>3. QED BY <1>2, <2>1, <2>2 DEF CheckQuota
<1>3. ASSUME InsertDuplicate(f, t) \/ DatabaseError(f, t) \/ Announce(f, t)
      PROVE  req'[f][t].step = "idle"
  <2>1. PICK c \in Reply : Answered(f, t, c)
    <3>1. "409" \in Reply /\ "500" \in Reply /\ "201" \in Reply
      BY DEF Reply
    <3>2. CASE InsertDuplicate(f, t)
      BY <3>1, <3>2 DEF InsertDuplicate
    <3>3. CASE DatabaseError(f, t)
      <4> DEFINE c == IF req[f][t].step \in {"insert", "announce"} THEN "409" ELSE "500"
      <4>1. c \in Reply
        BY <3>1
      <4>2. Answered(f, t, c)
        BY <3>3 DEF DatabaseError
      <4>3. QED BY <4>1, <4>2
    <3>4. CASE Announce(f, t)
      BY <3>1, <3>4 DEF Announce
    <3>5. QED BY <1>3, <3>2, <3>3, <3>4
  <2>2. QED BY <2>1, AnsweredIdle
<1>4. QED BY <1>1, <1>2, <1>3

(* Every handler step, event and administrator action keeps the database and
   the requests well formed. *)
LEMMA TypeStep == TypeOK /\ [Next]_vars => TypeOK'
<1> SUFFICES ASSUME TypeOK, [Next]_vars PROVE TypeOK'
  OBVIOUS
<1>1. ASSUME NEW f \in Founders, NEW t \in Tabs, Handler(f, t)
      PROVE TypeOK'
  <2>1. req' \in [Founders -> [Tabs -> Request]]
    BY <1>1, HandlerShape, BecomeTyped
  <2>2. req[f][t] \in Request /\ req[f][t].limit \in Limit /\ req[f][t].to \in Users \union {Nobody}
    BY DEF TypeOK, Request
  <2>3. CASE \E i \in Users : Start(f, t, i)
    BY <2>1, <2>3 DEF Start, TypeOK, dbVars
  <2>4. CASE ReadLimit(f, t)
    BY <2>1, <2>4 DEF ReadLimit, TypeOK, dbVars, Limit
  <2>5. CASE CheckQuota(f, t)
    <3>1. seen' = seen \/ seen' = [seen EXCEPT ![f] = @ \union {req[f][t].limit}]
      BY <2>5 DEF CheckQuota
    <3>2. seen' \in [Founders -> SUBSET Limit]
      <4>1. seen[f] \union {req[f][t].limit} \in SUBSET Limit
        BY <2>2 DEF TypeOK
      <4>2. QED BY <3>1, <4>1 DEF TypeOK
    <3>3. QED BY <2>1, <2>5, <3>2 DEF CheckQuota, TypeOK, dbVars
  <2>6. CASE Insert(f, t)
    BY <2>1, <2>6 DEF Insert, TypeOK, dbVars
  <2>7. CASE InsertDuplicate(f, t) \/ DatabaseError(f, t)
    BY <2>1, <2>7 DEF InsertDuplicate, DatabaseError, TypeOK, dbVars
  <2>8. CASE Announce(f, t)
    <3> DEFINE i == req[f][t].to
    <3>1. \A j \in Users : events[f][j] + 1 \in Nat
      BY DEF TypeOK
    <3>2. [events[f] EXCEPT ![i] = @ + 1] \in [Users -> Nat]
      BY <3>1 DEF TypeOK
    <3>3. events' \in [Founders -> [Users -> Nat]]
      BY <2>8, <3>2 DEF Announce, TypeOK
    <3>4. QED BY <2>1, <2>8, <3>3 DEF Announce, TypeOK, dbVars
  <2>9. QED BY <1>1, <2>3, <2>4, <2>5, <2>6, <2>7, <2>8 DEF Handler
<1>2. ASSUME NEW f \in Founders, NEW i \in Users, Notify(f, i)
      PROVE TypeOK'
  <2>1. events[f][i] - 1 \in Nat /\ inbox[f][i] + 1 \in Nat
    BY <1>2 DEF Notify, TypeOK
  <2>2. events' \in [Founders -> [Users -> Nat]]
    BY <1>2, <2>1 DEF Notify, TypeOK
  <2>3. inbox' \in [Founders -> [Users -> Nat]]
    <3>1. [inbox[f] EXCEPT ![i] = @ + 1] \in [Users -> Nat]
      BY <2>1 DEF TypeOK
    <3>2. inbox' = [inbox EXCEPT ![f][i] = @ + 1] \/ inbox' = inbox
      BY <1>2 DEF Notify
    <3>3. QED BY <3>1, <3>2 DEF TypeOK
  <2>4. QED BY <1>2, <2>2, <2>3 DEF Notify, TypeOK, dbVars
<1>3. ASSUME NEW p \in Plans, NEW l \in Limits \union {Unlimited}, SetLimit(p, l)
      PROVE TypeOK'
  <2>1. l \in Limit \union {NoRow}
    BY <1>3, CRAssumption DEF Limit
  <2>2. planLimit' \in [Plans -> Limit \union {NoRow}]
    BY <1>3, <2>1 DEF SetLimit, TypeOK
  <2>3. QED BY <1>3, <2>2 DEF SetLimit, TypeOK
<1>4. ASSUME NEW f \in Founders, NEW p \in Plans, ChangePlan(f, p)
      PROVE TypeOK'
  BY <1>4 DEF ChangePlan, TypeOK
<1>5. ASSUME NEW f \in Founders, PublishStartup(f)
      PROVE TypeOK'
  BY <1>5 DEF PublishStartup, TypeOK
<1>6. CASE NextMonth
  <2>1. \A f \in Founders, t \in Tabs : req[f][t].limit \in Limit
    BY DEF TypeOK, Request
  <2>2. seen' \in [Founders -> SUBSET Limit]
    BY <1>6, <2>1 DEF NextMonth, Passed
  <2>3. QED BY <1>6, <2>2 DEF NextMonth, TypeOK, dbVars
<1>7. CASE UNCHANGED vars
  BY <1>7 DEF vars, TypeOK
<1>8. QED
  BY <1>1, <1>2, <1>3, <1>4, <1>5, <1>6, <1>7 DEF Next

(* The type invariant of ConnectRequests. *)
THEOREM TypeCorrect == Spec => []TypeOK
<1>1. Init => TypeOK
  BY CRAssumption DEF Init, TypeOK, Request, Fresh, Step, Limit, Reply
<1>2. QED
  BY <1>1, TypeStep, PTL DEF Spec

------------------------------------------------------------------------------
(* Rows of the month and requests past their check are finitely many. *)
LEMMA FiniteCounts ==
  ASSUME NEW f \in Founders
  PROVE  /\ IsFiniteSet(SentThisMonth(f)) /\ Used(f) \in Nat
         /\ IsFiniteSet(Passed(f)) /\ Cardinality(Passed(f)) \in Nat
         /\ K \in Nat /\ Cardinality(Passed(f)) <= K
<1>1. SentThisMonth(f) \in SUBSET Users /\ Passed(f) \in SUBSET Tabs
  BY DEF SentThisMonth, Passed
<1>2. QED
  BY <1>1, CRAssumption, FS_Subset, FS_CardinalityType DEF Used, K

(* The same of the next state. *)
LEMMA FiniteCountsNext ==
  ASSUME NEW f \in Founders
  PROVE  /\ IsFiniteSet(SentThisMonth(f)') /\ Used(f)' \in Nat
         /\ IsFiniteSet(Passed(f)') /\ Cardinality(Passed(f)') \in Nat
         /\ Cardinality(Passed(f)') <= K
<1>1. SentThisMonth(f)' \in SUBSET Users /\ Passed(f)' \in SUBSET Tabs
  BY DEF SentThisMonth, Passed
<1>2. QED
  BY <1>1, CRAssumption, FS_Subset, FS_CardinalityType DEF Used, K

(* The quota invariant survives a step that adds no row of f and lets no
   further request of f past its check. *)
LEMMA QuotaStable ==
  ASSUME NEW f \in Founders, QuotaInv(f), TypeOK,
         Used(f)' = Used(f), seen'[f] = seen[f],
         \A t \in Tabs : req'[f][t].step = "insert" =>
            req[f][t].step = "insert" /\ req'[f][t].limit = req[f][t].limit
  PROVE  QuotaInv(f)'
<1>1. Passed(f)' \in SUBSET Passed(f)
  BY DEF Passed
<1>2. Cardinality(Passed(f)') <= Cardinality(Passed(f))
  BY <1>1, FiniteCounts, FS_Subset
<1>3. seen[f] \ {Unlimited} \subseteq Nat
  BY DEF TypeOK, Limit
<1>4. ASSUME NEW l \in seen[f] \ {Unlimited},
             Used(f) + Cardinality(Passed(f)) <= l + K - 1
      PROVE  Used(f) + Cardinality(Passed(f)') <= l + K - 1
  BY <1>2, <1>3, <1>4, FiniteCounts, FiniteCountsNext
<1>5. QED
  BY <1>1, <1>4 DEF QuotaInv

(* A request that passes the quota check. *)
LEMMA QuotaCheck ==
  ASSUME NEW f \in Founders, NEW t \in Tabs, IInv, CheckQuota(f, t)
  PROVE  QuotaInv(f)'
<1> DEFINE q == req[f][t]
<1> USE DEF IInv
<1>1. q \in Request /\ seen[f] \subseteq Limit
  BY DEF TypeOK
<1>2. Used(f)' = Used(f)
  BY DEF CheckQuota, Used, SentThisMonth
<1>3. CASE Over(Used(f), q.limit)
  <2>1. Become(f, t, Done(q.plan, "403")) /\ seen' = seen
    BY <1>3 DEF CheckQuota, Answered
  <2>2. \A u \in Tabs : req'[f][u].step = "insert" =>
            req[f][u].step = "insert" /\ req'[f][u].limit = req[f][u].limit
    BY <1>1, <2>1 DEF Become, Done, TypeOK, Request
  <2>3. QED BY <1>2, <2>1, <2>2, QuotaStable
<1>4. CASE ~ Over(Used(f), q.limit)
  <2>1. Become(f, t, [q EXCEPT !.step = "insert"])
        /\ seen' = [seen EXCEPT ![f] = @ \union {q.limit}]
    BY <1>4 DEF CheckQuota
  <2>2. seen'[f] = seen[f] \union {q.limit} /\ q.limit \in Limit
    BY <1>1, <2>1 DEF TypeOK, Request
  <2>3. \A u \in Tabs : req'[f][u].step = "insert" => req'[f][u].limit \in seen'[f]
    BY <1>1, <2>1, <2>2 DEF Become, TypeOK, Request, QuotaInv
  <2>4. q.limit = Unlimited \/ (q.limit \in Nat /\ Used(f) < q.limit)
    BY <1>4, <2>2, FiniteCounts DEF Over, Limit
  <2>5. 0 \notin seen'[f]
    BY <2>2, <2>4, FiniteCounts, CRAssumption DEF QuotaInv
  <2>6. CASE q.limit = Unlimited
    BY <2>2, <2>3, <2>5, <2>6 DEF QuotaInv
  <2>7. CASE q.limit # Unlimited
    <3>1. Used(f)' + Cardinality(Passed(f)') <= q.limit + K - 1
      BY <1>2, <2>4, <2>7, FiniteCounts, FiniteCountsNext
    <3>2. q.limit \in seen'[f] \ {Unlimited}
      BY <2>2, <2>7
    <3>3. QED BY <2>3, <2>5, <3>1, <3>2 DEF QuotaInv
  <2>8. QED BY <2>6, <2>7
<1>5. QED BY <1>3, <1>4

(* A request past its check stores its row. *)
LEMMA QuotaInsert ==
  ASSUME NEW f \in Founders, NEW t \in Tabs, IInv, Insert(f, t)
  PROVE  QuotaInv(f)'
<1> DEFINE q == req[f][t]
<1> USE DEF IInv
<1>1. q \in Request /\ q.to \in Users /\ seen[f] \subseteq Limit /\ month \in Nat
  BY DEF Insert, RowInv, TypeOK
<1>2. Become(f, t, [q EXCEPT !.step = "announce"]) /\ seen' = seen /\ month' = month
  BY DEF Insert
<1>3. sentIn[f][q.to] = NoRow /\ sentIn' = [sentIn EXCEPT ![f][q.to] = month]
  BY DEF Insert, UniqueViolation
<1>4. SentThisMonth(f)' = SentThisMonth(f) \union {q.to} /\ q.to \notin SentThisMonth(f)
  BY <1>1, <1>2, <1>3, CRAssumption DEF SentThisMonth, TypeOK
<1>5. Used(f)' = Used(f) + 1
  BY <1>4, FiniteCounts, FS_AddElement DEF Used
<1>6. Passed(f)' = Passed(f) \ {t} /\ t \in Passed(f)
  BY <1>1, <1>2 DEF Insert, Passed, Become, TypeOK, Request
<1>7. Cardinality(Passed(f)') = Cardinality(Passed(f)) - 1
  BY <1>6, FiniteCounts, FS_RemoveElement
<1>8. \A u \in Tabs : req'[f][u].step = "insert" => req'[f][u].limit \in seen'[f]
  BY <1>1, <1>2 DEF Become, TypeOK, Request, QuotaInv
<1>9. Used(f)' + Cardinality(Passed(f)') = Used(f) + Cardinality(Passed(f))
  BY <1>5, <1>7, FiniteCounts
<1>10. QED
  BY <1>2, <1>6, <1>8, <1>9 DEF QuotaInv

(* The month turns: nothing is used yet, and what is in flight passed under a
   limit of at least one. *)
LEMMA QuotaNextMonth ==
  ASSUME NEW f \in Founders, IInv, NextMonth
  PROVE  QuotaInv(f)'
<1> USE DEF IInv
<1>1. SentThisMonth(f)' = {}
  <2>1. month \in Nat /\ month' = month + 1 /\ sentIn' = sentIn
    BY DEF NextMonth, TypeOK
  <2>2. \A i \in Users : sentIn[f][i] = NoRow \/ sentIn[f][i] <= month
    BY DEF RowInv
  <2>3. \A i \in Users : sentIn[f][i] \in Nat \union {NoRow}
    BY DEF TypeOK
  <2>4. \A i \in Users : sentIn'[f][i] # month'
    BY <2>1, <2>2, <2>3, CRAssumption
  <2>5. QED BY <2>4 DEF SentThisMonth
<1>2. Used(f)' = 0
  BY <1>1, FS_EmptySet DEF Used
<1>3. Passed(f)' = Passed(f) /\ req' = req
  BY DEF Passed, NextMonth
<1>4. seen'[f] = {req[f][t].limit : t \in Passed(f)}
  BY DEF NextMonth
<1>5. seen'[f] \subseteq seen[f] /\ 0 \notin seen'[f]
  BY <1>4 DEF QuotaInv, Passed
<1>6. \A t \in Tabs : req'[f][t].step = "insert" => req'[f][t].limit \in seen'[f]
  BY <1>3, <1>4 DEF Passed
<1>7. CASE Passed(f) = {}
  BY <1>2, <1>3, <1>5, <1>6, <1>7 DEF QuotaInv
<1>8. CASE Passed(f) # {}
  <2>1. PICK l \in seen'[f] : TRUE
    BY <1>4, <1>8
  <2>2. l = Unlimited \/ (l \in Nat /\ l >= 1)
    BY <1>5 DEF TypeOK, Limit
  <2>3. l # Unlimited => Used(f)' + Cardinality(Passed(f)') <= l + K - 1
    BY <1>2, <2>2, FiniteCounts, FiniteCountsNext
  <2>4. QED BY <1>5, <1>6, <2>1, <2>3 DEF QuotaInv
<1>9. QED BY <1>7, <1>8

(* Every step keeps recipients in place and rows out of the future. *)
LEMMA RowStep == TypeOK /\ RowInv /\ [Next]_vars => RowInv'
<1> SUFFICES ASSUME TypeOK, RowInv, [Next]_vars PROVE RowInv'
  OBVIOUS
<1>1. ASSUME NEW f \in Founders, NEW t \in Tabs, Handler(f, t)
      PROVE RowInv'
  <2> DEFINE q == req[f][t]
  <2>1. q \in Request /\ month \in Nat
    BY DEF TypeOK
  <2>2. month' = month
    BY <1>1 DEF Handler, Start, ReadLimit, CheckQuota, Insert, InsertDuplicate,
                DatabaseError, Announce
  <2>3. PICK r \in Request : Become(f, t, r)
    BY <1>1, HandlerShape
  <2>4. r.step # "idle" => r.to \in Users
    <3>1. req'[f][t] = r
      BY <2>3 DEF Become, TypeOK
    <3>2. CASE \E i \in Users : Start(f, t, i)
      BY <3>1, <3>2, HandlerAnswers
    <3>3. CASE ReadLimit(f, t)
      BY <2>1, <3>1, <3>3 DEF ReadLimit, Become, TypeOK, Request, RowInv
    <3>4. CASE CheckQuota(f, t)
      BY <3>1, <3>4, HandlerAnswers DEF CheckQuota, RowInv
    <3>5. CASE Insert(f, t)
      BY <2>1, <3>1, <3>5 DEF Insert, Become, TypeOK, Request, RowInv
    <3>6. CASE InsertDuplicate(f, t) \/ DatabaseError(f, t) \/ Announce(f, t)
      BY <3>1, <3>6, HandlerAnswers
    <3>7. QED BY <1>1, <3>2, <3>3, <3>4, <3>5, <3>6 DEF Handler
  <2>5. \A g \in Founders, u \in Tabs : req'[g][u].step # "idle" => req'[g][u].to \in Users
    BY <2>3, <2>4 DEF Become, TypeOK, RowInv
  <2>6. \A g \in Founders, i \in Users : sentIn'[g][i] = sentIn[g][i] \/ sentIn'[g][i] = month
    <3>1. sentIn' = sentIn \/ sentIn' = [sentIn EXCEPT ![f][q.to] = month]
      BY <1>1 DEF Handler, Start, ReadLimit, CheckQuota, Insert, InsertDuplicate,
                  DatabaseError, Announce
    <3>2. ASSUME NEW g \in Founders, NEW i \in Users
          PROVE sentIn'[g][i] = sentIn[g][i] \/ sentIn'[g][i] = month
      <4>1. sentIn'[g] = sentIn[g] \/ sentIn'[g] = [sentIn[g] EXCEPT ![q.to] = month]
        BY <3>1 DEF TypeOK
      <4>2. sentIn[g] \in [Users -> Nat \union {NoRow}]
        BY DEF TypeOK
      <4>3. QED BY <4>1, <4>2
    <3>3. QED BY <3>2
  <2>7. QED BY <2>1, <2>2, <2>5, <2>6 DEF RowInv
<1>2. ASSUME NEW f \in Founders, NEW i \in Users, Notify(f, i)
      PROVE RowInv'
  BY <1>2 DEF Notify, RowInv
<1>3. ASSUME NEW p \in Plans, NEW l \in Limits \union {Unlimited}, SetLimit(p, l)
      PROVE RowInv'
  BY <1>3 DEF SetLimit, RowInv
<1>4. ASSUME NEW f \in Founders, NEW p \in Plans, ChangePlan(f, p)
      PROVE RowInv'
  BY <1>4 DEF ChangePlan, RowInv
<1>5. ASSUME NEW f \in Founders, PublishStartup(f)
      PROVE RowInv'
  BY <1>5 DEF PublishStartup, RowInv
<1>6. CASE NextMonth
  BY <1>6, CRAssumption DEF NextMonth, RowInv, TypeOK
<1>7. CASE UNCHANGED vars
  BY <1>7 DEF vars, RowInv
<1>8. QED
  BY <1>1, <1>2, <1>3, <1>4, <1>5, <1>6, <1>7 DEF Next

(* A handler of f keeps the quota invariant of f. *)
LEMMA QuotaOwnStep ==
  ASSUME NEW f \in Founders, NEW t \in Tabs, IInv, Handler(f, t)
  PROVE  QuotaInv(f)'
<1> DEFINE q == req[f][t]
<1> USE DEF IInv
<1>1. q \in Request
  BY DEF TypeOK
<1>2. ASSUME NEW r \in Request, Become(f, t, r), Used(f)' = Used(f), seen'[f] = seen[f],
             r.step # "insert"
      PROVE  QuotaInv(f)'
  <2>1. \A u \in Tabs : req'[f][u].step = "insert" =>
            req[f][u].step = "insert" /\ req'[f][u].limit = req[f][u].limit
    BY <1>2 DEF Become, TypeOK
  <2>2. QED BY <1>2, <2>1, QuotaStable
<1>3. PICK r \in Request : Become(f, t, r)
  BY HandlerShape
<1>4. req'[f][t] = r
  BY <1>3 DEF Become, TypeOK
<1>5. CASE \E i \in Users : Start(f, t, i)
  <2>1. r.step # "insert"
    BY <1>4, <1>5, HandlerAnswers
  <2>2. Used(f)' = Used(f) /\ seen' = seen
    BY <1>5 DEF Start, Used, SentThisMonth
  <2>3. QED BY <1>2, <1>3, <2>1, <2>2
<1>6. CASE ReadLimit(f, t)
  <2> DEFINE l == MonthlyLimit(q.plan)
  <2>1. Used(f)' = Used(f)
    BY <1>6 DEF ReadLimit, Used, SentThisMonth
  <2>2. CASE l = Unlimited
    <3>1. seen'[f] = seen[f] \union {Unlimited} /\ r = [q EXCEPT !.limit = l, !.step = "insert"]
      BY <1>4, <1>6, <2>2 DEF ReadLimit, Become, TypeOK
    <3>2. \A u \in Tabs : req'[f][u].step = "insert" => req'[f][u].limit \in seen'[f]
      BY <1>1, <1>3, <2>2, <3>1 DEF Become, TypeOK, Request, QuotaInv
    <3>3. QED BY <3>1, <3>2, CRAssumption DEF QuotaInv
  <2>3. CASE l # Unlimited
    <3>1. seen' = [seen EXCEPT ![f] = seen[f]] /\ r = [q EXCEPT !.limit = l, !.step = "count"]
      BY <1>4, <1>6, <2>3 DEF ReadLimit, Become, TypeOK
    <3>2. seen'[f] = seen[f] /\ r.step # "insert"
      BY <1>1, <3>1 DEF TypeOK, Request
    <3>3. QED BY <1>2, <1>3, <2>1, <3>2
  <2>4. QED BY <2>2, <2>3
<1>7. CASE CheckQuota(f, t)
  BY <1>7, QuotaCheck
<1>8. CASE Insert(f, t)
  BY <1>8, QuotaInsert
<1>9. CASE InsertDuplicate(f, t) \/ DatabaseError(f, t) \/ Announce(f, t)
  <2>1. r.step # "insert"
    BY <1>4, <1>9, HandlerAnswers
  <2>2. Used(f)' = Used(f) /\ seen' = seen
    BY <1>9 DEF InsertDuplicate, DatabaseError, Announce, Used, SentThisMonth
  <2>3. QED BY <1>2, <1>3, <2>1, <2>2
<1>10. QED BY <1>5, <1>6, <1>7, <1>8, <1>9 DEF Handler

(* A step of another founder, or of nobody's handler, does not touch what the
   quota invariant of f is about. *)
LEMMA QuotaUntouched ==
  ASSUME NEW f \in Founders, IInv, req'[f] = req[f], sentIn'[f] = sentIn[f],
         month' = month, seen'[f] = seen[f]
  PROVE  QuotaInv(f)'
<1>1. Used(f)' = Used(f)
  BY DEF Used, SentThisMonth
<1>2. QED BY <1>1, QuotaStable DEF IInv

(* The quota invariant is inductive. *)
LEMMA QuotaStep == IInv /\ [Next]_vars => \A f \in Founders : QuotaInv(f)'
<1> SUFFICES ASSUME IInv, [Next]_vars, NEW g \in Founders PROVE QuotaInv(g)'
  OBVIOUS
<1>1. ASSUME NEW f \in Founders, NEW t \in Tabs, Handler(f, t)
      PROVE QuotaInv(g)'
  <2>1. CASE f = g
    BY <1>1, <2>1, QuotaOwnStep
  <2>2. CASE f # g
    <3>1. PICK r \in Request : Become(f, t, r)
      BY <1>1, HandlerShape DEF IInv
    <3>2. req'[g] = req[g]
      BY <2>2, <3>1 DEF Become, IInv, TypeOK
    <3>3. month' = month /\ sentIn'[g] = sentIn[g] /\ seen'[g] = seen[g]
      BY <1>1, <2>2 DEF Handler, Start, ReadLimit, CheckQuota, Insert, InsertDuplicate,
                        DatabaseError, Announce, IInv, TypeOK
    <3>4. QED BY <3>2, <3>3, QuotaUntouched
  <2>3. QED BY <2>1, <2>2
<1>2. ASSUME NEW f \in Founders, NEW i \in Users, Notify(f, i)
      PROVE QuotaInv(g)'
  BY <1>2, QuotaUntouched DEF Notify
<1>3. ASSUME NEW p \in Plans, NEW l \in Limits \union {Unlimited}, SetLimit(p, l)
      PROVE QuotaInv(g)'
  BY <1>3, QuotaUntouched DEF SetLimit
<1>4. ASSUME NEW f \in Founders, NEW p \in Plans, ChangePlan(f, p)
      PROVE QuotaInv(g)'
  BY <1>4, QuotaUntouched DEF ChangePlan
<1>5. ASSUME NEW f \in Founders, PublishStartup(f)
      PROVE QuotaInv(g)'
  BY <1>5, QuotaUntouched DEF PublishStartup
<1>6. CASE NextMonth
  BY <1>6, QuotaNextMonth
<1>7. CASE UNCHANGED vars
  BY <1>7, QuotaUntouched DEF vars
<1>8. QED
  BY <1>1, <1>2, <1>3, <1>4, <1>5, <1>6, <1>7 DEF Next

(* The strengthened invariant holds throughout. *)
THEOREM InductiveInvariant == Spec => []IInv
<1>1. Init => IInv
  <2> SUFFICES ASSUME Init PROVE IInv
    OBVIOUS
  <2>1. TypeOK
    BY CRAssumption DEF Init, TypeOK, Request, Fresh, Step, Limit, Reply
  <2>2. RowInv
    BY DEF Init, RowInv, Fresh
  <2>3. ASSUME NEW f \in Founders PROVE QuotaInv(f)
    <3>1. SentThisMonth(f) = {} /\ Passed(f) = {}
      BY CRAssumption DEF Init, SentThisMonth, Passed, Fresh
    <3>2. QED BY <3>1, FS_EmptySet DEF Init, QuotaInv, Used, Passed
  <2>4. QED BY <2>1, <2>2, <2>3 DEF IInv
<1>2. IInv /\ [Next]_vars => IInv'
  BY TypeStep, RowStep, QuotaStep DEF IInv
<1>3. QED
  BY <1>1, <1>2, PTL DEF Spec

(* For any number of founders, investors, tabs, limits and months: the rows of
   a month stay within the limit they passed under plus the founder's other
   concurrent requests.  With one tab per founder the quota is exact. *)
THEOREM OvershootBounded == Spec => []QuotaOvershootBounded
<1>1. IInv => QuotaOvershootBounded
  <2> SUFFICES ASSUME IInv, NEW f \in Founders PROVE Within(f, K - 1)
    BY DEF QuotaOvershootBounded, K
  <2>1. ASSUME NEW l \in seen[f] \ {Unlimited},
               Used(f) + Cardinality(Passed(f)) <= l + K - 1
        PROVE  Used(f) <= l + (K - 1)
    <3>1. l \in Nat
      BY DEF IInv, TypeOK, Limit
    <3>2. QED BY <2>1, <3>1, FiniteCounts
  <2>2. QED BY <2>1 DEF IInv, QuotaInv, Within
<1>2. QED
  BY <1>1, InductiveInvariant, PTL

------------------------------------------------------------------------------
(* A pair stays within one announcement when it gains no announcing request
   and no notice, and its row is kept. *)
LEMMA NoticeShrinks ==
  ASSUME TypeOK, TypeOK', NEW f \in Founders, NEW i \in Users, NoticePair(f, i),
         Announcing(f, i)' \subseteq Announcing(f, i),
         events'[f][i] + inbox'[f][i] <= events[f][i] + inbox[f][i],
         sentIn[f][i] = NoRow \/ sentIn'[f][i] # NoRow
  PROVE  NoticePair(f, i)'
<1>1. IsFiniteSet(Announcing(f, i)) /\ IsFiniteSet(Announcing(f, i)')
  <2>1. Announcing(f, i) \in SUBSET Tabs /\ Announcing(f, i)' \in SUBSET Tabs
    BY DEF Announcing
  <2>2. QED BY <2>1, CRAssumption, FS_Subset
<1>2. /\ Cardinality(Announcing(f, i)) \in Nat /\ Cardinality(Announcing(f, i)') \in Nat
      /\ Cardinality(Announcing(f, i)') <= Cardinality(Announcing(f, i))
  BY <1>1, FS_CardinalityType, FS_Subset
<1>3. /\ events[f][i] \in Nat /\ inbox[f][i] \in Nat
      /\ events'[f][i] \in Nat /\ inbox'[f][i] \in Nat
  BY DEF TypeOK
<1>4. QED BY <1>2, <1>3 DEF NoticePair

(* The request whose insert succeeds is the pair's only announcement. *)
LEMMA NoticeInsert ==
  ASSUME IInv, TypeOK', NEW f \in Founders, NEW t \in Tabs, NEW i \in Users,
         Insert(f, t), NoticePair(f, i)
  PROVE  NoticePair(f, i)'
<1> DEFINE q == req[f][t]
<1>1. q \in Request /\ q.to \in Users /\ q.step = "insert"
  BY DEF Insert, IInv, RowInv, TypeOK
<1>2. Become(f, t, [q EXCEPT !.step = "announce"]) /\ events' = events /\ inbox' = inbox
  BY DEF Insert
<1>3. sentIn[f][q.to] = NoRow /\ sentIn' = [sentIn EXCEPT ![f][q.to] = month]
  BY DEF Insert, UniqueViolation
<1>4. /\ req'[f][t].step = "announce" /\ req'[f][t].to = q.to
      /\ \A u \in Tabs : u # t => req'[f][u] = req[f][u]
  BY <1>1, <1>2 DEF Become, IInv, TypeOK, Request
<1>5. CASE i = q.to
  <2>1. Announcing(f, i) = {} /\ events[f][i] + inbox[f][i] = 0
    BY <1>3, <1>5 DEF NoticePair
  <2>2. Announcing(f, i)' = {t}
    BY <1>4, <1>5, <2>1 DEF Announcing
  <2>3. sentIn'[f][i] # NoRow
    BY <1>1, <1>3, <1>5, CRAssumption DEF IInv, TypeOK
  <2>4. events'[f][i] + inbox'[f][i] = 0 /\ Cardinality(Announcing(f, i)') = 1
    BY <1>2, <2>1, <2>2, FS_Singleton
  <2>5. QED BY <2>3, <2>4 DEF NoticePair
<1>6. CASE i # q.to
  <2>1. Announcing(f, i)' = Announcing(f, i)
    BY <1>1, <1>4, <1>6 DEF Announcing
  <2>2. sentIn'[f][i] = sentIn[f][i]
    BY <1>3, <1>6 DEF IInv, TypeOK
  <2>3. QED BY <1>2, <2>1, <2>2 DEF NoticePair
<1>7. QED BY <1>5, <1>6

(* Emitting the event trades the announcing request for the event. *)
LEMMA NoticeAnnounce ==
  ASSUME IInv, TypeOK', NEW f \in Founders, NEW t \in Tabs, NEW i \in Users,
         Announce(f, t), NoticePair(f, i)
  PROVE  NoticePair(f, i)'
<1> DEFINE q == req[f][t]
<1>1. q \in Request /\ q.to \in Users /\ q.step = "announce"
  BY DEF Announce, IInv, RowInv, TypeOK
<1>2. /\ events' = [events EXCEPT ![f][q.to] = @ + 1]
      /\ inbox' = inbox /\ sentIn' = sentIn
  BY DEF Announce
<1>3. /\ req'[f][t].step = "idle"
      /\ \A u \in Tabs : u # t => req'[f][u] = req[f][u]
  <2>1. req'[f][t].step = "idle"
    BY HandlerAnswers DEF IInv
  <2>2. \A u \in Tabs : u # t => req'[f][u] = req[f][u]
    BY DEF Announce, Answered, Become, IInv, TypeOK
  <2>3. QED BY <2>1, <2>2
<1>4. IsFiniteSet(Announcing(f, i)) /\ Cardinality(Announcing(f, i)) \in Nat
  <2>1. Announcing(f, i) \in SUBSET Tabs
    BY DEF Announcing
  <2>2. QED BY <2>1, CRAssumption, FS_Subset, FS_CardinalityType
<1>5. CASE i = q.to
  <2>1. Announcing(f, i)' = Announcing(f, i) \ {t} /\ t \in Announcing(f, i)
    BY <1>1, <1>3, <1>5 DEF Announcing
  <2>2. Cardinality(Announcing(f, i)') = Cardinality(Announcing(f, i)) - 1
    BY <1>4, <2>1, FS_RemoveElement
  <2>3. events'[f][i] = events[f][i] + 1 /\ events[f][i] \in Nat /\ inbox[f][i] \in Nat
    BY <1>2, <1>5 DEF IInv, TypeOK
  <2>4. sentIn[f][i] # NoRow
    BY <2>1 DEF NoticePair
  <2>5. QED BY <1>2, <1>4, <2>2, <2>3, <2>4 DEF NoticePair
<1>6. CASE i # q.to
  <2>1. Announcing(f, i)' = Announcing(f, i)
    BY <1>1, <1>3, <1>6 DEF Announcing
  <2>2. events'[f][i] = events[f][i]
    BY <1>2, <1>6 DEF IInv, TypeOK
  <2>3. QED BY <1>2, <2>1, <2>2 DEF NoticePair
<1>7. QED BY <1>5, <1>6

(* Every step keeps the announcements of every pair at one at most. *)
LEMMA NoticeStep == IInv /\ TypeOK' /\ NoticeInv /\ [Next]_vars => NoticeInv'
<1> SUFFICES ASSUME IInv, TypeOK', NoticeInv, [Next]_vars,
                    NEW g \in Founders, NEW i \in Users
             PROVE  NoticePair(g, i)'
  BY DEF NoticeInv
<1>1. NoticePair(g, i) /\ events[g][i] \in Nat /\ inbox[g][i] \in Nat
  BY DEF NoticeInv, IInv, TypeOK
<1>2. ASSUME req' = req, sentIn' = sentIn, events' = events, inbox' = inbox
      PROVE  NoticePair(g, i)'
  BY <1>1, <1>2 DEF NoticePair, Announcing
<1>3. ASSUME NEW f \in Founders, NEW t \in Tabs, Handler(f, t)
      PROVE  NoticePair(g, i)'
  <2>1. PICK r \in Request : Become(f, t, r)
    BY <1>3, HandlerShape DEF IInv
  <2>2. /\ req'[f][t] = r
        /\ \A h \in Founders, u \in Tabs : <<h, u>> # <<f, t>> => req'[h][u] = req[h][u]
    BY <2>1, BecomeTyped DEF IInv
  <2>3. CASE Insert(f, t)
    <3>1. CASE f = g
      BY <1>1, <2>3, <3>1, NoticeInsert
    <3>2. CASE f # g
      <4>1. Announcing(g, i)' = Announcing(g, i)
        BY <2>2, <3>2 DEF Announcing
      <4>2. sentIn'[g] = sentIn[g] /\ events' = events /\ inbox' = inbox
        BY <2>3, <3>2 DEF Insert, IInv, TypeOK
      <4>3. QED BY <1>1, <4>1, <4>2 DEF NoticePair
    <3>3. QED BY <3>1, <3>2
  <2>4. CASE Announce(f, t)
    <3>1. CASE f = g
      BY <1>1, <2>4, <3>1, NoticeAnnounce
    <3>2. CASE f # g
      <4>1. Announcing(g, i)' = Announcing(g, i)
        BY <2>2, <3>2 DEF Announcing
      <4>2. events'[g] = events[g] /\ sentIn' = sentIn /\ inbox' = inbox
        BY <2>4, <3>2 DEF Announce, IInv, TypeOK
      <4>3. QED BY <1>1, <4>1, <4>2 DEF NoticePair
    <3>3. QED BY <3>1, <3>2
  <2>5. CASE \/ \E j \in Users : Start(f, t, j)
             \/ ReadLimit(f, t) \/ CheckQuota(f, t)
             \/ InsertDuplicate(f, t) \/ DatabaseError(f, t)
    <3>1. r.step # "announce"
      <4>1. CASE ReadLimit(f, t)
        <5> DEFINE l == MonthlyLimit(req[f][t].plan)
                   s == IF l = Unlimited THEN "insert" ELSE "count"
                   q == [req[f][t] EXCEPT !.limit = l, !.step = s]
        <5>1. req[f][t] \in Request
          BY DEF IInv, TypeOK
        <5>2. q.step = s
          BY <5>1 DEF Request
        <5>3. req'[f][t] = q
          <6>1. Become(f, t, q)
            BY <4>1 DEF ReadLimit
          <6>2. QED BY <6>1 DEF Become, IInv, TypeOK
        <5>4. req'[f][t].step = s
          BY <5>2, <5>3
        <5>5. s # "announce"
          OBVIOUS
        <5> HIDE DEF s
        <5>6. QED BY <2>2, <5>4, <5>5
      <4>2. QED BY <2>2, <2>5, <4>1, HandlerAnswers DEF IInv
    <3>2. Announcing(g, i)' \subseteq Announcing(g, i)
      BY <2>2, <3>1 DEF Announcing
    <3>3. events' = events /\ inbox' = inbox /\ sentIn' = sentIn
      BY <2>5 DEF Start, ReadLimit, CheckQuota, InsertDuplicate, DatabaseError
    <3>4. QED BY <1>1, <3>2, <3>3, NoticeShrinks DEF IInv
  <2>6. QED BY <1>3, <2>3, <2>4, <2>5 DEF Handler
<1>4. ASSUME NEW f \in Founders, NEW j \in Users, Notify(f, j)
      PROVE  NoticePair(g, i)'
  <2>1. Announcing(g, i)' = Announcing(g, i) /\ sentIn' = sentIn
    BY <1>4 DEF Notify, Announcing
  <2>2. events' = [events EXCEPT ![f][j] = @ - 1] /\ events[f][j] > 0
    BY <1>4 DEF Notify
  <2>3. inbox' = [inbox EXCEPT ![f][j] = @ + 1] \/ inbox' = inbox
    BY <1>4 DEF Notify
  <2>4. CASE f = g /\ j = i
    <3>1. events'[g][i] = events[g][i] - 1
      BY <2>2, <2>4 DEF IInv, TypeOK
    <3>2. inbox'[g][i] = inbox[g][i] + 1 \/ inbox'[g][i] = inbox[g][i]
      BY <2>3, <2>4 DEF IInv, TypeOK
    <3>3. events'[g][i] + inbox'[g][i] <= events[g][i] + inbox[g][i]
      BY <1>1, <3>1, <3>2
    <3>4. QED BY <1>1, <2>1, <3>3, NoticeShrinks DEF IInv
  <2>5. CASE ~ (f = g /\ j = i)
    <3>1. events'[g][i] = events[g][i]
      BY <2>2, <2>5 DEF IInv, TypeOK
    <3>2. inbox'[g][i] = inbox[g][i]
      <4>1. inbox[g] \in [Users -> Nat]
        BY DEF IInv, TypeOK
      <4>2. CASE inbox' = [inbox EXCEPT ![f][j] = @ + 1]
        BY <2>5, <4>1, <4>2 DEF IInv, TypeOK
      <4>3. QED BY <2>3, <4>2
    <3>3. QED BY <1>1, <2>1, <3>1, <3>2 DEF NoticePair
  <2>6. QED BY <2>4, <2>5
<1>5. CASE \/ \E p \in Plans, l \in Limits \union {Unlimited} : SetLimit(p, l)
           \/ \E f \in Founders, p \in Plans : ChangePlan(f, p)
           \/ \E f \in Founders : PublishStartup(f)
           \/ NextMonth \/ UNCHANGED vars
  BY <1>2, <1>5 DEF SetLimit, ChangePlan, PublishStartup, NextMonth, vars
<1>6. QED BY <1>3, <1>4, <1>5 DEF Next

(* However many tabs send the same request and whichever of them fail, an
   investor is notified of a founder at most once, and only of a stored row. *)
THEOREM NotifiedOnce == Spec => []NotifiedAtMostOnce
<1>1. Init => NoticeInv
  <2> SUFFICES ASSUME Init, NEW f \in Founders, NEW i \in Users PROVE NoticePair(f, i)
    BY DEF NoticeInv
  <2>1. Announcing(f, i) = {}
    BY DEF Init, Announcing, Fresh
  <2>2. QED BY <2>1, FS_EmptySet DEF Init, NoticePair
<1>2. IInv /\ TypeOK' /\ NoticeInv /\ [Next]_vars => NoticeInv'
  BY NoticeStep
<1>3. TypeOK /\ NoticeInv => NotifiedAtMostOnce
  <2> SUFFICES ASSUME TypeOK, NoticeInv, NEW f \in Founders, NEW i \in Users
               PROVE  /\ events[f][i] + inbox[f][i] + Cardinality(Announcing(f, i)) <= 1
                      /\ events[f][i] + inbox[f][i] > 0 => sentIn[f][i] # NoRow
    BY DEF NotifiedAtMostOnce
  <2>1. NoticePair(f, i)
    BY DEF NoticeInv
  <2>2. QED BY <2>1 DEF NoticePair
<1>4. Spec => []IInv
  BY InductiveInvariant
<1>5. QED
  BY <1>1, <1>2, <1>3, <1>4, TypeCorrect, PTL DEF Spec

(***************************************************************************)
(* Part 2: relationship claims.                                            *)
(***************************************************************************)

(* Tabs of p whose request is about c and stands at a step. *)
TabsAt(p, c, step) == {t \in OwnerTabs : At(p, t, step) /\ claimReq[p][t].claim = c}

(* What a request has read or written still holds, for no row goes away. *)
ClaimReqOK(p, r) ==
    /\ r.step # "idle" => r.claim \in Claims /\ Filed(r.claim)
    /\ r.step \in {"update", "records"} => target[r.claim] = p
    /\ r.step \in {"update", "resolve"} => r.about \in ClaimAnswer
    /\ r.step = "records" => r.about = "CONFIRMED"
    /\ r.step = "resolve" =>
          /\ r.about = "CONFIRMED" => \A s \in ClaimSide : records[r.claim][s] > 0
          /\ r.about = "DENIED" => answersWritten[r.claim]["DENIED"] > 0
    /\ r.step = "audit" => r.about \in claimNotices[r.claim]

ClaimReqInv == \A p \in Profiles, t \in OwnerTabs : ClaimReqOK(p, claimReq[p][t])

(* Rows and answers of a claim. *)
ClaimRowOK(c) ==
    /\ Filed(c) => target[c] # Nothing
    /\ claimStatus[c] = "PENDING" => \A a \in ClaimAnswer : answersWritten[c][a] = 0
    /\ \A a \in ClaimAnswer : claimStatus[c] = a => answersWritten[c][a] > 0
    /\ ~ Filed(c) => /\ claimStatus[c] = "PENDING" /\ claimNotices[c] = {}
                     /\ target[c] = Nothing
                     /\ \A s \in ClaimSide : records[c][s] = 0
    /\ records[c]["claimant"] = records[c]["target"]

ClaimRowInv == \A c \in Claims : ClaimRowOK(c)

(* Each confirmation written is recorded, about to be, or was cut short; and
   every answer came from a tab that had read PENDING. *)
ClaimCount(p, c) ==
    LET done == records[c]["claimant"] + Cardinality(TabsAt(p, c, "records")) IN
    /\ done <= answersWritten[c]["CONFIRMED"]
    /\ c \notin cut => done = answersWritten[c]["CONFIRMED"]
    /\ answersWritten[c]["CONFIRMED"] + answersWritten[c]["DENIED"]
         + Cardinality(TabsAt(p, c, "update")) <= Cardinality(OwnerTabs)

ClaimCountInv == \A p \in Profiles, c \in Claims : target[c] = p => ClaimCount(p, c)

ClaimsInv == ClaimsTypeOK /\ ClaimReqInv /\ ClaimRowInv /\ ClaimCountInv /\ NewsIsTrue

------------------------------------------------------------------------------
LEMMA SomeTabs ==
  ASSUME NEW A \in SUBSET OwnerTabs
  PROVE  /\ IsFiniteSet(A) /\ Cardinality(A) \in Nat
         /\ Cardinality(OwnerTabs) \in Nat /\ Cardinality(A) <= Cardinality(OwnerTabs)
         /\ \A t \in OwnerTabs \ A : Cardinality(A \union {t}) = Cardinality(A) + 1
         /\ \A t \in A : Cardinality(A \ {t}) = Cardinality(A) - 1
  BY RCAssumption, FS_Subset, FS_CardinalityType, FS_AddElement, FS_RemoveElement

LEMMA NoTabs == Cardinality({}) = 0
  BY FS_EmptySet

LEMMA ClaimBecoming ==
  ASSUME ClaimsTypeOK, NEW p \in Profiles, NEW t \in OwnerTabs, NEW r \in ClaimRequest,
         ClaimBecome(p, t, r)
  PROVE  /\ claimReq' \in [Profiles -> [OwnerTabs -> ClaimRequest]]
         /\ claimReq'[p][t] = r
         /\ \A q \in Profiles, s \in OwnerTabs : q # p \/ s # t => claimReq'[q][s] = claimReq[q][s]
  BY DEF ClaimsTypeOK, ClaimBecome

LEMMA ClaimGoing ==
  ASSUME ClaimsTypeOK, NEW p \in Profiles, NEW t \in OwnerTabs, NEW step \in ClaimStep,
         ClaimGoto(p, t, step)
  PROVE  \E r \in ClaimRequest :
            /\ r.step = step /\ r.claim = claimReq[p][t].claim /\ r.about = claimReq[p][t].about
            /\ ClaimBecome(p, t, r)
<1> DEFINE r == [claimReq[p][t] EXCEPT !.step = step]
<1>1. claimReq[p][t] \in ClaimRequest
  BY DEF ClaimsTypeOK
<1>2. /\ r \in ClaimRequest /\ r.step = step
      /\ r.claim = claimReq[p][t].claim /\ r.about = claimReq[p][t].about
  BY <1>1 DEF ClaimRequest
<1>3. ClaimBecome(p, t, r)
  BY DEF ClaimGoto
<1> HIDE DEF r
<1>4. QED BY <1>2, <1>3

LEMMA IdleClaim == ClaimIdle \in ClaimRequest /\ ClaimIdle.step = "idle" /\ ClaimIdle.claim = Nothing
  BY DEF ClaimIdle, ClaimRequest, ClaimStep, Event

(* What no step takes back. *)
ClaimsOnward ==
    \A c \in Claims :
        /\ Filed(c) => Filed(c)' /\ target'[c] = target[c]
        /\ claimNotices[c] \subseteq claimNotices'[c]
        /\ \A s \in ClaimSide : records[c][s] > 0 => records'[c][s] > 0
        /\ answersWritten[c]["DENIED"] > 0 => answersWritten'[c]["DENIED"] > 0

LEMMA ClaimReqKept ==
  ASSUME ClaimsTypeOK, ClaimReqInv, ClaimsOnward, NEW p \in Profiles, NEW t \in OwnerTabs,
         NEW r \in ClaimRequest, ClaimBecome(p, t, r), ClaimReqOK(p, r)'
  PROVE  ClaimReqInv'
<1>1. SUFFICES ASSUME NEW q \in Profiles, NEW s \in OwnerTabs
               PROVE  ClaimReqOK(q, claimReq[q][s])'
  BY DEF ClaimReqInv
<1>2. CASE q = p /\ s = t
  BY <1>2, ClaimBecoming DEF ClaimReqOK, Filed
<1>3. CASE q # p \/ s # t
  <2>1. claimReq'[q][s] = claimReq[q][s] /\ claimReq[q][s] \in ClaimRequest
    BY <1>3, ClaimBecoming DEF ClaimsTypeOK
  <2>2. ClaimReqOK(q, claimReq[q][s])
    BY DEF ClaimReqInv
  <2>3. QED BY <2>1, <2>2 DEF ClaimReqOK, ClaimsOnward, Filed
<1>4. QED BY <1>2, <1>3

(* How the sets of tabs change with one request. *)
LEMMA TabsMove ==
  ASSUME ClaimsTypeOK, NEW p \in Profiles, NEW t \in OwnerTabs, NEW r \in ClaimRequest,
         ClaimBecome(p, t, r), NEW q \in Profiles, NEW c \in Claims, NEW s \in ClaimStep
  PROVE  TabsAt(q, c, s)' = IF q # p THEN TabsAt(q, c, s)
                            ELSE IF r.step = s /\ r.claim = c
                                 THEN TabsAt(q, c, s) \union {t} ELSE TabsAt(q, c, s) \ {t}
<1>1. CASE q # p
  BY <1>1, ClaimBecoming DEF TabsAt, At
<1>2. CASE q = p
  BY <1>2, ClaimBecoming DEF TabsAt, At
<1>3. QED BY <1>1, <1>2

LEMMA WritingSteps == "records" \in ClaimStep /\ "update" \in ClaimStep
  BY DEF ClaimStep

LEMMA TabsStay ==
  ASSUME ClaimsTypeOK, NEW p \in Profiles, NEW t \in OwnerTabs, NEW r \in ClaimRequest,
         ClaimBecome(p, t, r), NEW q \in Profiles, NEW c \in Claims, NEW s \in {"records", "update"},
         r.step # s \/ r.claim # c, t \notin TabsAt(p, c, s)
  PROVE  TabsAt(q, c, s)' = TabsAt(q, c, s)
<1>1. s \in ClaimStep
  BY DEF ClaimStep
<1>2. TabsAt(q, c, s)' = IF q # p THEN TabsAt(q, c, s) ELSE TabsAt(q, c, s) \ {t}
  BY <1>1, TabsMove
<1>3. QED BY <1>2

(* A claim that the step does not write keeps its counts. *)
LEMMA CountKept ==
  ASSUME NEW q \in Profiles, NEW c \in Claims, ClaimCount(q, c),
         records'[c] = records[c], answersWritten'[c] = answersWritten[c],
         c \in cut => c \in cut',
         TabsAt(q, c, "records")' = TabsAt(q, c, "records"),
         TabsAt(q, c, "update")' = TabsAt(q, c, "update")
  PROVE  ClaimCount(q, c)'
  BY DEF ClaimCount

(* Claims untouched by a step of p that neither reaches nor leaves a step at
   which something is left to write. *)
LEMMA CountsKept ==
  ASSUME ClaimsInv, NEW p \in Profiles, NEW t \in OwnerTabs, NEW r \in ClaimRequest,
         ClaimBecome(p, t, r), r.step \notin {"update", "records"},
         claimReq[p][t].step \notin {"update", "records"},
         UNCHANGED <<target, records, answersWritten, cut>>
  PROVE  ClaimCountInv'
<1> SUFFICES ASSUME NEW q \in Profiles, NEW c \in Claims, target[c] = q
             PROVE  ClaimCount(q, c)'
  BY DEF ClaimCountInv
<1>1. \A s \in {"records", "update"} : TabsAt(q, c, s)' = TabsAt(q, c, s)
  <2> TAKE s \in {"records", "update"}
  <2>1. t \notin TabsAt(p, c, s) /\ s \in ClaimStep /\ r.step # s
    BY DEF TabsAt, At, ClaimStep
  <2>2. QED BY <2>1, TabsMove DEF ClaimsInv
<1>2. ClaimCount(q, c)
  BY DEF ClaimsInv, ClaimCountInv
<1>3. QED BY <1>1, <1>2, CountKept

------------------------------------------------------------------------------
LEMMA CreateStep ==
  ASSUME ClaimsInv, NEW p \in Profiles, NEW t \in OwnerTabs, NEW c \in Claims,
         NEW q \in Profiles, Create(p, t, c, q)
  PROVE  ClaimsInv'
<1> USE DEF ClaimsInv
<1> DEFINE r == [step |-> "audit", claim |-> c, about |-> "created"]
<1>1. /\ r \in ClaimRequest /\ ClaimBecome(p, t, r)
      /\ r.step = "audit" /\ r.claim = c /\ r.about = "created"
  BY DEF Create, ClaimRequest, ClaimStep, Event
<1> HIDE DEF r
<1>2. /\ ~ Filed(c) /\ p # Nothing /\ q # Nothing /\ claimReq[p][t].step = "idle"
      /\ claimant' = [claimant EXCEPT ![c] = p]
      /\ target' = [target EXCEPT ![c] = q]
      /\ claimNotices' = [claimNotices EXCEPT ![c] = @ \union {"created"}]
      /\ UNCHANGED <<claimStatus, records, claimAudit, answersWritten, cut>>
  BY RCAssumption DEF Create, At
<1>3. ClaimsTypeOK'
  BY <1>1, <1>2, ClaimBecoming DEF ClaimsTypeOK, Event
<1>4. /\ claimant'[c] = p /\ target'[c] = q
      /\ claimNotices'[c] = claimNotices[c] \union {"created"}
      /\ \A e \in Claims \ {c} : /\ claimant'[e] = claimant[e] /\ target'[e] = target[e]
                                 /\ claimNotices'[e] = claimNotices[e]
  BY <1>2 DEF ClaimsTypeOK
<1>5. ClaimsOnward
  BY <1>2, <1>4 DEF ClaimsOnward, Filed
<1>6. ClaimReqOK(p, r)'
  BY <1>1, <1>2, <1>4 DEF ClaimReqOK, Filed
<1>7. ClaimReqInv'
  BY <1>1, <1>5, <1>6, ClaimReqKept
<1>8. ClaimRowInv'
  BY <1>2, <1>4 DEF ClaimRowInv, ClaimRowOK, Filed
<1>9. NewsIsTrue'
  BY <1>2, <1>4 DEF NewsIsTrue
<1>10. ASSUME NEW w \in Profiles, NEW e \in Claims, target'[e] = w
       PROVE  ClaimCount(w, e)'
  <2>1. \A s \in {"records", "update"} : TabsAt(w, e, s)' = TabsAt(w, e, s)
    <3> TAKE s \in {"records", "update"}
    <3>1. t \notin TabsAt(p, e, s) /\ s \in ClaimStep /\ r.step # s
      BY <1>1, <1>2 DEF TabsAt, At, ClaimStep
    <3>2. QED BY <1>1, <3>1, TabsMove
  <2>2. CASE e = c
    <3>1. TabsAt(w, e, "records") = {} /\ TabsAt(w, e, "update") = {}
      BY <1>2, <2>2 DEF TabsAt, At, ClaimReqInv, ClaimReqOK
    <3>2. /\ records'[e]["claimant"] = 0
          /\ answersWritten'[e]["CONFIRMED"] = 0 /\ answersWritten'[e]["DENIED"] = 0
      BY <1>2, <2>2 DEF ClaimRowInv, ClaimRowOK, ClaimSide, ClaimAnswer
    <3>3. Cardinality(OwnerTabs) \in Nat
      BY SomeTabs
    <3>4. /\ Cardinality(TabsAt(w, e, "records"))' = 0
          /\ Cardinality(TabsAt(w, e, "update"))' = 0
      BY <2>1, <3>1, NoTabs
    <3>5. QED BY <3>2, <3>3, <3>4 DEF ClaimCount
  <2>3. CASE e # c
    <3>1. ClaimCount(w, e)
      BY <1>4, <1>10, <2>3 DEF ClaimCountInv
    <3>2. QED BY <1>2, <2>1, <3>1, CountKept
  <2>4. QED BY <2>2, <2>3
<1>11. ClaimCountInv'
  BY <1>10 DEF ClaimCountInv
<1>12. QED BY <1>3, <1>7, <1>8, <1>9, <1>11

LEMMA CheckRespondStep ==
  ASSUME ClaimsInv, NEW p \in Profiles, NEW t \in OwnerTabs, NEW c \in Claims,
         NEW a \in ClaimAnswer, CheckRespondClaim(p, t, c, a)
  PROVE  ClaimsInv'
<1> USE DEF ClaimsInv, claimRows
<1> DEFINE r == [step |-> "update", claim |-> c, about |-> a]
<1>1. /\ r \in ClaimRequest /\ ClaimBecome(p, t, r)
      /\ r.step = "update" /\ r.claim = c /\ r.about = a
  BY DEF CheckRespondClaim, ClaimRequest, ClaimStep, Event
<1> HIDE DEF r
<1>2. /\ Filed(c) /\ claimStatus[c] = "PENDING" /\ target[c] = p /\ claimReq[p][t].step = "idle"
      /\ UNCHANGED <<claimant, target, claimStatus, records, claimNotices, claimAudit,
                     answersWritten, cut>>
  BY DEF CheckRespondClaim, At
<1>3. ClaimsTypeOK'
  BY <1>1, <1>2, ClaimBecoming DEF ClaimsTypeOK
<1>4. ClaimsOnward
  BY <1>2 DEF ClaimsOnward, Filed
<1>5. ClaimReqOK(p, r)'
  BY <1>1, <1>2 DEF ClaimReqOK, Filed
<1>6. ClaimReqInv'
  BY <1>1, <1>4, <1>5, ClaimReqKept
<1>7. ClaimRowInv' /\ NewsIsTrue'
  BY <1>2 DEF ClaimRowInv, ClaimRowOK, NewsIsTrue, Filed
<1>8. ASSUME NEW w \in Profiles, NEW e \in Claims, target[e] = w
      PROVE  ClaimCount(w, e)'
  <2>1. ClaimCount(w, e)
    BY <1>8 DEF ClaimCountInv
  <2>2. t \notin TabsAt(p, e, "records") /\ t \notin TabsAt(p, e, "update")
    BY <1>2 DEF TabsAt, At
  <2>3. TabsAt(w, e, "records")' = TabsAt(w, e, "records")
    BY <1>1, <2>2, TabsMove DEF ClaimStep
  <2>4. CASE e = c
    <3>1. answersWritten[c]["CONFIRMED"] = 0 /\ answersWritten[c]["DENIED"] = 0
      BY <1>2 DEF ClaimRowInv, ClaimRowOK, ClaimAnswer
    <3>2. TabsAt(w, c, "update")' \in SUBSET OwnerTabs
      BY DEF TabsAt
    <3>3. /\ Cardinality(TabsAt(w, c, "update")') <= Cardinality(OwnerTabs)
          /\ Cardinality(TabsAt(w, c, "update")') \in Nat
      BY <3>2, SomeTabs
    <3>4. QED BY <1>2, <2>1, <2>3, <2>4, <3>1, <3>3 DEF ClaimCount
  <2>5. CASE e # c
    <3>1. TabsAt(w, e, "update")' = TabsAt(w, e, "update")
      BY <1>1, <2>2, <2>5, TabsStay
    <3>2. /\ records'[e] = records[e] /\ answersWritten'[e] = answersWritten[e]
          /\ cut' = cut
      BY <1>2
    <3>3. QED BY <2>1, <2>3, <3>1, <3>2, CountKept
  <2>6. QED BY <2>4, <2>5
<1>9. ClaimCountInv'
  BY <1>2, <1>8 DEF ClaimCountInv
<1>10. QED BY <1>3, <1>6, <1>7, <1>9

LEMMA WriteStep ==
  ASSUME ClaimsInv, NEW p \in Profiles, NEW t \in OwnerTabs, WriteClaimAnswer(p, t)
  PROVE  ClaimsInv'
<1> USE DEF ClaimsInv
<1> DEFINE c == claimReq[p][t].claim
           a == claimReq[p][t].about
           step == IF a = "CONFIRMED" THEN "records" ELSE "resolve"
<1>1. /\ claimReq[p][t] \in ClaimRequest /\ claimReq[p][t].step = "update"
      /\ c \in Claims /\ a \in ClaimAnswer /\ Filed(c) /\ target[c] = p
      /\ step \in ClaimStep
  BY DEF WriteClaimAnswer, At, ClaimsTypeOK, ClaimReqInv, ClaimReqOK, ClaimStep
<1>2. PICK r \in ClaimRequest : r.step = step /\ r.claim = c /\ r.about = a /\ ClaimBecome(p, t, r)
  BY <1>1, ClaimGoing DEF WriteClaimAnswer
<1>3. /\ claimStatus' = [claimStatus EXCEPT ![c] = a]
      /\ answersWritten' = [answersWritten EXCEPT ![c][a] = @ + 1]
      /\ UNCHANGED <<claimant, target, records, claimNotices, claimAudit, cut>>
  BY DEF WriteClaimAnswer
<1>4. t \in TabsAt(p, c, "update") /\ t \notin TabsAt(p, c, "records")
  BY <1>1 DEF TabsAt, At
<1> HIDE DEF c, a
<1>5. ClaimsTypeOK'
  BY <1>1, <1>2, <1>3, ClaimBecoming DEF ClaimsTypeOK
<1>6. /\ claimStatus'[c] = a
      /\ answersWritten'[c][a] = answersWritten[c][a] + 1
      /\ \A b \in ClaimAnswer \ {a} : answersWritten'[c][b] = answersWritten[c][b]
      /\ \A e \in Claims \ {c} : /\ claimStatus'[e] = claimStatus[e]
                                 /\ answersWritten'[e] = answersWritten[e]
      /\ \A b \in ClaimAnswer, e \in Claims : answersWritten[e][b] \in Nat
  BY <1>1, <1>3 DEF ClaimsTypeOK
<1>7. ClaimsOnward
  BY <1>3, <1>6 DEF ClaimsOnward, Filed, ClaimAnswer
<1>8. ClaimReqOK(p, r)'
  BY <1>1, <1>2, <1>3, <1>6 DEF ClaimReqOK, Filed, ClaimAnswer
<1>9. ClaimReqInv'
  BY <1>2, <1>7, <1>8, ClaimReqKept
<1>10. ClaimRowInv'
  BY <1>1, <1>3, <1>6 DEF ClaimRowInv, ClaimRowOK, Filed, ClaimAnswer
<1>11. NewsIsTrue'
  BY <1>3, <1>6 DEF NewsIsTrue, ClaimAnswer
<1>12. ASSUME NEW w \in Profiles, NEW e \in Claims, target[e] = w
       PROVE  ClaimCount(w, e)'
  <2>1. ClaimCount(w, e)
    BY <1>12 DEF ClaimCountInv
  <2>2. CASE e # c
    <3>1. t \notin TabsAt(p, e, "records") /\ t \notin TabsAt(p, e, "update")
      BY <2>2 DEF TabsAt, c
    <3>2. \A s \in {"records", "update"} : TabsAt(w, e, s)' = TabsAt(w, e, s)
      BY <1>2, <2>2, <3>1, TabsStay
    <3>3. QED BY <1>3, <1>6, <2>1, <2>2, <3>2, CountKept
  <2>3. CASE e = c
    <3>0. w = p
      BY <1>1, <1>12, <2>3
    <3>1. /\ TabsAt(w, e, "update")' = TabsAt(w, e, "update") \ {t}
          /\ TabsAt(w, e, "records")' = IF a = "CONFIRMED" THEN TabsAt(w, e, "records") \union {t}
                                         ELSE TabsAt(w, e, "records")
      <4>1. /\ t \notin TabsAt(w, e, "records") /\ r.claim = e /\ r.step # "update"
            /\ r.step = "records" <=> a = "CONFIRMED"
        BY <1>2, <1>4, <2>3, <3>0
      <4>2. QED BY <1>2, <3>0, <4>1, TabsMove, WritingSteps
    <3>2. /\ TabsAt(w, e, "update") \in SUBSET OwnerTabs
          /\ TabsAt(w, e, "records") \in SUBSET OwnerTabs
      BY DEF TabsAt
    <3>3. /\ Cardinality(TabsAt(w, e, "update"))' = Cardinality(TabsAt(w, e, "update")) - 1
          /\ Cardinality(TabsAt(w, e, "records"))' =
               Cardinality(TabsAt(w, e, "records")) + (IF a = "CONFIRMED" THEN 1 ELSE 0)
          /\ Cardinality(TabsAt(w, e, "update")) \in Nat
          /\ Cardinality(TabsAt(w, e, "records")) \in Nat
          /\ Cardinality(OwnerTabs) \in Nat
      BY <1>4, <2>3, <3>0, <3>1, <3>2, SomeTabs
    <3>4. /\ records'[e] = records[e] /\ cut' = cut /\ records[e]["claimant"] \in Nat
      BY <1>3 DEF ClaimsTypeOK, ClaimSide
    <3>5. CASE a = "CONFIRMED"
      <4>1. /\ answersWritten'[e]["CONFIRMED"] = answersWritten[e]["CONFIRMED"] + 1
            /\ answersWritten'[e]["DENIED"] = answersWritten[e]["DENIED"]
            /\ answersWritten[e]["CONFIRMED"] \in Nat /\ answersWritten[e]["DENIED"] \in Nat
        BY <1>6, <2>3, <3>5 DEF ClaimAnswer
      <4>2. QED BY <2>1, <3>3, <3>4, <3>5, <4>1 DEF ClaimCount
    <3>6. CASE a = "DENIED"
      <4>1. /\ answersWritten'[e]["DENIED"] = answersWritten[e]["DENIED"] + 1
            /\ answersWritten'[e]["CONFIRMED"] = answersWritten[e]["CONFIRMED"]
            /\ answersWritten[e]["CONFIRMED"] \in Nat /\ answersWritten[e]["DENIED"] \in Nat
        BY <1>6, <2>3, <3>6 DEF ClaimAnswer
      <4>2. QED BY <2>1, <3>3, <3>4, <3>6, <4>1 DEF ClaimCount
    <3>7. QED BY <1>1, <3>5, <3>6 DEF ClaimAnswer
  <2>4. QED BY <2>2, <2>3
<1>13. ClaimCountInv'
  BY <1>3, <1>12 DEF ClaimCountInv
<1>14. QED BY <1>5, <1>9, <1>10, <1>11, <1>13

LEMMA RecordStep ==
  ASSUME ClaimsInv, NEW p \in Profiles, NEW t \in OwnerTabs, RecordTwoSided(p, t)
  PROVE  ClaimsInv'
<1> USE DEF ClaimsInv
<1> DEFINE c == claimReq[p][t].claim
<1>1. /\ claimReq[p][t] \in ClaimRequest /\ claimReq[p][t].step = "records"
      /\ c \in Claims /\ claimReq[p][t].about = "CONFIRMED" /\ Filed(c) /\ target[c] = p
  BY DEF RecordTwoSided, At, ClaimsTypeOK, ClaimReqInv, ClaimReqOK
<1>2. PICK r \in ClaimRequest : /\ r.step = "resolve" /\ r.claim = c /\ r.about = "CONFIRMED"
                               /\ ClaimBecome(p, t, r)
  BY <1>1, ClaimGoing DEF RecordTwoSided, ClaimStep
<1>3. /\ records' = [records EXCEPT ![c] = [s \in ClaimSide |-> @[s] + 1]]
      /\ UNCHANGED <<claimant, target, claimStatus, claimNotices, claimAudit, answersWritten, cut>>
  BY DEF RecordTwoSided, claimRows
<1>4. t \in TabsAt(p, c, "records") /\ t \notin TabsAt(p, c, "update")
  BY <1>1 DEF TabsAt, At
<1> HIDE DEF c
<1>5. /\ \A s \in ClaimSide : records'[c][s] = records[c][s] + 1
      /\ \A e \in Claims \ {c} : records'[e] = records[e]
      /\ \A e \in Claims, s \in ClaimSide : records[e][s] \in Nat
      /\ records' \in [Claims -> [ClaimSide -> Nat]]
  BY <1>1, <1>3 DEF ClaimsTypeOK
<1>6. ClaimsTypeOK'
  BY <1>2, <1>3, <1>5, ClaimBecoming DEF ClaimsTypeOK
<1>7. ClaimsOnward
  BY <1>3, <1>5 DEF ClaimsOnward, Filed
<1>8. ClaimReqOK(p, r)'
  BY <1>1, <1>2, <1>3, <1>5 DEF ClaimReqOK, Filed, ClaimAnswer
<1>9. ClaimReqInv'
  BY <1>2, <1>7, <1>8, ClaimReqKept
<1>10. ClaimRowInv'
  BY <1>1, <1>3, <1>5 DEF ClaimRowInv, ClaimRowOK, Filed, ClaimSide
<1>11. NewsIsTrue'
  BY <1>3, <1>5 DEF NewsIsTrue
<1>12. ASSUME NEW w \in Profiles, NEW e \in Claims, target[e] = w
       PROVE  ClaimCount(w, e)'
  <2>1. ClaimCount(w, e)
    BY <1>12 DEF ClaimCountInv
  <2>2. CASE e # c
    <3>1. t \notin TabsAt(p, e, "records") /\ t \notin TabsAt(p, e, "update")
      BY <2>2 DEF TabsAt, c
    <3>2. \A s \in {"records", "update"} : TabsAt(w, e, s)' = TabsAt(w, e, s)
      BY <1>2, <2>2, <3>1, TabsStay
    <3>3. QED BY <1>3, <1>5, <2>1, <2>2, <3>2, CountKept
  <2>3. CASE e = c
    <3>0. w = p
      BY <1>1, <1>12, <2>3
    <3>1. /\ TabsAt(w, e, "update")' = TabsAt(w, e, "update")
          /\ TabsAt(w, e, "records")' = TabsAt(w, e, "records") \ {t}
      <4>1. t \notin TabsAt(w, e, "update") /\ r.step = "resolve"
        BY <1>2, <1>4, <2>3, <3>0
      <4>2. QED BY <1>2, <3>0, <4>1, TabsMove, WritingSteps
    <3>2. TabsAt(w, e, "records") \in SUBSET OwnerTabs
      BY DEF TabsAt
    <3>3. /\ Cardinality(TabsAt(w, e, "records"))' = Cardinality(TabsAt(w, e, "records")) - 1
          /\ Cardinality(TabsAt(w, e, "records")) \in Nat
      BY <1>4, <2>3, <3>0, <3>1, <3>2, SomeTabs
    <3>4. /\ records'[e]["claimant"] = records[e]["claimant"] + 1
          /\ records[e]["claimant"] \in Nat
          /\ answersWritten' = answersWritten /\ cut' = cut
      BY <1>3, <1>5, <2>3 DEF ClaimSide
    <3>5. QED BY <2>1, <3>1, <3>3, <3>4 DEF ClaimCount
  <2>4. QED BY <2>2, <2>3
<1>13. ClaimCountInv'
  BY <1>3, <1>12 DEF ClaimCountInv
<1>14. QED BY <1>6, <1>9, <1>10, <1>11, <1>13

LEMMA TellStep ==
  ASSUME ClaimsInv, NEW p \in Profiles, NEW t \in OwnerTabs, TellClaimant(p, t)
  PROVE  ClaimsInv'
<1> USE DEF ClaimsInv
<1> DEFINE c == claimReq[p][t].claim
           a == claimReq[p][t].about
<1>1. /\ claimReq[p][t] \in ClaimRequest /\ claimReq[p][t].step = "resolve"
      /\ c \in Claims /\ a \in ClaimAnswer /\ a \in Event /\ Filed(c)
      /\ a = "CONFIRMED" => \A s \in ClaimSide : records[c][s] > 0
      /\ a = "DENIED" => answersWritten[c]["DENIED"] > 0
  BY DEF TellClaimant, At, ClaimsTypeOK, ClaimReqInv, ClaimReqOK, Event
<1>2. PICK r \in ClaimRequest : /\ r.step = "audit" /\ r.claim = c /\ r.about = a
                               /\ ClaimBecome(p, t, r)
  BY <1>1, ClaimGoing DEF TellClaimant, ClaimStep
<1>3. /\ claimNotices' = [claimNotices EXCEPT ![c] = @ \union {a}]
      /\ UNCHANGED <<claimant, target, claimStatus, records, claimAudit, answersWritten, cut>>
  BY DEF TellClaimant, claimRows
<1> HIDE DEF c, a
<1>4. /\ claimNotices'[c] = claimNotices[c] \union {a}
      /\ \A e \in Claims \ {c} : claimNotices'[e] = claimNotices[e]
      /\ claimNotices' \in [Claims -> SUBSET Event]
  BY <1>1, <1>3 DEF ClaimsTypeOK
<1>5. ClaimsTypeOK'
  BY <1>2, <1>3, <1>4, ClaimBecoming DEF ClaimsTypeOK
<1>6. ClaimsOnward
  BY <1>3, <1>4 DEF ClaimsOnward, Filed
<1>7. ClaimReqOK(p, r)'
  BY <1>1, <1>2, <1>3, <1>4 DEF ClaimReqOK, Filed
<1>8. ClaimReqInv'
  BY <1>2, <1>6, <1>7, ClaimReqKept
<1>9. ClaimRowInv'
  BY <1>1, <1>3, <1>4 DEF ClaimRowInv, ClaimRowOK, Filed
<1>10. NewsIsTrue'
  BY <1>1, <1>3, <1>4 DEF NewsIsTrue
<1>11. ClaimCountInv'
  BY <1>1, <1>2, <1>3, CountsKept
<1>12. QED BY <1>5, <1>8, <1>9, <1>10, <1>11

LEMMA AuditStep ==
  ASSUME ClaimsInv, NEW p \in Profiles, NEW t \in OwnerTabs, RecordClaimAudit(p, t)
  PROVE  ClaimsInv'
<1> USE DEF ClaimsInv
<1> DEFINE c == claimReq[p][t].claim
           a == claimReq[p][t].about
<1>1. /\ claimReq[p][t].step = "audit" /\ c \in Claims /\ a \in Event /\ a \in claimNotices[c]
  BY DEF RecordClaimAudit, At, ClaimsTypeOK, ClaimReqInv, ClaimReqOK, ClaimRequest
<1>2. /\ claimAudit' = [claimAudit EXCEPT ![c] = @ \union {a}]
      /\ ClaimBecome(p, t, ClaimIdle)
      /\ UNCHANGED <<claimant, target, claimStatus, records, claimNotices, answersWritten, cut>>
  BY DEF RecordClaimAudit, claimRows
<1> HIDE DEF c, a
<1>3. ClaimsTypeOK'
  BY <1>1, <1>2, ClaimBecoming, IdleClaim DEF ClaimsTypeOK
<1>4. ClaimsOnward
  BY <1>2 DEF ClaimsOnward, Filed
<1>5. ClaimReqOK(p, ClaimIdle)'
  BY IdleClaim DEF ClaimReqOK
<1>6. ClaimReqInv'
  BY <1>2, <1>4, <1>5, IdleClaim, ClaimReqKept
<1>7. ClaimRowInv'
  BY <1>2 DEF ClaimRowInv, ClaimRowOK, Filed
<1>8. NewsIsTrue'
  BY <1>1, <1>2 DEF NewsIsTrue, ClaimsTypeOK
<1>9. ClaimCountInv'
  BY <1>1, <1>2, IdleClaim, CountsKept
<1>10. QED BY <1>3, <1>6, <1>7, <1>8, <1>9

LEMMA AbortStep ==
  ASSUME ClaimsInv, NEW p \in Profiles, NEW t \in OwnerTabs, AbortClaim(p, t)
  PROVE  ClaimsInv'
<1> USE DEF ClaimsInv
<1> DEFINE c == claimReq[p][t].claim
<1>1. c \in Claims /\ claimReq[p][t].step # "idle"
  BY DEF AbortClaim, At, ClaimReqInv, ClaimReqOK
<1>2. /\ cut' = cut \union {c} /\ ClaimBecome(p, t, ClaimIdle)
      /\ UNCHANGED <<claimant, target, claimStatus, records, claimNotices, claimAudit, answersWritten>>
  BY DEF AbortClaim, claimRows
<1>3. ClaimsTypeOK'
  BY <1>1, <1>2, ClaimBecoming, IdleClaim DEF ClaimsTypeOK
<1>4. ClaimsOnward
  BY <1>2 DEF ClaimsOnward, Filed
<1>5. ClaimReqOK(p, ClaimIdle)'
  BY IdleClaim DEF ClaimReqOK
<1>6. ClaimReqInv'
  BY <1>2, <1>4, <1>5, IdleClaim, ClaimReqKept
<1>7. ClaimRowInv' /\ NewsIsTrue'
  BY <1>2 DEF ClaimRowInv, ClaimRowOK, NewsIsTrue, Filed
<1>8. ASSUME NEW w \in Profiles, NEW e \in Claims, target[e] = w
      PROVE  ClaimCount(w, e)'
  <2>1. ClaimCount(w, e)
    BY <1>8 DEF ClaimCountInv
  <2>2. CASE e # c
    <3>1. t \notin TabsAt(p, e, "records") /\ t \notin TabsAt(p, e, "update")
      BY <2>2 DEF TabsAt
    <3>2. \A s \in {"records", "update"} : TabsAt(w, e, s)' = TabsAt(w, e, s)
      BY <1>2, <3>1, IdleClaim, TabsStay
    <3>3. QED BY <1>2, <2>1, <3>2, CountKept
  <2>3. CASE e = c
    <3>1. \A s \in {"records", "update"} :
             /\ Cardinality(TabsAt(w, e, s))' <= Cardinality(TabsAt(w, e, s))
             /\ Cardinality(TabsAt(w, e, s)) \in Nat /\ Cardinality(TabsAt(w, e, s))' \in Nat
      <4> TAKE s \in {"records", "update"}
      <4>1. TabsAt(w, e, s)' = TabsAt(w, e, s) \/ TabsAt(w, e, s)' = TabsAt(w, e, s) \ {t}
        BY <1>2, IdleClaim, TabsMove DEF ClaimStep
      <4>2. TabsAt(w, e, s) \in SUBSET OwnerTabs
        BY DEF TabsAt
      <4>3. CASE t \in TabsAt(w, e, s)
        BY <4>1, <4>2, <4>3, SomeTabs
      <4>4. CASE t \notin TabsAt(w, e, s)
        <5>1. TabsAt(w, e, s)' = TabsAt(w, e, s)
          BY <4>1, <4>4
        <5>2. QED BY <4>2, <5>1, SomeTabs
      <4>5. QED BY <4>3, <4>4
    <3>2. /\ records'[e] = records[e] /\ records[e]["claimant"] \in Nat
          /\ answersWritten'[e] = answersWritten[e]
          /\ answersWritten[e]["CONFIRMED"] \in Nat /\ answersWritten[e]["DENIED"] \in Nat
          /\ Cardinality(OwnerTabs) \in Nat /\ e \in cut'
      BY <1>2, <2>3, SomeTabs DEF ClaimsTypeOK, ClaimSide, ClaimAnswer
    <3>3. QED BY <2>1, <3>1, <3>2 DEF ClaimCount
  <2>4. QED BY <2>2, <2>3
<1>9. ClaimCountInv'
  BY <1>2, <1>8 DEF ClaimCountInv
<1>10. QED BY <1>3, <1>6, <1>7, <1>9

------------------------------------------------------------------------------
LEMMA ClaimsInitially == ClaimsInit => ClaimsInv
<1> SUFFICES ASSUME ClaimsInit PROVE ClaimsInv
  OBVIOUS
<1>1. ClaimsTypeOK
  BY IdleClaim DEF ClaimsInit, ClaimsTypeOK
<1>2. ClaimReqInv
  BY IdleClaim DEF ClaimsInit, ClaimReqInv, ClaimReqOK
<1>3. ClaimRowInv
  BY DEF ClaimsInit, ClaimRowInv, ClaimRowOK, Filed, ClaimSide, ClaimAnswer
<1>4. ClaimCountInv
  BY RCAssumption DEF ClaimsInit, ClaimCountInv
<1>5. NewsIsTrue
  BY DEF ClaimsInit, NewsIsTrue
<1>6. QED BY <1>1, <1>2, <1>3, <1>4, <1>5 DEF ClaimsInv

LEMMA ClaimsStep == ClaimsInv /\ [ClaimsNext]_claimsVars => ClaimsInv'
<1> SUFFICES ASSUME ClaimsInv, [ClaimsNext]_claimsVars PROVE ClaimsInv'
  OBVIOUS
<1>1. ASSUME NEW p \in Profiles, NEW t \in OwnerTabs, ClaimHandler(p, t)
      PROVE  ClaimsInv'
  BY <1>1, CreateStep, CheckRespondStep, WriteStep, RecordStep, TellStep, AuditStep, AbortStep
     DEF ClaimHandler
<1>2. CASE UNCHANGED claimsVars
  <2> USE <1>2 DEF claimsVars, claimRows, ClaimsInv
  <2>1. ClaimsTypeOK'
    BY DEF ClaimsTypeOK
  <2>2. ClaimReqInv'
    BY DEF ClaimReqInv, ClaimReqOK, Filed
  <2>3. ClaimRowInv'
    BY DEF ClaimRowInv, ClaimRowOK, Filed
  <2>4. ClaimCountInv'
    BY DEF ClaimCountInv, ClaimCount, TabsAt, At
  <2>5. NewsIsTrue'
    BY DEF NewsIsTrue
  <2>6. QED BY <2>1, <2>2, <2>3, <2>4, <2>5
<1>3. QED BY <1>1, <1>2 DEF ClaimsNext

(***************************************************************************)
(* What every request about a claim has read or written still holds, and   *)
(* the counts of answers, rows and tabs agree.                             *)
(***************************************************************************)
THEOREM ClaimsInvariant == ClaimsSpec => []ClaimsInv
  BY ClaimsInitially, ClaimsStep, PTL DEF ClaimsSpec

LEMMA ClaimsConclude == ClaimsInv => ClaimsAreTrue
<1> SUFFICES ASSUME ClaimsInv PROVE ClaimsAreTrue
  OBVIOUS
<1> USE DEF ClaimsInv
<1>1. ASSUME NEW c \in Claims
      PROVE  /\ records[c]["claimant"] \in Nat /\ records[c]["target"] \in Nat
             /\ answersWritten[c]["CONFIRMED"] \in Nat /\ answersWritten[c]["DENIED"] \in Nat
             /\ Cardinality(OwnerTabs) \in Nat
             /\ claimStatus[c] \in ClaimAnswer \union {"PENDING"}
  BY SomeTabs DEF ClaimsTypeOK, ClaimSide, ClaimAnswer
<1>2. ASSUME NEW c \in Claims, ~ Filed(c)
      PROVE  /\ records[c]["claimant"] = 0 /\ records[c]["target"] = 0
             /\ answersWritten[c]["CONFIRMED"] = 0 /\ answersWritten[c]["DENIED"] = 0
             /\ claimStatus[c] = "PENDING"
  BY <1>2 DEF ClaimRowInv, ClaimRowOK, ClaimSide, ClaimAnswer
<1>3. ASSUME NEW c \in Claims, Filed(c)
      PROVE  target[c] \in Profiles /\ ClaimCount(target[c], c)
  BY <1>3 DEF ClaimRowInv, ClaimRowOK, ClaimsTypeOK, ClaimCountInv
<1>4. ASSUME NEW c \in Claims, NEW p \in Profiles
      PROVE  /\ Cardinality(TabsAt(p, c, "records")) \in Nat
             /\ Cardinality(TabsAt(p, c, "update")) \in Nat
  BY SomeTabs DEF TabsAt
<1>5. TrustIsConfirmed
  <2> SUFFICES ASSUME NEW c \in Claims
               PROVE  /\ records[c]["claimant"] = records[c]["target"]
                      /\ records[c]["claimant"] <= answersWritten[c]["CONFIRMED"]
                      /\ answersWritten[c]["CONFIRMED"] + answersWritten[c]["DENIED"]
                           <= Cardinality(OwnerTabs)
    BY DEF TrustIsConfirmed
  <2>1. CASE Filed(c)
    BY <1>1, <1>3, <1>4, <2>1 DEF ClaimCount, ClaimRowInv, ClaimRowOK
  <2>2. CASE ~ Filed(c)
    BY <1>1, <1>2, <2>2
  <2>3. QED BY <2>1, <2>2
<1>6. ConfirmedMeansRecorded
  <2> SUFFICES ASSUME NEW c \in Claims, Running(c) = {}, ~ Contested(c), c \notin cut
               PROVE  \A s \in ClaimSide : records[c][s] > 0 <=> claimStatus[c] = "CONFIRMED"
    BY DEF ConfirmedMeansRecorded
  <2>1. CASE Filed(c)
    <3>1. TabsAt(target[c], c, "records") = {}
      <4>1. ASSUME NEW t \in TabsAt(target[c], c, "records") PROVE FALSE
        <5>1. <<target[c], t>> \in Running(c)
          BY <1>3, <2>1 DEF TabsAt, Running, At
        <5>2. QED BY <5>1
      <4>2. QED BY <4>1
    <3>2. records[c]["claimant"] = answersWritten[c]["CONFIRMED"]
      <4>1. /\ ClaimCount(target[c], c) /\ records[c]["claimant"] \in Nat
            /\ Cardinality(TabsAt(target[c], c, "records")) = 0
        BY <1>1, <1>3, <2>1, <3>1, NoTabs
      <4>2. QED BY <4>1 DEF ClaimCount
    <3>3. /\ records[c]["claimant"] = records[c]["target"]
          /\ claimStatus[c] = "PENDING" => answersWritten[c]["CONFIRMED"] = 0
          /\ claimStatus[c] = "DENIED" => answersWritten[c]["DENIED"] > 0
          /\ claimStatus[c] = "CONFIRMED" => answersWritten[c]["CONFIRMED"] > 0
      BY DEF ClaimRowInv, ClaimRowOK, ClaimAnswer
    <3>4. QED BY <1>1, <3>2, <3>3 DEF Contested, ClaimSide, ClaimAnswer
  <2>2. CASE ~ Filed(c)
    BY <1>2, <2>2 DEF ClaimSide
  <2>3. QED BY <2>1, <2>2
<1>7. QED BY <1>5, <1>6 DEF ClaimsAreTrue

(***************************************************************************)
(* Two-sided trust (RelationshipClaimsService.respond): for any number of  *)
(* profiles, claims and tabs, both sides hold the same rows, never more    *)
(* than confirmations were written; the news and the audit log are true;   *)
(* and where nothing was cut short or answered both ways, a claim is       *)
(* CONFIRMED exactly when its rows are there.                              *)
(***************************************************************************)
THEOREM ClaimsTrue == ClaimsSpec => []ClaimsAreTrue
  BY ClaimsInvariant, ClaimsConclude, PTL

------------------------------------------------------------------------------
(* The step that SettledStaysSettled is about. *)
ClaimSettled(c) ==
    /\ claimStatus[c] # "PENDING" /\ ClaimDeciding(c) = {}
          => claimStatus'[c] = claimStatus[c] /\ ClaimDeciding(c)' = {}
    /\ Filed(c) => claimant'[c] = claimant[c] /\ target'[c] = target[c]

LEMMA DecidingIs ==
  ASSUME NEW c \in Claims
  PROVE  /\ ClaimDeciding(c) = {} <=> \A p \in Profiles, t \in OwnerTabs :
                ~ (claimReq[p][t].step = "update" /\ claimReq[p][t].claim = c)
         /\ ClaimDeciding(c)' = {} <=> \A p \in Profiles, t \in OwnerTabs :
                ~ (claimReq'[p][t].step = "update" /\ claimReq'[p][t].claim = c)
<1>1. ASSUME NEW p \in Profiles, NEW t \in OwnerTabs
      PROVE  /\ <<p, t>> \in ClaimDeciding(c) <=>
                   claimReq[p][t].step = "update" /\ claimReq[p][t].claim = c
             /\ <<p, t>> \in ClaimDeciding(c)' <=>
                   claimReq'[p][t].step = "update" /\ claimReq'[p][t].claim = c
  BY DEF ClaimDeciding, At
<1>2. /\ \A x \in ClaimDeciding(c) : \E p \in Profiles, t \in OwnerTabs : x = <<p, t>>
      /\ \A x \in ClaimDeciding(c)' : \E p \in Profiles, t \in OwnerTabs : x = <<p, t>>
  BY DEF ClaimDeciding
<1>3. QED BY <1>1, <1>2

(* Steps that start no answer and write none. *)
LEMMA QuietSettled ==
  ASSUME ClaimsInv, NEW p \in Profiles, NEW t \in OwnerTabs, NEW r \in ClaimRequest,
         ClaimBecome(p, t, r), r.step # "update", UNCHANGED <<claimant, target, claimStatus>>,
         NEW c \in Claims
  PROVE  ClaimSettled(c)
<1>1. ClaimDeciding(c) = {} => ClaimDeciding(c)' = {}
  <2> SUFFICES ASSUME ClaimDeciding(c) = {}, NEW q \in Profiles, NEW s \in OwnerTabs,
                      claimReq'[q][s].step = "update", claimReq'[q][s].claim = c
               PROVE  FALSE
    BY DecidingIs
  <2>1. claimReq'[q][s] = claimReq[q][s]
    BY ClaimBecoming DEF ClaimsInv
  <2>2. QED BY <2>1, DecidingIs
<1>2. QED BY <1>1 DEF ClaimSettled

LEMMA HandlerSettles ==
  ASSUME ClaimsInv, NEW p \in Profiles, NEW t \in OwnerTabs, ClaimHandler(p, t), NEW c \in Claims
  PROVE  ClaimSettled(c)
<1> USE DEF ClaimsInv
<1>0. claimReq[p][t] \in ClaimRequest
  BY DEF ClaimsTypeOK
<1>1. ASSUME NEW e \in Claims, NEW q \in Profiles, Create(p, t, e, q)
      PROVE  ClaimSettled(c)
  <2> DEFINE r == [step |-> "audit", claim |-> e, about |-> "created"]
  <2>1. /\ r \in ClaimRequest /\ r.step # "update" /\ ClaimBecome(p, t, r)
    BY <1>1 DEF Create, ClaimRequest, ClaimStep, Event
  <2> HIDE DEF r
  <2>2. /\ claimStatus' = claimStatus /\ ~ Filed(e)
        /\ c # e => claimant'[c] = claimant[c] /\ target'[c] = target[c]
    BY <1>1 DEF Create, ClaimsTypeOK
  <2>3. ClaimDeciding(c) = {} => ClaimDeciding(c)' = {}
    <3> SUFFICES ASSUME ClaimDeciding(c) = {}, NEW w \in Profiles, NEW s \in OwnerTabs,
                        claimReq'[w][s].step = "update", claimReq'[w][s].claim = c
                 PROVE  FALSE
      BY DecidingIs
    <3>1. claimReq'[w][s] = claimReq[w][s]
      BY <2>1, ClaimBecoming
    <3>2. QED BY <3>1, DecidingIs
  <2>4. QED BY <2>2, <2>3 DEF ClaimSettled
<1>2. ASSUME NEW e \in Claims, NEW a \in ClaimAnswer, CheckRespondClaim(p, t, e, a)
      PROVE  ClaimSettled(c)
  <2> DEFINE r == [step |-> "update", claim |-> e, about |-> a]
  <2>1. /\ r \in ClaimRequest /\ r.claim = e /\ ClaimBecome(p, t, r)
    BY <1>2 DEF CheckRespondClaim, ClaimRequest, ClaimStep, Event
  <2> HIDE DEF r
  <2>2. claimStatus[e] = "PENDING" /\ UNCHANGED <<claimant, target, claimStatus>>
    BY <1>2 DEF CheckRespondClaim, claimRows
  <2>3. ClaimDeciding(c) = {} /\ c # e => ClaimDeciding(c)' = {}
    <3> SUFFICES ASSUME ClaimDeciding(c) = {}, c # e, NEW w \in Profiles, NEW s \in OwnerTabs,
                        claimReq'[w][s].step = "update", claimReq'[w][s].claim = c
                 PROVE  FALSE
      BY DecidingIs
    <3>1. claimReq'[w][s] = claimReq[w][s]
      BY <2>1, ClaimBecoming
    <3>2. QED BY <3>1, DecidingIs
  <2>4. QED BY <2>2, <2>3 DEF ClaimSettled
<1>3. CASE WriteClaimAnswer(p, t)
  <2> DEFINE e == claimReq[p][t].claim
             step == IF claimReq[p][t].about = "CONFIRMED" THEN "records" ELSE "resolve"
  <2>1. /\ claimReq[p][t].step = "update" /\ e \in Claims /\ step \in ClaimStep /\ step # "update"
    BY <1>3 DEF WriteClaimAnswer, At, ClaimReqInv, ClaimReqOK, ClaimStep
  <2>2. PICK r \in ClaimRequest : r.step = step /\ ClaimBecome(p, t, r)
    BY <1>3, <2>1, ClaimGoing DEF WriteClaimAnswer
  <2>3. /\ c # e => claimStatus'[c] = claimStatus[c]
        /\ claimant' = claimant /\ target' = target
    BY <1>3 DEF WriteClaimAnswer, ClaimsTypeOK
  <2>4. ClaimDeciding(c) = {} => c # e
    BY <2>1, DecidingIs
  <2>5. ClaimDeciding(c) = {} => ClaimDeciding(c)' = {}
    <3> SUFFICES ASSUME ClaimDeciding(c) = {}, NEW w \in Profiles, NEW s \in OwnerTabs,
                        claimReq'[w][s].step = "update", claimReq'[w][s].claim = c
                 PROVE  FALSE
      BY DecidingIs
    <3>1. claimReq'[w][s] = claimReq[w][s]
      BY <2>1, <2>2, ClaimBecoming
    <3>2. QED BY <3>1, DecidingIs
  <2>6. QED BY <2>3, <2>4, <2>5 DEF ClaimSettled
<1>4. CASE RecordTwoSided(p, t)
  <2>1. PICK r \in ClaimRequest : r.step = "resolve" /\ ClaimBecome(p, t, r)
    BY <1>4, ClaimGoing DEF RecordTwoSided, ClaimStep
  <2>2. QED BY <1>4, <2>1, QuietSettled DEF RecordTwoSided, claimRows
<1>5. CASE TellClaimant(p, t)
  <2>1. PICK r \in ClaimRequest : r.step = "audit" /\ ClaimBecome(p, t, r)
    BY <1>5, ClaimGoing DEF TellClaimant, ClaimStep
  <2>2. QED BY <1>5, <2>1, QuietSettled DEF TellClaimant, claimRows
<1>6. CASE RecordClaimAudit(p, t)
  BY <1>6, IdleClaim, QuietSettled DEF RecordClaimAudit, claimRows
<1>7. CASE AbortClaim(p, t)
  BY <1>7, IdleClaim, QuietSettled DEF AbortClaim, claimRows
<1>8. QED BY <1>1, <1>2, <1>3, <1>4, <1>5, <1>6, <1>7 DEF ClaimHandler

LEMMA ClaimsSettle ==
  ASSUME ClaimsInv, [ClaimsNext]_claimsVars
  PROVE  [\A c \in Claims : ClaimSettled(c)]_claimsVars
  BY HandlerSettles DEF ClaimsNext

(***************************************************************************)
(* An answered claim stays as it is once the requests that still read it   *)
(* as PENDING have finished, and its parties never change.                 *)
(***************************************************************************)
THEOREM SettledStays == ClaimsSpec => SettledStaysSettled
<1>1. ClaimsInv /\ [ClaimsNext]_claimsVars => [\A c \in Claims :
          /\ claimStatus[c] # "PENDING" /\ ClaimDeciding(c) = {}
                => claimStatus'[c] = claimStatus[c] /\ ClaimDeciding(c)' = {}
          /\ Filed(c) => claimant'[c] = claimant[c] /\ target'[c] = target[c]]_claimsVars
  BY ClaimsSettle DEF ClaimSettled
<1>2. QED BY <1>1, ClaimsInvariant, PTL DEF ClaimsSpec, SettledStaysSettled

(***************************************************************************)
(* Part 3: the two side by side, as the run checks them.                   *)
(***************************************************************************)
LEMMA FilingsAreBoth == FilingsSpec => Spec /\ ClaimsSpec
<1>1. FilingsInit => Init /\ ClaimsInit
  BY DEF FilingsInit
<1>2. [FilingsNext]_<<turn, vars, claimsVars>> => [Next]_vars /\ [ClaimsNext]_claimsVars
  BY DEF FilingsNext
<1>3. QED BY <1>1, <1>2, PTL DEF FilingsSpec, Spec, ClaimsSpec

(* Whichever of the two a behaviour is about, its states are sound. *)
THEOREM FilingsSound == FilingsSpec => []FilingsAreSound
<1>1. TypeOK /\ ClaimsAreTrue => FilingsAreSound
  BY DEF FilingsAreSound
<1>2. QED BY <1>1, FilingsAreBoth, TypeCorrect, ClaimsTrue, PTL
==============================================================================

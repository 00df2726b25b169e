---------------------------- MODULE SessionsProofs ----------------------------
(***************************************************************************)
(* What is proved of one member's sessions at the API, for any tokens,     *)
(* links and requests.  The proofs about the browser build on it.          *)
(***************************************************************************)
EXTENDS Sessions, FiniteSetTheorems, TLAPS

(* Requests that have read a token and may still exchange it, and those that
   have read a link and may still use it. *)
Exchanging(k) == {r \in Requests : authReq[r].step \in {"revoke", "issue"} /\ authReq[r].from = k}
Resetting(l) == {r \in Requests : authReq[r].step = "reset" /\ authReq[r].link = l}

(* What a request has read of a row still holds, for no row comes back. *)
AuthReqOK(q) ==
    /\ q.step = "revoke" => q.from \in Tokens /\ token[q.from] # "none"
    /\ q.step = "issue" /\ q.from # NoToken => token[q.from] = "revoked"

(* A row that was used is used up, and each use was one request's. *)
TokenUses(k) ==
    /\ uses[k] > 0 => token[k] = "revoked"
    /\ uses[k] + Cardinality(Exchanging(k)) <= Cardinality(Requests)
LinkUses(l) ==
    /\ resets[l] > 0 => link[l] = "consumed"
    /\ resets[l] + Cardinality(Resetting(l)) <= Cardinality(Requests)

SessionsInv ==
    /\ SessionsTypeOK
    /\ \A r \in Requests : AuthReqOK(authReq[r])
    /\ \A k \in Tokens : TokenUses(k)
    /\ \A l \in Links : LinkUses(l)

LEMMA SomeRequests ==
  ASSUME NEW A \in SUBSET Requests
  PROVE  /\ Cardinality(A) \in Nat /\ Cardinality(Requests) \in Nat
         /\ Cardinality(A) <= Cardinality(Requests)
         /\ \A r \in A : Cardinality(A \ {r}) = Cardinality(A) - 1
         /\ \A r \in Requests : Cardinality(A \ {r}) <= Cardinality(A) /\ Cardinality(A \ {r}) \in Nat
         /\ Cardinality({}) = 0
<1>0. IsFiniteSet(Requests)
  BY SAssumption
<1>1. IsFiniteSet(A)
  BY <1>0, FS_Subset
<1>2. /\ Cardinality(A) \in Nat /\ Cardinality(Requests) \in Nat
      /\ Cardinality(A) <= Cardinality(Requests) /\ Cardinality({}) = 0
      /\ \A r \in A : Cardinality(A \ {r}) = Cardinality(A) - 1
  BY <1>0, <1>1, FS_Subset, FS_CardinalityType, FS_RemoveElement, FS_EmptySet
<1>3. ASSUME NEW r \in Requests
      PROVE  Cardinality(A \ {r}) <= Cardinality(A) /\ Cardinality(A \ {r}) \in Nat
  BY <1>1, FS_Subset, FS_CardinalityType
<1>4. QED BY <1>2, <1>3

LEMMA NoRequestIs == /\ NoRequest \in Request /\ NoRequest.step = "idle" /\ NoRequest.from = NoToken
                     /\ SomeLink \in Links
<1>1. SomeLink \in Links
  BY SAssumption DEF SomeLink
<1>2. QED BY <1>1 DEF NoRequest, Request, AuthStep

(* One request goes on, the others stay. *)
LEMMA Proceeding ==
  ASSUME SessionsTypeOK, NEW r \in Requests, NEW q \in Request, Proceed(r, q)
  PROVE  /\ authReq' \in [Requests -> Request]
         /\ authReq'[r] = q
         /\ \A s \in Requests \ {r} : authReq'[s] = authReq[s]
  BY DEF SessionsTypeOK, Proceed

LEMMA ExchangesMove ==
  ASSUME SessionsTypeOK, NEW r \in Requests, NEW q \in Request, Proceed(r, q), NEW k \in Tokens
  PROVE  IF q.step \in {"revoke", "issue"} /\ q.from = k
         THEN Exchanging(k)' = Exchanging(k) \union {r}
         ELSE /\ Exchanging(k)' = Exchanging(k) \ {r}
              /\ r \notin Exchanging(k) => Exchanging(k)' = Exchanging(k)
  BY Proceeding DEF Exchanging

LEMMA ResetsMove ==
  ASSUME SessionsTypeOK, NEW r \in Requests, NEW q \in Request, Proceed(r, q), NEW l \in Links
  PROVE  IF q.step = "reset" /\ q.link = l
         THEN Resetting(l)' = Resetting(l) \union {r}
         ELSE /\ Resetting(l)' = Resetting(l) \ {r}
              /\ r \notin Resetting(l) => Resetting(l)' = Resetting(l)
  BY Proceeding DEF Resetting

(* Steps of a request that change no row: one that takes up an exchange or a
   reset does so while nobody has finished one, or was at it already. *)
LEMMA OnlyProceeds ==
  ASSUME SessionsInv, NEW r \in Requests, NEW q \in Request, Proceed(r, q),
         UNCHANGED <<rows, history>>, AuthReqOK(q),
         q.step \in {"revoke", "issue"} /\ q.from \in Tokens => uses[q.from] = 0,
         q.step = "reset" => resets[q.link] = 0
  PROVE  SessionsInv'
<1> USE DEF SessionsInv, rows, history
<1>1. SessionsTypeOK'
  BY Proceeding DEF SessionsTypeOK
<1>2. ASSUME NEW s \in Requests PROVE AuthReqOK(authReq[s])'
  BY Proceeding DEF AuthReqOK
<1>3. ASSUME NEW k \in Tokens PROVE TokenUses(k)'
  <2>1. TokenUses(k) /\ uses[k] \in Nat
    BY DEF SessionsTypeOK
  <2>2. Exchanging(k) \in SUBSET Requests /\ Exchanging(k)' \in SUBSET Requests
    BY DEF Exchanging
  <2>3. Exchanging(k)' = Exchanging(k) \ {r} \/ uses[k] = 0
    BY ExchangesMove
  <2>4. uses[k] + Cardinality(Exchanging(k)') <= Cardinality(Requests)
    BY <2>1, <2>2, <2>3, SomeRequests DEF TokenUses
  <2>5. QED BY <2>1, <2>4 DEF TokenUses
<1>4. ASSUME NEW l \in Links PROVE LinkUses(l)'
  <2>1. LinkUses(l) /\ resets[l] \in Nat
    BY DEF SessionsTypeOK
  <2>2. Resetting(l) \in SUBSET Requests /\ Resetting(l)' \in SUBSET Requests
    BY DEF Resetting
  <2>3. Resetting(l)' = Resetting(l) \ {r} \/ resets[l] = 0
    BY ResetsMove
  <2>4. resets[l] + Cardinality(Resetting(l)') <= Cardinality(Requests)
    BY <2>1, <2>2, <2>3, SomeRequests DEF LinkUses
  <2>5. QED BY <2>1, <2>4 DEF LinkUses
<1>5. QED BY <1>1, <1>2, <1>3, <1>4

(* Rows that are revoked or run out, by anyone. *)
LEMMA OnlyRevokes ==
  ASSUME SessionsInv, UNCHANGED <<link, epoch, history, authReq>>, deleted' \in BOOLEAN,
         token' \in [Tokens -> {"none", "live", "revoked", "expired"}],
         \A k \in Tokens : \/ token'[k] = token[k]
                           \/ token[k] # "none" /\ token'[k] = "revoked"
                           \/ token[k] = "live" /\ token'[k] = "expired"
  PROVE  SessionsInv'
<1> USE DEF SessionsInv, history
<1>1. SessionsTypeOK'
  BY DEF SessionsTypeOK
<1>2. ASSUME NEW s \in Requests PROVE AuthReqOK(authReq[s])'
  <2>1. AuthReqOK(authReq[s]) /\ authReq[s].from \in Tokens \union {NoToken} /\ authReq' = authReq
    BY DEF SessionsTypeOK, Request
  <2>2. QED BY <2>1 DEF AuthReqOK
<1>3. ASSUME NEW k \in Tokens PROVE TokenUses(k)'
  <2>1. TokenUses(k) /\ Exchanging(k)' = Exchanging(k)
    BY DEF Exchanging
  <2>2. QED BY <2>1 DEF TokenUses
<1>4. ASSUME NEW l \in Links PROVE LinkUses(l)'
  <2>1. LinkUses(l) /\ Resetting(l)' = Resetting(l)
    BY DEF Resetting
  <2>2. QED BY <2>1 DEF LinkUses
<1>5. QED BY <1>1, <1>2, <1>3, <1>4

LEMMA LoginStep ==
  ASSUME SessionsInv, NEW r \in Requests, Login(r)
  PROVE  SessionsInv'
<1> DEFINE q == [NoRequest EXCEPT !.step = "issue", !.born = epoch]
<1>1. q \in Request /\ q.step = "issue" /\ q.from = NoToken
  BY NoRequestIs DEF Request, AuthStep, SessionsInv, SessionsTypeOK
<1>2. Proceed(r, q) /\ UNCHANGED <<rows, history>>
  BY DEF Login
<1> HIDE DEF q
<1>3. AuthReqOK(q)
  BY <1>1 DEF AuthReqOK
<1>4. QED BY <1>1, <1>2, <1>3, SAssumption, OnlyProceeds

LEMMA ReadTokenStep ==
  ASSUME SessionsInv, NEW r \in Requests, NEW k \in Tokens \union {NoToken}, ReadToken(r, k)
  PROVE  SessionsInv'
<1>1. CASE k \in Tokens /\ token[k] = "live"
  <2> DEFINE q == [NoRequest EXCEPT !.step = "revoke", !.from = k, !.born = born[k]]
  <2>1. q \in Request /\ q.step = "revoke" /\ q.from = k
    <3>1. born[k] \in Nat
      BY <1>1 DEF SessionsInv, SessionsTypeOK
    <3>2. QED BY <1>1, <3>1, NoRequestIs DEF Request, AuthStep
  <2>2. Proceed(r, q) /\ UNCHANGED <<rows, history>>
    BY <1>1 DEF ReadToken
  <2> HIDE DEF q
  <2>3. AuthReqOK(q)
    BY <1>1, <2>1, SAssumption DEF AuthReqOK
  <2>4. TokenUses(k) /\ uses[k] \in Nat
    BY <1>1 DEF SessionsInv, SessionsTypeOK
  <2>5. uses[k] = 0
    BY <1>1, <2>4 DEF TokenUses
  <2>6. QED BY <2>1, <2>2, <2>3, <2>5, OnlyProceeds
<1>2. CASE ~ (k \in Tokens /\ token[k] = "live")
  <2> DEFINE q == [NoRequest EXCEPT !.step = "refused", !.from = k]
  <2>1. q \in Request /\ q.step = "refused"
    BY NoRequestIs DEF Request, AuthStep
  <2>2. Proceed(r, q) /\ UNCHANGED <<rows, history>>
    BY <1>2 DEF ReadToken
  <2> HIDE DEF q
  <2>3. AuthReqOK(q)
    BY <2>1 DEF AuthReqOK
  <2>4. QED BY <2>1, <2>2, <2>3, OnlyProceeds
<1>3. QED BY <1>1, <1>2

LEMMA RevokeUsedStep ==
  ASSUME SessionsInv, NEW r \in Requests, RevokeUsed(r)
  PROVE  SessionsInv'
<1> USE DEF SessionsInv, history
<1> DEFINE f == authReq[r].from
           q == [authReq[r] EXCEPT !.step = "issue"]
<1>1. /\ authReq[r] \in Request /\ authReq[r].step = "revoke" /\ f \in Tokens /\ token[f] # "none"
  BY DEF RevokeUsed, At, SessionsTypeOK, AuthReqOK
<1>2. q \in Request /\ q.step = "issue" /\ q.from = f
  BY <1>1 DEF Request, AuthStep
<1>3. /\ token' = [token EXCEPT ![f] = "revoked"] /\ Proceed(r, q)
      /\ UNCHANGED <<link, deleted, epoch, born, root, uses, resets>>
  BY DEF RevokeUsed
<1> HIDE DEF q
<1>4. /\ token'[f] = "revoked" /\ \A k \in Tokens \ {f} : token'[k] = token[k]
      /\ token' \in [Tokens -> {"none", "live", "revoked", "expired"}]
  BY <1>1, <1>3 DEF SessionsTypeOK
<1>5. SessionsTypeOK'
  BY <1>2, <1>3, <1>4, Proceeding DEF SessionsTypeOK
<1>6. ASSUME NEW s \in Requests PROVE AuthReqOK(authReq[s])'
  <2>1. CASE s = r
    BY <1>1, <1>2, <1>3, <1>4, <2>1, Proceeding DEF AuthReqOK
  <2>2. CASE s # r
    <3>1. authReq'[s] = authReq[s] /\ AuthReqOK(authReq[s]) /\ authReq[s].from \in Tokens \union {NoToken}
      BY <1>2, <1>3, <2>2, Proceeding DEF SessionsTypeOK, Request
    <3>2. QED BY <1>4, <3>1 DEF AuthReqOK
  <2>3. QED BY <2>1, <2>2
<1>7. ASSUME NEW k \in Tokens PROVE TokenUses(k)'
  <2>1. r \in Exchanging(k) <=> k = f
    BY <1>1 DEF Exchanging
  <2>2. Exchanging(k)' = Exchanging(k)
    <3>1. CASE k = f
      BY <1>2, <1>3, <2>1, <3>1, ExchangesMove
    <3>2. CASE k # f
      BY <1>2, <1>3, <2>1, <3>2, ExchangesMove
    <3>3. QED BY <3>1, <3>2
  <2>3. TokenUses(k)
    OBVIOUS
  <2>4. QED BY <1>3, <1>4, <2>2, <2>3 DEF TokenUses
<1>8. ASSUME NEW l \in Links PROVE LinkUses(l)'
  <2>1. r \notin Resetting(l)
    BY <1>1 DEF Resetting
  <2>2. Resetting(l)' = Resetting(l)
    BY <1>2, <1>3, <2>1, ResetsMove
  <2>3. LinkUses(l)
    OBVIOUS
  <2>4. QED BY <1>3, <2>2, <2>3 DEF LinkUses
<1>9. QED BY <1>5, <1>6, <1>7, <1>8

LEMMA IssueStep ==
  ASSUME SessionsInv, NEW r \in Requests, NEW k \in Tokens, Issue(r, k)
  PROVE  SessionsInv'
<1> USE DEF SessionsInv
<1> DEFINE f == authReq[r].from
           q == [authReq[r] EXCEPT !.step = "granted", !.issued = k]
<1>1. /\ authReq[r] \in Request /\ authReq[r].step = "issue" /\ f \in Tokens \union {NoToken}
      /\ f # NoToken => token[f] = "revoked"
      /\ token[k] = "none"
  BY DEF Issue, At, SessionsTypeOK, AuthReqOK, Request
<1>2. q \in Request /\ q.step = "granted"
  BY <1>1 DEF Request, AuthStep
<1>3. /\ token' = [token EXCEPT ![k] = "live"] /\ Proceed(r, q)
      /\ born' = [born EXCEPT ![k] = authReq[r].born]
      /\ root' = [root EXCEPT ![k] = IF f = NoToken THEN k ELSE root[f]]
      /\ uses' = IF f = NoToken THEN uses ELSE [uses EXCEPT ![f] = @ + 1]
      /\ UNCHANGED <<link, deleted, epoch, resets>>
  BY DEF Issue
<1> HIDE DEF q
<1>4. /\ token'[k] = "live" /\ \A j \in Tokens \ {k} : token'[j] = token[j]
      /\ token' \in [Tokens -> {"none", "live", "revoked", "expired"}]
  BY <1>1, <1>3 DEF SessionsTypeOK
<1>5. /\ \A j \in Tokens : uses[j] \in Nat
      /\ \A j \in Tokens : uses'[j] = IF f # NoToken /\ j = f THEN uses[j] + 1 ELSE uses[j]
      /\ uses' \in [Tokens -> Nat]
  BY <1>1, <1>3 DEF SessionsTypeOK
<1>6. SessionsTypeOK'
  <2>1. born' \in [Tokens -> Nat]
    BY <1>1, <1>3 DEF SessionsTypeOK, Request
  <2>2. root' \in [Tokens -> Tokens \union {NoToken}]
    BY <1>1, <1>3 DEF SessionsTypeOK
  <2>3. QED BY <1>2, <1>3, <1>4, <1>5, <2>1, <2>2, Proceeding DEF SessionsTypeOK
<1>7. ASSUME NEW s \in Requests PROVE AuthReqOK(authReq[s])'
  <2>1. CASE s = r
    BY <1>2, <1>3, <2>1, Proceeding DEF AuthReqOK
  <2>2. CASE s # r
    <3>1. authReq'[s] = authReq[s] /\ AuthReqOK(authReq[s]) /\ authReq[s].from \in Tokens \union {NoToken}
      BY <1>2, <1>3, <2>2, Proceeding DEF SessionsTypeOK, Request
    <3>2. QED BY <1>1, <1>4, <3>1 DEF AuthReqOK
  <2>3. QED BY <2>1, <2>2
<1>8. ASSUME NEW j \in Tokens PROVE TokenUses(j)'
  <2>1. TokenUses(j) /\ Exchanging(j) \in SUBSET Requests
    BY DEF Exchanging
  <2>2. r \in Exchanging(j) <=> j = f
    BY <1>1 DEF Exchanging
  <2>3. Exchanging(j)' = Exchanging(j) \ {r}
    BY <1>2, <1>3, ExchangesMove
  <2>4. Cardinality(Exchanging(j)') = IF j = f THEN Cardinality(Exchanging(j)) - 1
                                      ELSE Cardinality(Exchanging(j))
    <3>1. CASE j = f
      BY <2>1, <2>2, <2>3, <3>1, SomeRequests
    <3>2. CASE j # f
      <4>1. Exchanging(j)' = Exchanging(j)
        BY <2>2, <2>3, <3>2
      <4>2. QED BY <3>2, <4>1
    <3>3. QED BY <3>1, <3>2
  <2>5. Cardinality(Exchanging(j)) \in Nat /\ Cardinality(Requests) \in Nat /\ NoToken # j
    BY <2>1, SomeRequests, SAssumption
  <2>6. uses'[j] > 0 => token'[j] = "revoked"
    BY <1>1, <1>4, <1>5, <2>1 DEF TokenUses
  <2>7. uses'[j] + Cardinality(Exchanging(j)') <= Cardinality(Requests)
    BY <1>5, <2>1, <2>4, <2>5 DEF TokenUses
  <2>8. QED BY <2>6, <2>7 DEF TokenUses
<1>9. ASSUME NEW l \in Links PROVE LinkUses(l)'
  <2>1. r \notin Resetting(l)
    BY <1>1 DEF Resetting
  <2>2. Resetting(l)' = Resetting(l)
    BY <1>2, <1>3, <2>1, ResetsMove
  <2>3. LinkUses(l)
    OBVIOUS
  <2>4. QED BY <1>3, <2>2, <2>3 DEF LinkUses
<1>10. QED BY <1>6, <1>7, <1>8, <1>9

LEMMA EndStep ==
  ASSUME SessionsInv, NEW r \in Requests, Answer(r) \/ Abort(r)
  PROVE  SessionsInv'
<1>1. CASE Answer(r)
  <2>1. Proceed(r, NoRequest) /\ UNCHANGED <<rows, history>>
    BY <1>1 DEF Answer
  <2>2. AuthReqOK(NoRequest)
    BY NoRequestIs DEF AuthReqOK
  <2>3. QED BY <2>1, <2>2, NoRequestIs, OnlyProceeds
<1>2. CASE Abort(r)
  <2> DEFINE q == [NoRequest EXCEPT !.step = "refused", !.from = authReq[r].from]
  <2>1. q \in Request /\ q.step = "refused"
    BY NoRequestIs DEF Request, AuthStep, SessionsInv, SessionsTypeOK
  <2>2. Proceed(r, q) /\ UNCHANGED <<rows, history>>
    BY <1>2 DEF Abort
  <2> HIDE DEF q
  <2>3. AuthReqOK(q)
    BY <2>1 DEF AuthReqOK
  <2>4. QED BY <2>1, <2>2, <2>3, OnlyProceeds
<1>3. QED BY <1>1, <1>2

LEMMA ReadLinkStep ==
  ASSUME SessionsInv, NEW r \in Requests, NEW l \in Links, ReadLink(r, l)
  PROVE  SessionsInv'
<1> DEFINE q == [NoRequest EXCEPT !.step = "reset", !.link = l]
<1>1. q \in Request /\ q.step = "reset" /\ q.link = l
  BY NoRequestIs DEF Request, AuthStep
<1>2. Proceed(r, q) /\ UNCHANGED <<rows, history>> /\ link[l] = "sent"
  BY DEF ReadLink
<1> HIDE DEF q
<1>3. AuthReqOK(q) /\ resets[l] = 0
  BY <1>1, <1>2 DEF AuthReqOK, SessionsInv, LinkUses, SessionsTypeOK
<1>4. QED BY <1>1, <1>2, <1>3, OnlyProceeds

LEMMA CommitResetStep ==
  ASSUME SessionsInv, NEW r \in Requests, CommitReset(r)
  PROVE  SessionsInv'
<1> USE DEF SessionsInv
<1> DEFINE e == authReq[r].link
<1>1. authReq[r] \in Request /\ authReq[r].step = "reset" /\ e \in Links
  BY DEF CommitReset, At, SessionsTypeOK, Request
<1>2. /\ epoch' = epoch + 1 /\ Proceed(r, NoRequest)
      /\ link' = [link EXCEPT ![e] = "consumed"] /\ resets' = [resets EXCEPT ![e] = @ + 1]
      /\ token' = RevokedAll(Tokens)
      /\ UNCHANGED <<deleted, born, root, uses>>
  BY DEF CommitReset
<1>3. /\ \A k \in Tokens : token'[k] = IF token[k] = "none" THEN "none" ELSE "revoked"
      /\ token' \in [Tokens -> {"none", "live", "revoked", "expired"}]
  BY <1>2 DEF RevokedAll, SessionsTypeOK
<1>4. /\ \A l \in Links : resets[l] \in Nat
      /\ \A l \in Links : resets'[l] = IF l = e THEN resets[l] + 1 ELSE resets[l]
      /\ \A l \in Links : link'[l] = IF l = e THEN "consumed" ELSE link[l]
      /\ resets' \in [Links -> Nat]
      /\ link' \in [Links -> {"none", "sent", "consumed", "expired"}]
  BY <1>1, <1>2 DEF SessionsTypeOK
<1>5. SessionsTypeOK'
  BY <1>2, <1>3, <1>4, NoRequestIs, Proceeding DEF SessionsTypeOK
<1>6. ASSUME NEW s \in Requests PROVE AuthReqOK(authReq[s])'
  <2>1. CASE s = r
    BY <1>2, <2>1, NoRequestIs, Proceeding DEF AuthReqOK
  <2>2. CASE s # r
    <3>1. authReq'[s] = authReq[s] /\ AuthReqOK(authReq[s]) /\ authReq[s].from \in Tokens \union {NoToken}
      BY <1>2, <2>2, NoRequestIs, Proceeding DEF SessionsTypeOK, Request
    <3>2. QED BY <1>3, <3>1 DEF AuthReqOK
  <2>3. QED BY <2>1, <2>2
<1>7. ASSUME NEW k \in Tokens PROVE TokenUses(k)'
  <2>1. r \notin Exchanging(k)
    BY <1>1 DEF Exchanging
  <2>2. Exchanging(k)' = Exchanging(k)
    BY <1>2, <2>1, NoRequestIs, ExchangesMove
  <2>3. TokenUses(k)
    OBVIOUS
  <2>4. QED BY <1>2, <1>3, <2>2, <2>3 DEF TokenUses
<1>8. ASSUME NEW l \in Links PROVE LinkUses(l)'
  <2>1. LinkUses(l) /\ Resetting(l) \in SUBSET Requests
    BY DEF Resetting
  <2>2. r \in Resetting(l) <=> l = e
    BY <1>1 DEF Resetting
  <2>3. Resetting(l)' = Resetting(l) \ {r}
    BY <1>2, NoRequestIs, ResetsMove
  <2>4. Cardinality(Resetting(l)') = IF l = e THEN Cardinality(Resetting(l)) - 1
                                     ELSE Cardinality(Resetting(l))
    <3>1. CASE l = e
      BY <2>1, <2>2, <2>3, <3>1, SomeRequests
    <3>2. CASE l # e
      <4>1. Resetting(l)' = Resetting(l)
        BY <2>2, <2>3, <3>2
      <4>2. QED BY <3>2, <4>1
    <3>3. QED BY <3>1, <3>2
  <2>5. Cardinality(Resetting(l)) \in Nat /\ Cardinality(Requests) \in Nat
    BY <2>1, SomeRequests
  <2>6. resets'[l] + Cardinality(Resetting(l)') <= Cardinality(Requests)
    BY <1>4, <2>1, <2>4, <2>5 DEF LinkUses
  <2>7. QED BY <1>4, <2>1, <2>6 DEF LinkUses
<1>9. QED BY <1>5, <1>6, <1>7, <1>8

LEMMA LinkRowStep ==
  ASSUME SessionsInv, NEW l \in Links, RequestReset(l) \/ ExpireLink(l)
  PROVE  SessionsInv'
<1> USE DEF SessionsInv, history
<1>1. /\ link[l] # "consumed" /\ UNCHANGED <<token, deleted, epoch, history, authReq>>
      /\ link' = [link EXCEPT ![l] = "sent"] \/ link' = [link EXCEPT ![l] = "expired"]
  BY DEF RequestReset, ExpireLink
<1>2. /\ \A m \in Links \ {l} : link'[m] = link[m]
      /\ link' \in [Links -> {"none", "sent", "consumed", "expired"}]
  BY <1>1 DEF SessionsTypeOK
<1>3. SessionsTypeOK'
  BY <1>1, <1>2 DEF SessionsTypeOK
<1>4. ASSUME NEW s \in Requests PROVE AuthReqOK(authReq[s])'
  BY <1>1 DEF AuthReqOK
<1>5. ASSUME NEW k \in Tokens PROVE TokenUses(k)'
  BY <1>1 DEF TokenUses, Exchanging
<1>6. ASSUME NEW m \in Links PROVE LinkUses(m)'
  <2>1. LinkUses(m) /\ Resetting(m)' = Resetting(m) /\ resets[m] \in Nat
    BY <1>1 DEF Resetting, SessionsTypeOK
  <2>2. resets'[m] > 0 => link'[m] = "consumed"
    BY <1>1, <1>2, <2>1 DEF LinkUses
  <2>3. QED BY <1>1, <2>1, <2>2 DEF LinkUses
<1>7. QED BY <1>3, <1>4, <1>5, <1>6

LEMMA RevokeSteps ==
  ASSUME SessionsInv,
         \/ SoftDelete
         \/ \E k \in Tokens : Logout(k) \/ RevokeSession(k) \/ RevokeOthers(k) \/ Expire(k)
  PROVE  SessionsInv'
<1>1. UNCHANGED <<link, epoch, history, authReq>> /\ deleted' \in BOOLEAN
  BY DEF SoftDelete, Logout, RevokeSession, RevokeOthers, Expire, SessionsInv, SessionsTypeOK
<1>2. /\ token' \in [Tokens -> {"none", "live", "revoked", "expired"}]
      /\ \A k \in Tokens : \/ token'[k] = token[k]
                           \/ token[k] # "none" /\ token'[k] = "revoked"
                           \/ token[k] = "live" /\ token'[k] = "expired"
  BY DEF SoftDelete, Logout, RevokeSession, RevokeOthers, Expire, RevokedAll, SessionsInv,
     SessionsTypeOK
<1>3. QED BY <1>1, <1>2, OnlyRevokes

LEMMA SessionsInitially == SessionsInit => SessionsInv
<1> SUFFICES ASSUME SessionsInit PROVE SessionsInv
  OBVIOUS
<1>1. SessionsTypeOK
  BY NoRequestIs DEF SessionsInit, SessionsTypeOK
<1>2. ASSUME NEW s \in Requests PROVE AuthReqOK(authReq[s])
  BY NoRequestIs DEF SessionsInit, AuthReqOK
<1>3. ASSUME NEW k \in Tokens PROVE TokenUses(k)
  <2>1. Exchanging(k) = {}
    BY NoRequestIs DEF SessionsInit, Exchanging
  <2>2. QED BY <2>1, SomeRequests DEF SessionsInit, TokenUses
<1>4. ASSUME NEW l \in Links PROVE LinkUses(l)
  <2>1. Resetting(l) = {}
    BY NoRequestIs DEF SessionsInit, Resetting
  <2>2. QED BY <2>1, SomeRequests DEF SessionsInit, LinkUses
<1>5. QED BY <1>1, <1>2, <1>3, <1>4 DEF SessionsInv

LEMMA SessionsStep == SessionsInv /\ [SessionsNext]_serverVars => SessionsInv'
<1> SUFFICES ASSUME SessionsInv, [SessionsNext]_serverVars PROVE SessionsInv'
  OBVIOUS
<1>1. ASSUME NEW r \in Requests, Session(r) PROVE SessionsInv'
  BY <1>1, LoginStep, ReadTokenStep, RevokeUsedStep, IssueStep, EndStep, ReadLinkStep,
     CommitResetStep DEF Session
<1>2. CASE UNCHANGED serverVars
  <2> USE <1>2 DEF serverVars, rows, history, SessionsInv
  <2>1. SessionsTypeOK'
    BY DEF SessionsTypeOK
  <2>2. \A s \in Requests : AuthReqOK(authReq[s])'
    BY DEF AuthReqOK
  <2>3. \A k \in Tokens : TokenUses(k)'
    BY DEF TokenUses, Exchanging
  <2>4. \A l \in Links : LinkUses(l)'
    BY DEF LinkUses, Resetting
  <2>5. QED BY <2>1, <2>2, <2>3, <2>4
<1>3. QED BY <1>1, <1>2, RevokeSteps, LinkRowStep DEF SessionsNext

(* A used token or link is used up, and every use was a request's own. *)
THEOREM SessionsInvariant == SessionsSpec => []SessionsInv
  BY SessionsInitially, SessionsStep, PTL DEF SessionsSpec

(***************************************************************************)
(* Exchanges (SessionService and PasswordResetService): for any number of  *)
(* requests, tokens and links, one that was exchanged is dead, and was     *)
(* exchanged no more often than requests ran at once.                      *)
(***************************************************************************)
THEOREM ExchangesAreBounded == SessionsSpec => []ExchangesBounded
<1>1. SessionsInv => ExchangesBounded
  <2> SUFFICES ASSUME SessionsInv PROVE ExchangesBounded
    OBVIOUS
  <2>1. ASSUME NEW k \in Tokens
        PROVE  (uses[k] > 0 => token[k] # "live") /\ uses[k] <= Cardinality(Requests)
    <3>1. TokenUses(k) /\ uses[k] \in Nat /\ Exchanging(k) \in SUBSET Requests
      BY DEF SessionsInv, SessionsTypeOK, Exchanging
    <3>2. QED BY <3>1, SomeRequests DEF TokenUses
  <2>2. ASSUME NEW l \in Links
        PROVE  (resets[l] > 0 => link[l] # "sent") /\ resets[l] <= Cardinality(Requests)
    <3>1. LinkUses(l) /\ resets[l] \in Nat /\ Resetting(l) \in SUBSET Requests
      BY DEF SessionsInv, SessionsTypeOK, Resetting
    <3>2. QED BY <3>1, SomeRequests DEF LinkUses
  <2>3. QED BY <2>1, <2>2 DEF ExchangesBounded
<1>2. QED BY <1>1, SessionsInvariant, PTL

(* A step that issues no token keeps what was ended ended. *)
LEMMA EndingStep ==
  ASSUME SessionsInv, [SessionsNext]_serverVars, Leftover = {}, Carrying = {}
  PROVE  Leftover' = {}
<1> USE DEF SessionsInv
<1>1. ASSUME NEW j \in Tokens, token[j] = "live" PROVE born[j] = epoch /\ ~ deleted
  BY <1>1 DEF Leftover, Live, SessionsTypeOK
<1>2. SUFFICES ASSUME NEW j \in Tokens, token'[j] = "live"
               PROVE  born'[j] = epoch' /\ ~ deleted'
  BY DEF Leftover, Live
<1>3. ASSUME UNCHANGED <<born, epoch, deleted>>, token[j] = "live"
      PROVE  born'[j] = epoch' /\ ~ deleted'
  BY <1>1, <1>3
<1>4. ASSUME NEW r \in Requests, NEW k \in Tokens, Issue(r, k)
      PROVE  born'[j] = epoch' /\ ~ deleted'
  <2>1. /\ token' = [token EXCEPT ![k] = "live"] /\ born' = [born EXCEPT ![k] = authReq[r].born]
        /\ epoch' = epoch /\ deleted' = deleted /\ authReq[r].step = "issue"
    BY <1>4 DEF Issue, At
  <2>2. authReq[r].born = epoch /\ ~ deleted
    BY <2>1 DEF Carrying, SessionsTypeOK
  <2>3. CASE j = k
    BY <2>1, <2>2, <2>3 DEF SessionsTypeOK
  <2>4. CASE j # k
    BY <1>1, <1>2, <2>1, <2>4 DEF SessionsTypeOK
  <2>5. QED BY <2>3, <2>4
<1>5. ASSUME NEW r \in Requests, CommitReset(r) PROVE FALSE
  BY <1>2, <1>5 DEF CommitReset, RevokedAll
<1>6. CASE SoftDelete
  BY <1>2, <1>6 DEF SoftDelete, RevokedAll
<1>7. ASSUME NEW r \in Requests, RevokeUsed(r) PROVE born'[j] = epoch' /\ ~ deleted'
  <2>1. UNCHANGED <<born, epoch, deleted>> /\ token' = [token EXCEPT ![authReq[r].from] = "revoked"]
    BY <1>7 DEF RevokeUsed, history
  <2>2. token[j] = "live"
    BY <1>2, <2>1 DEF SessionsTypeOK
  <2>3. QED BY <1>3, <2>1, <2>2
<1>8. ASSUME NEW k \in Tokens, Logout(k) \/ RevokeSession(k) \/ RevokeOthers(k) \/ Expire(k)
      PROVE  born'[j] = epoch' /\ ~ deleted'
  <2>1. UNCHANGED <<born, epoch, deleted>>
    BY <1>8 DEF Logout, RevokeSession, RevokeOthers, Expire, history
  <2>2. token[j] = "live"
    BY <1>2, <1>8 DEF Logout, RevokeSession, RevokeOthers, Expire, RevokedAll, SessionsTypeOK
  <2>3. QED BY <1>3, <2>1, <2>2
<1>9. ASSUME NEW r \in Requests,
             \/ Login(r) \/ \E k \in Tokens : ReadToken(r, k)
             \/ Answer(r) \/ Abort(r) \/ \E l \in Links : ReadLink(r, l)
      PROVE  born'[j] = epoch' /\ ~ deleted'
  <2>1. UNCHANGED <<token, born, epoch, deleted>>
    BY <1>9 DEF Login, ReadToken, Answer, Abort, ReadLink, rows, history
  <2>2. QED BY <1>2, <1>3, <2>1
<1>10. ASSUME NEW l \in Links, RequestReset(l) \/ ExpireLink(l)
       PROVE  born'[j] = epoch' /\ ~ deleted'
  BY <1>2, <1>3, <1>10 DEF RequestReset, ExpireLink, history
<1>11. CASE UNCHANGED serverVars
  BY <1>2, <1>3, <1>11 DEF serverVars, rows, history
<1>12. QED BY <1>4, <1>5, <1>6, <1>7, <1>8, <1>9, <1>10, <1>11 DEF SessionsNext, Session

(***************************************************************************)
(* A password reset or a deletion ends every session for good, except for  *)
(* what requests already past their check can still issue.                 *)
(***************************************************************************)
THEOREM EndedStays == SessionsSpec => EndedStaysEnded
<1>1. SessionsInv /\ [SessionsNext]_serverVars =>
         [Leftover = {} /\ Carrying = {} => Leftover' = {}]_serverVars
  BY EndingStep
<1>2. QED BY <1>1, SessionsInvariant, PTL DEF SessionsSpec, EndedStaysEnded

==============================================================================

------------------------- MODULE DocumentGrantsProofs -------------------------
(* TLAPS proofs about DocumentGrants, for any number of documents, viewers and
   requests in flight, and for any bounds on days, grants and views. *)
EXTENDS DocumentGrants, FiniteSetTheorems, TLAPS

(* A request that becomes another one leaves the rest as they are. *)
LEMMA Becoming ==
  ASSUME TypeOK, NEW u \in Callers, NEW t \in Tabs, NEW r \in Request, Become(u, t, r)
  PROVE  /\ req' \in [Callers -> [Tabs -> Request]]
         /\ req'[u][t] = r
         /\ \A w \in Callers, s \in Tabs : w # u \/ s # t => req'[w][s] = req[w][s]
  BY DEF TypeOK, Become

LEMMA IdleType == Idle \in Request /\ Idle.step = "idle"
  BY DGAssumption DEF Idle, Request, Step, Action

(* The kinds of requests, by what they do to req. *)
LEMMA BeginType ==
  ASSUME TypeOK, NEW u \in Callers, NEW t \in Tabs, NEW step \in Step, NEW d \in Docs,
         NEW v \in Viewers, NEW did \in Action, Begin(u, t, step, d, v, did)
  PROVE  \E r \in Request :
            /\ r = [step |-> step, doc |-> d, viewer |-> v,
                    round |-> IF step = "accept" THEN round[d][v] ELSE 0, did |-> did]
            /\ Become(u, t, r)
  BY DGAssumption DEF TypeOK, Begin, Request

LEMMA GotoType ==
  ASSUME TypeOK, NEW u \in Callers, NEW t \in Tabs, NEW step \in Step, Goto(u, t, step)
  PROVE  \E r \in Request :
            /\ r.step = step /\ r.doc = req[u][t].doc /\ r.viewer = req[u][t].viewer
            /\ r.round = req[u][t].round /\ r.did = req[u][t].did
            /\ Become(u, t, r)
<1> DEFINE r == [req[u][t] EXCEPT !.step = step]
<1>1. req[u][t] \in Request
  BY DEF TypeOK
<1>2. r \in Request /\ r.step = step /\ r.doc = req[u][t].doc /\ r.viewer = req[u][t].viewer
      /\ r.round = req[u][t].round /\ r.did = req[u][t].did
  BY <1>1 DEF Request
<1>3. Become(u, t, r)
  BY DEF Goto
<1> HIDE DEF r
<1>4. QED BY <1>2, <1>3

LEMMA DoneType ==
  ASSUME NEW u \in Callers, NEW t \in Tabs, Done(u, t)
  PROVE  \E r \in Request : r.step = "idle" /\ Become(u, t, r)
  BY IdleType DEF Done

------------------------------------------------------------------------------
(* Why the properties hold, as an inductive invariant.  v may have d: it was
   shared, without NDA or with one v accepted. *)
Shared(d, v) == round[d][v] > 0 /\ (lax[d][v] \/ consent[d][v] > 0)

(* What a row says is on record, and links were handed out for a cause. *)
GrantInv ==
    \A d \in Docs, v \in Viewers :
        /\ grant[d][v].live =>
              /\ round[d][v] > 0
              /\ ~ grant[d][v].requireNda => lax[d][v]
              /\ grant[d][v].accepted => consent[d][v] > 0
        /\ opens[d][v] > 0 => Shared(d, v)
        /\ doc[d] = "absent" => round[d][v] = 0 /\ opens[d][v] = 0 /\ views[d][v] = 0

(* What a request has read or done still holds, for nothing is unshared. *)
OwnersOK(r) ==
    /\ r.step \in {"idle", "delete", "upsert", "revoke", "audit"}
    /\ r.step = "delete" => r.did = "deleted"
    /\ r.step = "upsert" => r.did = "granted"
    /\ r.step = "revoke" => round[r.doc][r.viewer] > 0 /\ r.did = "revoked"
    /\ r.step = "audit" =>
          /\ r.did = "deleted" => doc[r.doc] = "deleted"
          /\ r.did \in {"granted", "revoked"} => round[r.doc][r.viewer] > 0

ViewersOK(v, r) ==
    /\ r.step \in {"idle", "accept", "view", "sign"}
    /\ r.step = "accept" => r.round > 0
    /\ r.step \in {"view", "sign"} => doc[r.doc] # "absent" /\ Shared(r.doc, v)

ReqInv ==
    /\ \A t \in Tabs : OwnersOK(req[Owner][t])
    /\ \A v \in Viewers, t \in Tabs : ViewersOK(v, req[v][t])

(* A view is logged before the link that it is logged for. *)
Signing(d, v) == {t \in Tabs : req[v][t].step = "sign" /\ req[v][t].doc = d}

CountInv ==
    \A d \in Docs, v \in Viewers :
        doc[d] = "stored" => opens[d][v] + Cardinality(Signing(d, v)) <= views[d][v]

AuditInv ==
    \A d \in Docs :
        /\ "deleted" \in audit[d] => doc[d] = "deleted"
        /\ "granted" \in audit[d] => \E v \in Viewers : round[d][v] > 0
        /\ "revoked" \in audit[d] => \E v \in Viewers : round[d][v] > 0

RoomInv == TypeOK /\ GrantInv /\ ReqInv /\ CountInv /\ AuditInv /\ DeletedLeavesNothing

(* What no step takes back. *)
Onward ==
    /\ \A d \in Docs :
          /\ doc[d] = "deleted" => doc'[d] = "deleted"
          /\ doc[d] # "absent" => doc'[d] # "absent"
    /\ \A d \in Docs, v \in Viewers :
          /\ round[d][v] > 0 => round'[d][v] > 0
          /\ Shared(d, v) => Shared(d, v)'

LEMMA ReqKept ==
  ASSUME TypeOK, ReqInv, Onward, NEW u \in Callers, NEW t \in Tabs, NEW r \in Request,
         Become(u, t, r), u = Owner => OwnersOK(r)', u \in Viewers => ViewersOK(u, r)'
  PROVE  ReqInv'
<1>1. ASSUME NEW w \in Callers, NEW s \in Tabs
      PROVE  \/ w = u /\ s = t /\ req'[w][s] = r
             \/ req'[w][s] = req[w][s] /\ req[w][s] \in Request
  BY Becoming DEF TypeOK
<1>2. ASSUME NEW s \in Tabs
      PROVE  OwnersOK(req[Owner][s])'
  <2>1. CASE Owner = u /\ s = t /\ req'[Owner][s] = r
    BY <2>1 DEF OwnersOK
  <2>2. CASE req'[Owner][s] = req[Owner][s] /\ req[Owner][s] \in Request
    BY <2>2 DEF ReqInv, OwnersOK, Onward, Request
  <2>3. QED BY <1>1, <2>1, <2>2 DEF Callers
<1>3. ASSUME NEW v \in Viewers, NEW s \in Tabs
      PROVE  ViewersOK(v, req[v][s])'
  <2>1. CASE v = u /\ s = t /\ req'[v][s] = r
    BY <2>1 DEF ViewersOK, Shared
  <2>2. CASE req'[v][s] = req[v][s] /\ req[v][s] \in Request
    BY <2>2 DEF ReqInv, ViewersOK, Onward, Request, Shared
  <2>3. QED BY <1>1, <2>1, <2>2 DEF Callers
<1>4. QED BY <1>2, <1>3 DEF ReqInv

(* Steps that write no row: the request alone moves. *)
LEMMA CountKept ==
  ASSUME TypeOK, CountInv, NEW u \in Callers, NEW t \in Tabs, NEW r \in Request,
         Become(u, t, r), r.step # "sign", UNCHANGED <<doc, opens, views>>
  PROVE  CountInv'
<1> SUFFICES ASSUME NEW d \in Docs, NEW v \in Viewers, doc[d] = "stored"
             PROVE  opens[d][v] + Cardinality(Signing(d, v)') <= views[d][v]
  BY DEF CountInv
<1>1. Signing(d, v)' \subseteq Signing(d, v)
  BY Becoming DEF Signing, Callers
<1>2. IsFiniteSet(Signing(d, v))
  BY DGAssumption, FS_Subset DEF Signing
<1>3. Cardinality(Signing(d, v)') <= Cardinality(Signing(d, v))
  BY <1>1, <1>2, FS_Subset
<1>4. Cardinality(Signing(d, v)') \in Nat /\ Cardinality(Signing(d, v)) \in Nat
  BY <1>1, <1>2, FS_Subset, FS_CardinalityType
<1>5. opens[d][v] \in Nat /\ views[d][v] \in Nat
  BY DGAssumption DEF TypeOK
<1>6. QED BY <1>3, <1>4, <1>5 DEF CountInv

LEMMA StillOnward == ASSUME UNCHANGED <<doc, round, lax, consent>> PROVE Onward
  BY DEF Onward, Shared

(* A request that only reads. *)
LEMMA ReadsOnly ==
  ASSUME RoomInv, NEW u \in Callers, NEW t \in Tabs, NEW r \in Request,
         Become(u, t, r), r.step # "sign", UNCHANGED <<now, rows, opens, audit, history>>,
         u = Owner => OwnersOK(r), u \in Viewers => ViewersOK(u, r)
  PROVE  RoomInv'
<1> USE DEF RoomInv, rows, history
<1>1. TypeOK'
  BY Becoming DEF TypeOK
<1>2. CountInv'
  BY CountKept
<1>3. Onward
  BY StillOnward
<1>4. ReqInv'
  <2>1. (u = Owner => OwnersOK(r)') /\ (u \in Viewers => ViewersOK(u, r)')
    BY DEF OwnersOK, ViewersOK, Shared
  <2>2. QED BY <1>3, <2>1, ReqKept
<1>5. GrantInv' /\ AuditInv' /\ DeletedLeavesNothing'
  BY DEF GrantInv, AuditInv, DeletedLeavesNothing, Shared
<1>6. QED BY <1>1, <1>2, <1>4, <1>5

------------------------------------------------------------------------------
(* The steps of the invariant, one lemma per action or group of actions. *)
LEMMA OwnerOrViewer == /\ Owner \in Callers /\ Owner \notin Viewers
                       /\ \A v \in Viewers : v \in Callers /\ v # Owner
  BY DGAssumption DEF Callers

LEMMA CheckSteps ==
  ASSUME RoomInv, NEW t \in Tabs, NEW d \in Docs, NEW v \in Viewers,
         CheckRemove(t, d) \/ CheckGrant(t, d, v) \/ CheckRevoke(t, d, v)
         \/ CheckAccept(v, t, d) \/ CheckAccess(v, t, d)
  PROVE  RoomInv'
<1> USE DEF RoomInv
<1>1. CASE CheckRemove(t, d)
  <2>1. PICK w \in Viewers : Begin(Owner, t, "delete", d, w, "deleted")
    BY <1>1 DEF CheckRemove
  <2>2. PICK r \in Request :
           /\ r = [step |-> "delete", doc |-> d, viewer |-> w, round |-> 0, did |-> "deleted"]
           /\ Become(Owner, t, r)
    BY <2>1, BeginType, OwnerOrViewer DEF Step, Action
  <2>3. OwnersOK(r) /\ r.step # "sign"
    BY <2>2 DEF OwnersOK
  <2>4. QED BY <1>1, <2>2, <2>3, ReadsOnly, OwnerOrViewer DEF CheckRemove
<1>2. CASE CheckGrant(t, d, v)
  <2>1. PICK r \in Request :
           /\ r = [step |-> "upsert", doc |-> d, viewer |-> v, round |-> 0, did |-> "granted"]
           /\ Become(Owner, t, r)
    BY <1>2, BeginType, OwnerOrViewer DEF CheckGrant, Step, Action
  <2>2. OwnersOK(r) /\ r.step # "sign"
    BY <2>1 DEF OwnersOK
  <2>3. QED BY <1>2, <2>1, <2>2, ReadsOnly, OwnerOrViewer DEF CheckGrant
<1>3. CASE CheckRevoke(t, d, v)
  <2>1. PICK r \in Request :
           /\ r = [step |-> "revoke", doc |-> d, viewer |-> v, round |-> 0, did |-> "revoked"]
           /\ Become(Owner, t, r)
    BY <1>3, BeginType, OwnerOrViewer DEF CheckRevoke, Step, Action
  <2>2. OwnersOK(r) /\ r.step # "sign"
    BY <1>3, <2>1 DEF OwnersOK, CheckRevoke, GrantInv
  <2>3. QED BY <1>3, <2>1, <2>2, ReadsOnly, OwnerOrViewer DEF CheckRevoke
<1>4. CASE CheckAccept(v, t, d)
  <2>1. PICK r \in Request :
           /\ r = [step |-> "accept", doc |-> d, viewer |-> v, round |-> round[d][v],
                   did |-> "granted"]
           /\ Become(v, t, r)
    BY <1>4, BeginType, OwnerOrViewer DEF CheckAccept, Step, Action
  <2>2. ViewersOK(v, r) /\ r.step # "sign"
    BY <1>4, <2>1 DEF ViewersOK, CheckAccept, GrantInv
  <2>3. QED BY <1>4, <2>1, <2>2, ReadsOnly, OwnerOrViewer DEF CheckAccept
<1>5. CASE CheckAccess(v, t, d)
  <2>1. PICK r \in Request :
           /\ r = [step |-> "view", doc |-> d, viewer |-> v, round |-> 0, did |-> "granted"]
           /\ Become(v, t, r)
    BY <1>5, BeginType, OwnerOrViewer DEF CheckAccess, Step, Action
  <2>2. ViewersOK(v, r) /\ r.step # "sign"
    BY <1>5, <2>1 DEF ViewersOK, CheckAccess, MayOpen, GrantInv, Shared
  <2>3. QED BY <1>5, <2>1, <2>2, ReadsOnly, OwnerOrViewer DEF CheckAccess
<1>6. QED BY <1>1, <1>2, <1>3, <1>4, <1>5

LEMMA AbortStep ==
  ASSUME RoomInv, NEW u \in Callers, NEW t \in Tabs, Abort(u, t)
  PROVE  RoomInv'
<1>1. PICK r \in Request : r.step = "idle" /\ Become(u, t, r)
  BY DoneType DEF Abort
<1>2. OwnersOK(r) /\ ViewersOK(u, r) /\ r.step # "sign"
  BY <1>1 DEF OwnersOK, ViewersOK
<1>3. QED BY <1>1, <1>2, ReadsOnly DEF Abort

LEMMA TickStep == RoomInv /\ Tick => RoomInv'
<1> SUFFICES ASSUME RoomInv, Tick PROVE RoomInv'
  OBVIOUS
<1> USE DEF RoomInv, Tick, rows, history
<1>1. TypeOK'
  BY DGAssumption DEF TypeOK
<1>3. GrantInv' /\ AuditInv' /\ DeletedLeavesNothing'
  BY DEF GrantInv, AuditInv, DeletedLeavesNothing, Shared
<1>4. ReqInv'
  BY DEF ReqInv, OwnersOK, ViewersOK, Shared
<1>5. CountInv'
  BY DEF CountInv, Signing
<1>6. QED BY <1>1, <1>3, <1>4, <1>5

LEMMA UploadStep ==
  ASSUME RoomInv, NEW t \in Tabs, NEW d \in Docs, Upload(t, d)
  PROVE  RoomInv'
<1> USE DEF RoomInv, history
<1>1. PICK w \in Viewers : Begin(Owner, t, "audit", d, w, "uploaded")
  BY DEF Upload
<1>2. PICK r \in Request :
         /\ r = [step |-> "audit", doc |-> d, viewer |-> w, round |-> 0, did |-> "uploaded"]
         /\ Become(Owner, t, r)
  BY <1>1, BeginType, OwnerOrViewer DEF Step, Action
<1>3. TypeOK'
  BY <1>2, Becoming, OwnerOrViewer DEF TypeOK, Upload
<1>4. Onward
  BY DEF Onward, Upload, TypeOK, Shared
<1>5. OwnersOK(r)'
  BY <1>2 DEF OwnersOK
<1>6. ReqInv'
  BY <1>2, <1>4, <1>5, ReqKept, OwnerOrViewer
<1>7. GrantInv' /\ AuditInv' /\ DeletedLeavesNothing'
  BY DEF GrantInv, AuditInv, DeletedLeavesNothing, Shared, Upload, TypeOK
<1>8. ASSUME NEW e \in Docs, NEW v \in Viewers, doc'[e] = "stored"
      PROVE  opens[e][v] + Cardinality(Signing(e, v)') <= views[e][v]
  <2>1. Signing(e, v)' = Signing(e, v)
    BY <1>2, Becoming, OwnerOrViewer DEF Signing
  <2>2. CASE e = d
    <3>1. Signing(d, v) = {}
      BY DEF Upload, Signing, ReqInv, ViewersOK
    <3>2. opens[d][v] = 0 /\ views[d][v] = 0
      BY DEF Upload, GrantInv
    <3>3. QED BY <2>1, <2>2, <3>1, <3>2, FS_EmptySet
  <2>3. CASE e # d
    BY <1>8, <2>1, <2>3 DEF CountInv, Upload, TypeOK
  <2>4. QED BY <2>2, <2>3
<1>9. CountInv'
  BY <1>8 DEF CountInv, Upload
<1>10. QED BY <1>3, <1>6, <1>7, <1>9

LEMMA DeleteStep ==
  ASSUME RoomInv, NEW t \in Tabs, Delete(t)
  PROVE  RoomInv'
<1> USE DEF RoomInv, history
<1> DEFINE d == req[Owner][t].doc
<1>1. /\ At(Owner, t, "delete") /\ d \in Docs /\ req[Owner][t] \in Request
      /\ req[Owner][t].did = "deleted"
  BY OwnerOrViewer DEF Delete, TypeOK, Request, ReqInv, OwnersOK, At
<1>2. CASE doc[d] # "stored"
  <2>1. PICK r \in Request : r.step = "idle" /\ Become(Owner, t, r)
    BY <1>2, DoneType, OwnerOrViewer DEF Delete
  <2>2. OwnersOK(r) /\ r.step # "sign"
    BY <2>1 DEF OwnersOK
  <2>3. QED BY <1>2, <2>1, <2>2, ReadsOnly, OwnerOrViewer DEF Delete
<1>3. CASE doc[d] = "stored"
  <2>1. PICK r \in Request :
           r.step = "audit" /\ r.doc = d /\ r.did = "deleted" /\ Become(Owner, t, r)
    BY <1>1, <1>3, GotoType, OwnerOrViewer DEF Delete, Step
  <2>2. /\ doc' = [doc EXCEPT ![d] = "deleted"]
        /\ grant' = [grant EXCEPT ![d] = [v \in Viewers |-> NoRow]]
        /\ views' = [views EXCEPT ![d] = [v \in Viewers |-> 0]]
        /\ UNCHANGED <<now, opens, audit, history>>
    BY <1>3 DEF Delete
  <2> HIDE DEF d
  <2>3. TypeOK'
    BY <1>1, <2>1, <2>2, Becoming, OwnerOrViewer, DGAssumption DEF TypeOK
  <2>4. Onward
    BY <1>1, <2>2 DEF Onward, TypeOK, Shared
  <2>5. OwnersOK(r)'
    BY <1>1, <2>1, <2>2 DEF OwnersOK, TypeOK
  <2>6. ReqInv'
    BY <2>1, <2>4, <2>5, ReqKept, OwnerOrViewer
  <2>7. GrantInv' /\ AuditInv' /\ DeletedLeavesNothing'
    BY <1>1, <2>2 DEF GrantInv, AuditInv, DeletedLeavesNothing, Shared, TypeOK, NoRow
  <2>8. ASSUME NEW e \in Docs, NEW v \in Viewers, doc'[e] = "stored"
        PROVE  opens[e][v] + Cardinality(Signing(e, v)') <= views'[e][v]
    <3>1. Signing(e, v)' = Signing(e, v)
      BY <2>1, Becoming, OwnerOrViewer DEF Signing
    <3>2. e # d /\ doc[e] = "stored" /\ views'[e][v] = views[e][v]
      BY <1>1, <2>2, <2>8 DEF TypeOK
    <3>3. QED BY <3>1, <3>2 DEF CountInv
  <2>9. QED BY <2>2, <2>3, <2>6, <2>7, <2>8 DEF CountInv
<1>4. QED BY <1>2, <1>3

LEMMA UpsertStep ==
  ASSUME RoomInv, NEW t \in Tabs, NEW days \in 1..MaxDays, NEW nda \in BOOLEAN,
         Upsert(t, days, nda)
  PROVE  RoomInv'
<1> USE DEF RoomInv, history
<1> DEFINE d == req[Owner][t].doc
           v == req[Owner][t].viewer
<1>1. /\ At(Owner, t, "upsert") /\ d \in Docs /\ v \in Viewers
      /\ req[Owner][t].did = "granted"
  BY OwnerOrViewer DEF Upsert, TypeOK, Request, ReqInv, OwnersOK, At
<1>2. /\ doc[d] = "stored" /\ round[d][v] < MaxGrants
      /\ grant' = [grant EXCEPT ![d][v] = FreshRow(days, nda)]
      /\ round' = [round EXCEPT ![d][v] = @ + 1]
      /\ lax' = [lax EXCEPT ![d][v] = @ \/ ~ nda]
      /\ UNCHANGED <<now, doc, views, opens, audit, consent>>
  BY DEF Upsert
<1>3. PICK r \in Request :
         /\ r.step = "audit" /\ r.doc = d /\ r.viewer = v /\ r.did = "granted"
         /\ Become(Owner, t, r)
  <2>1. Goto(Owner, t, "audit") /\ "audit" \in Step
    BY DEF Upsert, Step
  <2>2. TypeOK /\ Owner \in Callers
    BY OwnerOrViewer
  <2>3. \E r \in Request :
           /\ r.step = "audit" /\ r.doc = d /\ r.viewer = v /\ r.did = req[Owner][t].did
           /\ Become(Owner, t, r)
    <3> HIDE DEF RoomInv
    <3>1. QED BY <2>1, <2>2, GotoType
  <2>4. QED BY <1>1, <2>3
<1> HIDE DEF d, v
<1>4. FreshRow(days, nda) \in Row
  BY DGAssumption DEF FreshRow, Row, TypeOK
<1>5. round' \in [Docs -> [Viewers -> 0..MaxGrants]]
  BY <1>1, <1>2, DGAssumption DEF TypeOK
<1>6. lax' \in [Docs -> [Viewers -> BOOLEAN]]
  BY <1>1, <1>2 DEF TypeOK
<1>7. TypeOK'
  BY <1>1, <1>2, <1>3, <1>4, <1>5, <1>6, Becoming, OwnerOrViewer DEF TypeOK
<1>8. ASSUME NEW e \in Docs, NEW w \in Viewers
      PROVE  /\ round[e][w] > 0 => round'[e][w] > 0
             /\ e = d /\ w = v => round'[e][w] > 0
             /\ e # d \/ w # v => round'[e][w] = round[e][w]
  BY <1>1, <1>2, DGAssumption DEF TypeOK
<1>9. ASSUME NEW e \in Docs, NEW w \in Viewers
      PROVE  /\ lax[e][w] => lax'[e][w]
             /\ e = d /\ w = v /\ ~ nda => lax'[e][w]
  BY <1>1, <1>2 DEF TypeOK
<1>10. Onward
  BY <1>2, <1>8, <1>9 DEF Onward, Shared
<1>11. OwnersOK(r)'
  BY <1>1, <1>3, <1>8 DEF OwnersOK
<1>12. ReqInv'
  BY <1>3, <1>10, <1>11, ReqKept, OwnerOrViewer
<1>13. ASSUME NEW e \in Docs, NEW w \in Viewers, grant'[e][w].live
       PROVE  /\ round'[e][w] > 0
              /\ ~ grant'[e][w].requireNda => lax'[e][w]
              /\ grant'[e][w].accepted => consent'[e][w] > 0
  <2>1. CASE e = d /\ w = v
    <3>1. grant'[e][w] = FreshRow(days, nda)
      BY <1>1, <1>2, <2>1 DEF TypeOK
    <3>2. QED BY <1>8, <1>9, <2>1, <3>1 DEF FreshRow
  <2>2. CASE e # d \/ w # v
    <3>1. grant'[e][w] = grant[e][w]
      BY <1>1, <1>2, <2>2 DEF TypeOK
    <3>2. QED BY <1>2, <1>8, <1>9, <1>13, <2>2, <3>1 DEF GrantInv
  <2>3. QED BY <2>1, <2>2
<1>14. GrantInv'
  BY <1>2, <1>8, <1>10, <1>13 DEF GrantInv, Onward
<1>15. AuditInv'
  BY <1>2, <1>8 DEF AuditInv
<1>16. DeletedLeavesNothing'
  BY <1>1, <1>2 DEF DeletedLeavesNothing, TypeOK
<1>17. CountInv'
  BY <1>2, <1>3, CountKept, OwnerOrViewer
<1>18. QED BY <1>7, <1>12, <1>14, <1>15, <1>16, <1>17

(* A row that only gets one of its marks. *)
LEMMA RevokeStep ==
  ASSUME RoomInv, NEW t \in Tabs, Revoke(t)
  PROVE  RoomInv'
<1> USE DEF RoomInv, history
<1> DEFINE d == req[Owner][t].doc
           v == req[Owner][t].viewer
<1>1. /\ At(Owner, t, "revoke") /\ d \in Docs /\ v \in Viewers
      /\ req[Owner][t].did = "revoked" /\ round[d][v] > 0
  BY OwnerOrViewer DEF Revoke, TypeOK, Request, ReqInv, OwnersOK, At
<1>2. /\ grant[d][v].live
      /\ grant' = [grant EXCEPT ![d][v].revoked = TRUE]
      /\ UNCHANGED <<now, doc, views, opens, audit, history>>
  BY DEF Revoke
<1>3. PICK r \in Request :
         /\ r.step = "audit" /\ r.doc = d /\ r.viewer = v /\ r.did = "revoked"
         /\ Become(Owner, t, r)
  <2>1. Goto(Owner, t, "audit") /\ "audit" \in Step
    BY DEF Revoke, Step
  <2>2. TypeOK /\ Owner \in Callers
    BY OwnerOrViewer
  <2>3. \E r \in Request :
           /\ r.step = "audit" /\ r.doc = d /\ r.viewer = v /\ r.did = req[Owner][t].did
           /\ Become(Owner, t, r)
    <3> HIDE DEF RoomInv
    <3>1. QED BY <2>1, <2>2, GotoType
  <2>4. QED BY <1>1, <2>3
<1> HIDE DEF d, v
<1>4. grant[d][v] \in Row
  BY <1>1, <1>2 DEF TypeOK, NoRow
<1>5. /\ grant' \in [Docs -> [Viewers -> Row \union {NoRow}]]
      /\ \A e \in Docs, w \in Viewers :
            /\ grant'[e][w].live => grant[e][w].live
            /\ grant'[e][w].requireNda = grant[e][w].requireNda
            /\ grant'[e][w].accepted = grant[e][w].accepted
  BY <1>1, <1>2, <1>4 DEF TypeOK, Row
<1>6. TypeOK'
  BY <1>2, <1>3, <1>5, Becoming, OwnerOrViewer DEF TypeOK
<1>7. Onward
  BY <1>2, StillOnward
<1>8. OwnersOK(r)'
  BY <1>1, <1>2, <1>3 DEF OwnersOK
<1>9. ReqInv'
  BY <1>3, <1>7, <1>8, ReqKept, OwnerOrViewer
<1>10. GrantInv' /\ AuditInv' /\ DeletedLeavesNothing'
  BY <1>2, <1>5 DEF GrantInv, AuditInv, DeletedLeavesNothing, Shared
<1>11. CountInv'
  BY <1>2, <1>3, CountKept, OwnerOrViewer
<1>12. QED BY <1>6, <1>9, <1>10, <1>11

LEMMA RecordAuditStep ==
  ASSUME RoomInv, NEW t \in Tabs, RecordAudit(t)
  PROVE  RoomInv'
<1> USE DEF RoomInv, rows, history
<1> DEFINE d == req[Owner][t].doc
           did == req[Owner][t].did
<1>1. /\ At(Owner, t, "audit") /\ d \in Docs /\ did \in Action
      /\ did = "deleted" => doc[d] = "deleted"
      /\ did \in {"granted", "revoked"} => \E v \in Viewers : round[d][v] > 0
  BY OwnerOrViewer DEF RecordAudit, TypeOK, Request, ReqInv, OwnersOK, At
<1>2. /\ audit' = [audit EXCEPT ![d] = @ \union {did}]
      /\ UNCHANGED <<now, doc, grant, views, opens, round, lax, consent>>
  BY DEF RecordAudit
<1>3. PICK r \in Request : r.step = "idle" /\ Become(Owner, t, r)
  BY DoneType, OwnerOrViewer DEF RecordAudit
<1> HIDE DEF d, did
<1>4. TypeOK'
  BY <1>1, <1>2, <1>3, Becoming, OwnerOrViewer DEF TypeOK
<1>5. AuditInv'
  BY <1>1, <1>2 DEF AuditInv, TypeOK
<1>6. GrantInv' /\ DeletedLeavesNothing'
  BY <1>2 DEF GrantInv, DeletedLeavesNothing, Shared
<1>7. OwnersOK(r)'
  BY <1>3 DEF OwnersOK
<1>8. ReqInv'
  BY <1>2, <1>3, <1>7, StillOnward, ReqKept, OwnerOrViewer
<1>9. CountInv'
  BY <1>2, <1>3, CountKept, OwnerOrViewer
<1>10. QED BY <1>4, <1>5, <1>6, <1>8, <1>9

LEMMA AcceptStep ==
  ASSUME RoomInv, NEW v \in Viewers, NEW t \in Tabs, Accept(v, t)
  PROVE  RoomInv'
<1> USE DEF RoomInv, history
<1> DEFINE d == req[v][t].doc
           k == req[v][t].round
<1>1. At(v, t, "accept") /\ d \in Docs /\ k \in 0..MaxGrants /\ k > 0
  BY OwnerOrViewer DEF Accept, TypeOK, Request, ReqInv, ViewersOK, At
<1>2. /\ grant[d][v].live
      /\ grant' = [grant EXCEPT ![d][v].accepted = TRUE]
      /\ consent' = [consent EXCEPT ![d][v] = k]
      /\ UNCHANGED <<now, doc, views, opens, audit, round, lax>>
  BY DEF Accept
<1>3. PICK r \in Request : r.step = "idle" /\ Become(v, t, r)
  BY DoneType, OwnerOrViewer DEF Accept
<1> HIDE DEF d, k
<1>4. grant[d][v] \in Row
  BY <1>1, <1>2 DEF TypeOK, NoRow
<1>5. /\ grant' \in [Docs -> [Viewers -> Row \union {NoRow}]]
      /\ \A e \in Docs, w \in Viewers :
            /\ grant'[e][w].live => grant[e][w].live
            /\ grant'[e][w].requireNda = grant[e][w].requireNda
            /\ e # d \/ w # v => grant'[e][w] = grant[e][w]
  BY <1>1, <1>2, <1>4 DEF TypeOK, Row
<1>6. /\ consent' \in [Docs -> [Viewers -> 0..MaxGrants]]
      /\ consent'[d][v] > 0
      /\ \A e \in Docs, w \in Viewers :
            /\ consent[e][w] > 0 => consent'[e][w] > 0
            /\ e # d \/ w # v => consent'[e][w] = consent[e][w]
  BY <1>1, <1>2 DEF TypeOK
<1>7. TypeOK'
  BY <1>2, <1>3, <1>5, <1>6, Becoming, OwnerOrViewer DEF TypeOK
<1>8. Onward
  BY <1>2, <1>6 DEF Onward, Shared
<1>9. ViewersOK(v, r)'
  BY <1>3 DEF ViewersOK
<1>10. ReqInv'
  BY <1>3, <1>8, <1>9, ReqKept, OwnerOrViewer
<1>11. GrantInv'
  BY <1>2, <1>5, <1>6 DEF GrantInv, Shared
<1>12. AuditInv' /\ DeletedLeavesNothing'
  BY <1>2, <1>5 DEF AuditInv, DeletedLeavesNothing
<1>13. CountInv'
  BY <1>2, <1>3, CountKept, OwnerOrViewer
<1>14. QED BY <1>7, <1>10, <1>11, <1>12, <1>13

LEMMA LogViewStep ==
  ASSUME RoomInv, NEW v \in Viewers, NEW t \in Tabs, LogView(v, t)
  PROVE  RoomInv'
<1> USE DEF RoomInv, history
<1> DEFINE d == req[v][t].doc
<1>1. At(v, t, "view") /\ d \in Docs /\ Shared(d, v)
  BY OwnerOrViewer DEF LogView, TypeOK, Request, ReqInv, ViewersOK, At
<1>2. /\ doc[d] = "stored" /\ views[d][v] < MaxViews
      /\ views' = [views EXCEPT ![d][v] = @ + 1]
      /\ UNCHANGED <<now, doc, grant, opens, audit, round, lax, consent>>
  BY DEF LogView
<1>3. PICK r \in Request : r.step = "sign" /\ r.doc = d /\ Become(v, t, r)
  BY <1>1, GotoType, OwnerOrViewer DEF LogView, Step
<1> HIDE DEF d
<1>4. /\ views' \in [Docs -> [Viewers -> 0..MaxViews]]
      /\ views'[d][v] = views[d][v] + 1
      /\ \A e \in Docs, w \in Viewers : e # d \/ w # v => views'[e][w] = views[e][w]
  BY <1>1, <1>2, DGAssumption DEF TypeOK
<1>5. TypeOK'
  BY <1>2, <1>3, <1>4, Becoming, OwnerOrViewer DEF TypeOK
<1>6. Onward
  BY <1>2, StillOnward
<1>7. ViewersOK(v, r)'
  BY <1>1, <1>2, <1>3 DEF ViewersOK, Shared
<1>8. ReqInv'
  BY <1>3, <1>6, <1>7, ReqKept, OwnerOrViewer
<1>9. GrantInv' /\ AuditInv' /\ DeletedLeavesNothing'
  BY <1>1, <1>2, <1>4 DEF GrantInv, AuditInv, DeletedLeavesNothing, Shared
<1>10. ASSUME NEW e \in Docs, NEW w \in Viewers, doc[e] = "stored"
       PROVE  opens[e][w] + Cardinality(Signing(e, w)') <= views'[e][w]
  <2>0. /\ opens[e][w] \in Nat /\ views[e][w] \in Nat
        /\ opens[e][w] + Cardinality(Signing(e, w)) <= views[e][w]
    BY <1>10, DGAssumption DEF TypeOK, CountInv
  <2>1. IsFiniteSet(Signing(e, w)) /\ Cardinality(Signing(e, w)) \in Nat
    BY DGAssumption, FS_Subset, FS_CardinalityType DEF Signing
  <2>2. CASE e = d /\ w = v
    <3>1. Signing(e, w)' = Signing(e, w) \union {t}
      BY <1>3, <2>2, Becoming, OwnerOrViewer DEF Signing
    <3>2. t \notin Signing(e, w)
      BY <1>1, <2>2 DEF Signing, At
    <3>3. Cardinality(Signing(e, w)') = Cardinality(Signing(e, w)) + 1
      BY <2>1, <3>1, <3>2, FS_AddElement
    <3>4. QED BY <1>4, <2>0, <2>1, <2>2, <3>3
  <2>3. CASE e # d \/ w # v
    <3>1. Signing(e, w)' = Signing(e, w)
      BY <1>1, <1>3, <2>3, Becoming, OwnerOrViewer DEF Signing, At
    <3>2. QED BY <1>4, <2>0, <2>3, <3>1
  <2>4. QED BY <2>2, <2>3
<1>11. QED BY <1>2, <1>5, <1>8, <1>9, <1>10 DEF CountInv

LEMMA SignStep ==
  ASSUME RoomInv, NEW v \in Viewers, NEW t \in Tabs, Sign(v, t)
  PROVE  RoomInv'
<1> USE DEF RoomInv, rows, history
<1> DEFINE d == req[v][t].doc
<1>1. At(v, t, "sign") /\ d \in Docs /\ Shared(d, v) /\ doc[d] # "absent"
  BY OwnerOrViewer DEF Sign, TypeOK, Request, ReqInv, ViewersOK, At
<1>2. /\ opens' = [opens EXCEPT ![d][v] = @ + 1]
      /\ UNCHANGED <<now, doc, grant, views, audit, round, lax, consent>>
  BY DEF Sign
<1>3. PICK r \in Request : r.step = "idle" /\ Become(v, t, r)
  BY DoneType, OwnerOrViewer DEF Sign
<1> HIDE DEF d
<1>4. /\ opens' \in [Docs -> [Viewers -> Nat]]
      /\ opens'[d][v] = opens[d][v] + 1
      /\ \A e \in Docs, w \in Viewers : e # d \/ w # v => opens'[e][w] = opens[e][w]
  BY <1>1, <1>2 DEF TypeOK
<1>5. TypeOK'
  BY <1>2, <1>3, <1>4, Becoming, OwnerOrViewer DEF TypeOK
<1>6. ViewersOK(v, r)'
  BY <1>3 DEF ViewersOK
<1>7. ReqInv'
  BY <1>2, <1>3, <1>6, StillOnward, ReqKept, OwnerOrViewer
<1>8. GrantInv' /\ AuditInv' /\ DeletedLeavesNothing'
  BY <1>1, <1>2, <1>4 DEF GrantInv, AuditInv, DeletedLeavesNothing, Shared
<1>9. ASSUME NEW e \in Docs, NEW w \in Viewers, doc[e] = "stored"
      PROVE  opens'[e][w] + Cardinality(Signing(e, w)') <= views[e][w]
  <2>0. /\ opens[e][w] \in Nat /\ views[e][w] \in Nat
        /\ opens[e][w] + Cardinality(Signing(e, w)) <= views[e][w]
    BY <1>9, DGAssumption DEF TypeOK, CountInv
  <2>1. IsFiniteSet(Signing(e, w)) /\ Cardinality(Signing(e, w)) \in Nat
    BY DGAssumption, FS_Subset, FS_CardinalityType DEF Signing
  <2>2. CASE e = d /\ w = v
    <3>1. Signing(e, w)' = Signing(e, w) \ {t} /\ t \in Signing(e, w)
      BY <1>1, <1>3, <2>2, Becoming, OwnerOrViewer DEF Signing, At, d
    <3>2. Cardinality(Signing(e, w)') = Cardinality(Signing(e, w)) - 1
      BY <2>1, <3>1, FS_RemoveElement
    <3>3. QED BY <1>4, <2>0, <2>1, <2>2, <3>2
  <2>3. CASE e # d \/ w # v
    <3>1. Signing(e, w)' = Signing(e, w)
      BY <1>1, <1>3, <2>3, Becoming, OwnerOrViewer DEF Signing, At, d
    <3>2. QED BY <1>4, <2>0, <2>3, <3>1
  <2>4. QED BY <2>2, <2>3
<1>10. QED BY <1>2, <1>5, <1>7, <1>8, <1>9 DEF CountInv

------------------------------------------------------------------------------
LEMMA RoomInit == Init => RoomInv
<1> SUFFICES ASSUME Init PROVE RoomInv
  OBVIOUS
<1> USE DEF Init, PerViewer
<1>1. 0 \in 0..MaxTime /\ 0 \in 0..MaxGrants /\ 0 \in 0..MaxViews
  BY DGAssumption
<1>2. TypeOK
  BY <1>1, IdleType DEF TypeOK
<1>3. GrantInv /\ AuditInv /\ DeletedLeavesNothing
  BY DEF GrantInv, AuditInv, DeletedLeavesNothing, NoRow
<1>4. ReqInv
  BY IdleType, OwnerOrViewer DEF ReqInv, OwnersOK, ViewersOK
<1>5. CountInv
  BY DEF CountInv
<1>6. QED BY <1>2, <1>3, <1>4, <1>5 DEF RoomInv

LEMMA RoomStep == RoomInv /\ [Next]_vars => RoomInv'
<1> SUFFICES ASSUME RoomInv, [Next]_vars PROVE RoomInv'
  OBVIOUS
<1>1. ASSUME NEW t \in Tabs, OwnerStep(t)
      PROVE  RoomInv'
  BY <1>1, CheckSteps, UploadStep, DeleteStep, UpsertStep, RevokeStep, RecordAuditStep,
     DGAssumption DEF OwnerStep
<1>2. ASSUME NEW v \in Viewers, NEW t \in Tabs, ViewerStep(v, t)
      PROVE  RoomInv'
  BY <1>2, CheckSteps, AcceptStep, LogViewStep, SignStep DEF ViewerStep
<1>3. ASSUME UNCHANGED vars
      PROVE  RoomInv'
  <2> USE <1>3 DEF vars, rows, history, RoomInv
  <2>1. TypeOK' /\ GrantInv' /\ AuditInv' /\ DeletedLeavesNothing'
    BY DEF TypeOK, GrantInv, AuditInv, DeletedLeavesNothing, Shared
  <2>2. ReqInv' /\ CountInv'
    BY DEF ReqInv, OwnersOK, ViewersOK, Shared, CountInv, Signing
  <2>3. QED BY <2>1, <2>2
<1>4. QED BY <1>1, <1>2, <1>3, AbortStep, TickStep DEF Next

(* The inductive invariant holds of the data room: what each property below
   follows from. *)
THEOREM RoomInvariant == Spec => []RoomInv
  BY RoomInit, RoomStep, PTL DEF Spec

(* A data room is well formed, its logs name what happened, a link never
   outnumbers the views logged for it, and a deleted document leaves nothing. *)
THEOREM RoomSound == Spec => []RoomIsSound
<1>1. RoomInv => RoomIsSound
  <2> SUFFICES ASSUME RoomInv PROVE RoomIsSound
    OBVIOUS
  <2>1. ASSUME NEW d \in Docs, NEW v \in Viewers, doc[d] = "stored"
        PROVE  opens[d][v] <= views[d][v]
    <3>1. IsFiniteSet(Signing(d, v)) /\ Cardinality(Signing(d, v)) \in Nat
      BY DGAssumption, FS_Subset, FS_CardinalityType DEF Signing
    <3>2. opens[d][v] \in Nat /\ views[d][v] \in Nat
      BY DGAssumption DEF RoomInv, TypeOK
    <3>3. QED BY <2>1, <3>1, <3>2 DEF RoomInv, CountInv
  <2>2. QED BY <2>1 DEF RoomInv, RoomIsSound, LogsAreHonest, AuditInv
<1>2. QED BY <1>1, RoomInvariant, PTL

(* Nobody gets a file that was never shared with them, nor one shared only
   under an NDA they never accepted, whatever was renewed meanwhile. *)
THEOREM ConsentFirst == Spec => []NoFileWithoutConsent
<1>1. RoomInv => NoFileWithoutConsent
  BY DEF RoomInv, GrantInv, Shared, NoFileWithoutConsent
<1>2. QED BY <1>1, RoomInvariant, PTL

------------------------------------------------------------------------------
(* Once nothing is on its way, a request that is not let in stays out. *)
LEMMA StaysOut ==
  ASSUME TypeOK, NEW u \in Callers, NEW t \in Tabs, NEW r \in Request, Become(u, t, r),
         NEW d \in Docs, NEW v \in Viewers, Opening(d, v) = {},
         u = v /\ r.doc = d => r.step \notin {"view", "sign"}
  PROVE  Opening(d, v)' = {}
<1>1. ASSUME NEW s \in Tabs
      PROVE  ~ (req'[v][s].doc = d /\ req'[v][s].step \in {"view", "sign"})
  BY Becoming, OwnerOrViewer DEF Opening
<1>2. QED BY <1>1 DEF Opening

LEMMA OwnerStaysOut ==
  ASSUME TypeOK, NEW t \in Tabs, NEW r \in Request, Become(Owner, t, r),
         NEW d \in Docs, NEW v \in Viewers, Opening(d, v) = {}, UNCHANGED opens
  PROVE  opens'[d][v] = opens[d][v] /\ Opening(d, v)' = {}
  BY StaysOut, OwnerOrViewer

LEMMA ShutStep ==
  ASSUME TypeOK, Next, NEW d \in Docs, NEW v \in Viewers, Shut(d, v), Opening(d, v) = {}
  PROVE  opens'[d][v] = opens[d][v] /\ Opening(d, v)' = {}
<1> DEFINE Goal == opens'[d][v] = opens[d][v] /\ Opening(d, v)' = {}
<1>1. ASSUME NEW t \in Tabs, OwnerStep(t)
      PROVE  Goal
  <2>1. UNCHANGED opens /\ \E r \in Request : Become(Owner, t, r)
    <3>1. CASE \E e \in Docs : Upload(t, e)
      <4>1. PICK e \in Docs, w \in Viewers : Begin(Owner, t, "audit", e, w, "uploaded")
        BY <3>1 DEF Upload
      <4>2. QED BY <3>1, <4>1, BeginType, OwnerOrViewer DEF Upload, Step, Action
    <3>2. CASE \E e \in Docs : CheckRemove(t, e)
      <4>1. PICK e \in Docs, w \in Viewers : Begin(Owner, t, "delete", e, w, "deleted")
        BY <3>2 DEF CheckRemove
      <4>2. QED BY <3>2, <4>1, BeginType, OwnerOrViewer DEF CheckRemove, Step, Action
    <3>3. CASE \E e \in Docs, w \in Viewers : CheckGrant(t, e, w)
      <4>1. PICK e \in Docs, w \in Viewers : Begin(Owner, t, "upsert", e, w, "granted")
        BY <3>3 DEF CheckGrant
      <4>2. QED BY <3>3, <4>1, BeginType, OwnerOrViewer DEF CheckGrant, Step, Action
    <3>4. CASE \E e \in Docs, w \in Viewers : CheckRevoke(t, e, w)
      <4>1. PICK e \in Docs, w \in Viewers : Begin(Owner, t, "revoke", e, w, "revoked")
        BY <3>4 DEF CheckRevoke
      <4>2. QED BY <3>4, <4>1, BeginType, OwnerOrViewer DEF CheckRevoke, Step, Action
    <3>5. CASE Delete(t) \/ Revoke(t) \/ \E days \in 1..MaxDays, nda \in BOOLEAN :
                                              Upsert(t, days, nda)
      <4>1. UNCHANGED opens /\ (Goto(Owner, t, "audit") \/ Done(Owner, t))
        BY <3>5 DEF Delete, Revoke, Upsert
      <4>2. QED BY <4>1, GotoType, DoneType, OwnerOrViewer DEF Step
    <3>6. CASE RecordAudit(t)
      BY <3>6, DoneType, OwnerOrViewer DEF RecordAudit
    <3>7. QED BY <1>1, <3>1, <3>2, <3>3, <3>4, <3>5, <3>6 DEF OwnerStep
  <2>2. QED BY <2>1, OwnerStaysOut
<1>2. ASSUME NEW w \in Viewers, NEW t \in Tabs, ViewerStep(w, t)
      PROVE  Goal
  <2> USE OwnerOrViewer
  <2>1. ASSUME NEW e \in Docs, CheckAccept(w, t, e)
        PROVE  Goal
    <3>1. PICK r \in Request : r.step = "accept" /\ Become(w, t, r)
      BY <2>1, BeginType DEF CheckAccept, Step, Action
    <3>2. QED BY <2>1, <3>1, StaysOut DEF CheckAccept
  <2>2. ASSUME NEW e \in Docs, CheckAccess(w, t, e)
        PROVE  Goal
    <3>1. PICK r \in Request : r.doc = e /\ Become(w, t, r)
      BY <2>2, BeginType DEF CheckAccess, Step, Action
    <3>2. ~ (w = v /\ e = d)
      BY <2>2 DEF CheckAccess, MayOpen, Shut
    <3>3. QED BY <2>2, <3>1, <3>2, StaysOut DEF CheckAccess
  <2>3. CASE Accept(w, t)
    <3>1. PICK r \in Request : r.step = "idle" /\ Become(w, t, r)
      BY <2>3, DoneType DEF Accept
    <3>2. QED BY <2>3, <3>1, StaysOut DEF Accept
  <2>4. CASE LogView(w, t)
    <3>1. PICK r \in Request : r.doc = req[w][t].doc /\ Become(w, t, r)
      BY <2>4, GotoType DEF LogView, Step
    <3>2. ~ (w = v /\ r.doc = d)
      BY <2>4, <3>1 DEF LogView, At, Opening
    <3>3. QED BY <2>4, <3>1, <3>2, StaysOut DEF LogView
  <2>5. CASE Sign(w, t)
    <3>1. PICK r \in Request : r.step = "idle" /\ Become(w, t, r)
      BY <2>5, DoneType DEF Sign
    <3>2. ~ (w = v /\ req[w][t].doc = d)
      BY <2>5 DEF Sign, At, Opening
    <3>3. opens'[d][v] = opens[d][v]
      BY <2>5, <3>2 DEF Sign, TypeOK
    <3>4. QED BY <3>1, <3>3, StaysOut
  <2>6. QED BY <1>2, <2>1, <2>2, <2>3, <2>4, <2>5 DEF ViewerStep
<1>3. ASSUME NEW u \in Callers, NEW t \in Tabs, Abort(u, t)
      PROVE  Goal
  <2>1. PICK r \in Request : r.step = "idle" /\ Become(u, t, r)
    BY <1>3, DoneType DEF Abort
  <2>2. QED BY <1>3, <2>1, StaysOut DEF Abort
<1>4. CASE Tick
  BY <1>4 DEF Tick, Opening
<1>5. QED BY <1>1, <1>2, <1>3, <1>4 DEF Next

(* A viewer whose grant is revoked, expired or gone gets no link any more once
   nothing of theirs is past the check, and no request starts towards one. *)
THEOREM RevocationStops == Spec => RevocationStopsAccess
<1>1. RoomInv /\ [Next]_vars =>
        [\A d \in Docs, v \in Viewers :
            Shut(d, v) /\ Opening(d, v) = {}
                => opens'[d][v] = opens[d][v] /\ Opening(d, v)' = {}]_vars
  BY ShutStep DEF RoomInv
<1>2. QED BY <1>1, RoomInvariant, PTL DEF Spec, RevocationStopsAccess
------------------------------------------------------------------------------
(* The data room implements AccessPromise.  Standing and Inside are read off
   the rows and the requests; each step of a handler is one step of the promise
   or none. *)
PerGrant(f) == f = [d \in Docs |-> [v \in Viewers |-> f[d][v]]]

LEMMA ReadOff == PerGrant(Standing) /\ PerGrant(Inside) /\ PerGrant(Standing') /\ PerGrant(Inside')
  BY DEF PerGrant, Standing, Inside

LEMMA OneChanged ==
  ASSUME NEW f, PerGrant(f), NEW g, PerGrant(g), NEW d \in Docs, NEW v \in Viewers, NEW x,
         g[d][v] = x, \A e \in Docs, w \in Viewers : e # d \/ w # v => g[e][w] = f[e][w]
  PROVE  g = [f EXCEPT ![d][v] = x]
<1> DEFINE h == [f EXCEPT ![d][v] = x]
<1>1. h = [e \in Docs |-> IF e = d THEN [f[d] EXCEPT ![v] = x] ELSE f[e]]
  BY DEF PerGrant
<1>2. ASSUME NEW e \in Docs PROVE g[e] = h[e]
  <2>1. CASE e # d
    BY <1>1, <2>1 DEF PerGrant
  <2>2. CASE e = d
    <3>1. h[e] = [f[d] EXCEPT ![v] = x]
      BY <1>1, <2>2
    <3>2. f[d] = [w \in Viewers |-> f[d][w]] /\ g[d] = [w \in Viewers |-> g[d][w]]
      BY DEF PerGrant
    <3>3. QED BY <2>2, <3>1, <3>2
  <2>3. QED BY <2>1, <2>2
<1>3. g = [e \in Docs |-> g[e]]
  BY DEF PerGrant
<1>4. h = [e \in Docs |-> h[e]]
  BY <1>1
<1> HIDE DEF h
<1>5. g = h
  BY <1>2, <1>3, <1>4
<1>6. QED BY <1>5 DEF h

LEMMA OthersStay ==
  ASSUME TypeOK, NEW u \in Callers, NEW t \in Tabs, NEW r \in Request, Become(u, t, r),
         NEW d \in Docs, NEW v \in Viewers, v # u
  PROVE  Inside'[d][v] = Inside[d][v]
<1>1. Inside[d][v] = Opening(d, v) /\ Inside'[d][v] = Opening(d, v)'
  BY DEF Inside
<1>2. \A s \in Tabs : req'[v][s] = req[v][s]
  BY Becoming DEF Callers
<1>3. QED BY <1>1, <1>2 DEF Opening

LEMMA InsideMoves ==
  ASSUME TypeOK, NEW v \in Viewers, NEW t \in Tabs, NEW r \in Request, Become(v, t, r),
         NEW d \in Docs
  PROVE  Inside'[d][v] = IF r.doc = d /\ r.step \in {"view", "sign"}
                         THEN Inside[d][v] \union {t} ELSE Inside[d][v] \ {t}
<1>1. Inside[d][v] = Opening(d, v) /\ Inside'[d][v] = Opening(d, v)'
  BY DEF Inside
<1>2. req'[v][t] = r /\ \A s \in Tabs : s # t => req'[v][s] = req[v][s]
  BY Becoming DEF Callers
<1>3. QED BY <1>1, <1>2 DEF Opening

(* Whoever is neither let in nor out leaves everybody where they are. *)
LEMMA InsideStays ==
  ASSUME TypeOK, NEW u \in Callers, NEW t \in Tabs, NEW r \in Request, Become(u, t, r),
         \/ u = Owner
         \/ r.step \notin {"view", "sign"} /\ req[u][t].step \notin {"view", "sign"}
         \/ /\ r.step \in {"view", "sign"} /\ req[u][t].step \in {"view", "sign"}
            /\ r.doc = req[u][t].doc
  PROVE  Inside' = Inside
<1> SUFFICES ASSUME NEW d \in Docs, NEW v \in Viewers PROVE Inside'[d][v] = Inside[d][v]
  BY DEF Inside
<1>1. CASE v # u
  BY <1>1, OthersStay
<1>2. CASE v = u
  <2>1. Inside[d][v] = Opening(d, v)
    BY DEF Inside
  <2>2. t \in Inside[d][v] <=> req[v][t].doc = d /\ req[v][t].step \in {"view", "sign"}
    BY <2>1 DEF Opening
  <2>3. Inside'[d][v] = IF r.doc = d /\ r.step \in {"view", "sign"}
                        THEN Inside[d][v] \union {t} ELSE Inside[d][v] \ {t}
    BY <1>2, InsideMoves
  <2>4. v # Owner
    BY DGAssumption
  <2>5. QED BY <1>2, <2>2, <2>3, <2>4
<1>3. QED BY <1>1, <1>2

(* Grants that only fall, with nobody let in or out. *)
LEMMA OnlyFalls ==
  ASSUME UNCHANGED <<Inside, opens>>,
         \A d \in Docs, v \in Viewers : Standing'[d][v] \in {"none", Standing[d][v]}
  PROVE  Promise!Next
<1> DEFINE fallen == {p \in Docs \X Viewers : Standing'[p[1]][p[2]] = "none"}
           After == [d \in Docs |-> [v \in Viewers |->
                        IF <<d, v>> \in fallen THEN "none" ELSE Standing[d][v]]]
<1>1. fallen \in SUBSET (Docs \X Viewers)
  OBVIOUS
<1>2. ASSUME NEW d \in Docs, NEW v \in Viewers
      PROVE  Standing'[d][v] = IF <<d, v>> \in fallen THEN "none" ELSE Standing[d][v]
  OBVIOUS
<1> HIDE DEF fallen
<1>3. Standing' = After
  <2>1. /\ Standing' = [d \in Docs |-> [v \in Viewers |-> Standing'[d][v]]]
    BY DEF Standing
  <2>2. QED BY <1>2, <2>1
<1>4. Promise!Fall
  BY <1>1, <1>3 DEF Promise!Fall
<1>5. QED BY <1>4 DEF Promise!Next

(* A request that reads, or fails, and touches no grant. *)
LEMMA Unnoticed ==
  ASSUME UNCHANGED <<Inside, opens, now, grant>>
  PROVE  Promise!Next
<1>1. Standing' = Standing
  BY DEF Standing, Shut, Expired
<1>2. QED BY <1>1, OnlyFalls

(* What becomes of the standing of one grant when its row alone is written. *)
LEMMA StandingWritten ==
  ASSUME NEW d \in Docs, NEW v \in Viewers, NEW row, now' = now, TypeOK,
         grant' = [grant EXCEPT ![d][v] = row]
  PROVE  Standing' = [Standing EXCEPT ![d][v] =
            IF ~ row.live \/ row.revoked \/ row.expiresAt < now THEN "none"
            ELSE IF row.requireNda /\ ~ row.accepted THEN "terms"
            ELSE "open"]
<1>1. /\ grant'[d][v] = row
      /\ \A e \in Docs, w \in Viewers : e # d \/ w # v => grant'[e][w] = grant[e][w]
  BY DEF TypeOK
<1> DEFINE after == IF ~ row.live \/ row.revoked \/ row.expiresAt < now THEN "none"
                    ELSE IF row.requireNda /\ ~ row.accepted THEN "terms"
                    ELSE "open"
<1>2. Standing'[d][v] = after
  BY <1>1 DEF Standing, Shut, Expired
<1>3. \A e \in Docs, w \in Viewers : e # d \/ w # v => Standing'[e][w] = Standing[e][w]
  BY <1>1 DEF Standing, Shut, Expired
<1> HIDE DEF after
<1>4. Standing' = [Standing EXCEPT ![d][v] = after]
  BY <1>2, <1>3, ReadOff, OneChanged
<1>5. QED BY <1>4 DEF after

LEMMA UpsertGrants ==
  ASSUME RoomInv, NEW t \in Tabs, NEW days \in 1..MaxDays, NEW nda \in BOOLEAN,
         Upsert(t, days, nda)
  PROVE  Promise!Next
<1> DEFINE d == req[Owner][t].doc
           v == req[Owner][t].viewer
<1>1. TypeOK /\ d \in Docs /\ v \in Viewers
  BY OwnerOrViewer DEF RoomInv, TypeOK, Request
<1>2. Inside' = Inside
  BY <1>1, OwnerOrViewer, GotoType, InsideStays DEF Upsert, Step
<1>3. opens' = opens /\ now' = now /\ grant' = [grant EXCEPT ![d][v] = FreshRow(days, nda)]
  BY DEF Upsert
<1>4. now \in Nat /\ ~ (now + days < now)
  BY <1>1 DEF TypeOK
<1> HIDE DEF d, v
<1> DEFINE row == FreshRow(days, nda)
<1>8. /\ row.live /\ ~ row.revoked /\ ~ row.accepted /\ row.requireNda = nda
      /\ ~ (row.expiresAt < now)
  BY <1>4 DEF FreshRow
<1> HIDE DEF row
<1>9. Standing' = [Standing EXCEPT ![d][v] =
            IF ~ row.live \/ row.revoked \/ row.expiresAt < now THEN "none"
            ELSE IF row.requireNda /\ ~ row.accepted THEN "terms"
            ELSE "open"]
  BY <1>1, <1>3, StandingWritten DEF row
<1>5. \E terms \in {"terms", "open"} : Standing' = [Standing EXCEPT ![d][v] = terms]
  BY <1>8, <1>9
<1>6. Promise!Grant(d, v)
  BY <1>5 DEF Promise!Grant
<1>7. QED BY <1>1, <1>2, <1>3, <1>6 DEF Promise!Next

LEMMA RevokeFalls ==
  ASSUME RoomInv, NEW t \in Tabs, Revoke(t)
  PROVE  Promise!Next
<1> DEFINE d == req[Owner][t].doc
           v == req[Owner][t].viewer
           row == [grant[d][v] EXCEPT !.revoked = TRUE]
<1>1. TypeOK /\ d \in Docs /\ v \in Viewers
  BY OwnerOrViewer DEF RoomInv, TypeOK, Request
<1>2. Inside' = Inside
  BY <1>1, OwnerOrViewer, GotoType, InsideStays DEF Revoke, Step
<1>3. /\ opens' = opens /\ now' = now /\ grant' = [grant EXCEPT ![d][v] = row]
      /\ grant[d][v].live
  BY DEF Revoke
<1>4. grant[d][v] \in Row
  BY <1>1, <1>3 DEF TypeOK, NoRow
<1>5. row.revoked
  BY <1>4 DEF Row
<1> HIDE DEF d, v, row
<1>6. Standing' = [Standing EXCEPT ![d][v] = "none"]
  BY <1>1, <1>3, <1>5, StandingWritten
<1>7. \A e \in Docs, w \in Viewers : Standing'[e][w] \in {"none", Standing[e][w]}
  BY <1>6, <1>1, ReadOff DEF PerGrant
<1>8. QED BY <1>2, <1>3, <1>7, OnlyFalls

LEMMA AcceptMeetsTerms ==
  ASSUME RoomInv, NEW v \in Viewers, NEW t \in Tabs, Accept(v, t)
  PROVE  Promise!Next
<1> DEFINE d == req[v][t].doc
           row == [grant[d][v] EXCEPT !.accepted = TRUE]
<1>1. TypeOK /\ v \in Callers /\ d \in Docs
  BY DEF RoomInv, TypeOK, Request, Callers
<1>2. Inside' = Inside
  BY <1>1, DoneType, InsideStays DEF Accept, At
<1>3. /\ opens' = opens /\ now' = now /\ grant' = [grant EXCEPT ![d][v] = row]
      /\ grant[d][v].live
  BY DEF Accept
<1>4. grant[d][v] \in Row
  BY <1>1, <1>3 DEF TypeOK, NoRow
<1>5. /\ row.live = grant[d][v].live /\ row.revoked = grant[d][v].revoked
      /\ row.expiresAt = grant[d][v].expiresAt /\ row.accepted
  BY <1>4 DEF Row
<1>6. Standing[d][v] = IF Shut(d, v) THEN "none"
                       ELSE IF grant[d][v].requireNda /\ ~ grant[d][v].accepted THEN "terms"
                       ELSE "open"
  BY <1>1 DEF Standing
<1> HIDE DEF d, row
<1>7. Standing' = [Standing EXCEPT ![d][v] = IF Shut(d, v) THEN "none" ELSE "open"]
  BY <1>1, <1>3, <1>5, StandingWritten DEF Shut, Expired
<1>8. CASE Standing[d][v] = "terms"
  <2>1. Promise!AcceptTerms(d, v)
    BY <1>6, <1>7, <1>8 DEF Promise!AcceptTerms
  <2>2. QED BY <1>1, <1>2, <1>3, <2>1 DEF Promise!Next
<1>9. CASE Standing[d][v] # "terms"
  <2>1. \A e \in Docs, w \in Viewers : Standing'[e][w] \in {"none", Standing[e][w]}
    BY <1>1, <1>6, <1>7, <1>9, ReadOff DEF PerGrant
  <2>2. QED BY <1>2, <1>3, <2>1, OnlyFalls
<1>10. QED BY <1>8, <1>9

LEMMA DeleteFalls ==
  ASSUME RoomInv, NEW t \in Tabs, Delete(t)
  PROVE  Promise!Next
<1>1. TypeOK /\ opens' = opens /\ now' = now
  BY DEF RoomInv, Delete
<1>2. Inside' = Inside
  BY <1>1, OwnerOrViewer, GotoType, DoneType, InsideStays DEF Delete, Step
<1>3. ASSUME NEW d \in Docs, NEW v \in Viewers
      PROVE  Standing'[d][v] \in {"none", Standing[d][v]}
  <2>1. grant'[d][v] \in {NoRow, grant[d][v]}
    <3>1. grant' \in {grant, [grant EXCEPT ![req[Owner][t].doc] = [w \in Viewers |-> NoRow]]}
      BY DEF Delete, rows
    <3>2. grant \in [Docs -> [Viewers -> Row \union {NoRow}]]
      BY <1>1 DEF TypeOK
    <3>3. QED BY <3>1, <3>2
  <2>2. CASE grant'[d][v] = NoRow
    BY <2>2 DEF Standing, Shut, NoRow
  <2>3. CASE grant'[d][v] = grant[d][v]
    BY <1>1, <2>3 DEF Standing, Shut, Expired
  <2>4. QED BY <2>1, <2>2, <2>3
<1>4. QED BY <1>1, <1>2, <1>3, OnlyFalls

LEMMA TickFalls ==
  ASSUME RoomInv, Tick
  PROVE  Promise!Next
<1>1. TypeOK /\ now' = now + 1 /\ UNCHANGED <<grant, opens, req>>
  BY DEF RoomInv, Tick, rows
<1>2. Inside' = Inside
  BY <1>1 DEF Inside, Opening
<1>3. ASSUME NEW d \in Docs, NEW v \in Viewers
      PROVE  Standing'[d][v] \in {"none", Standing[d][v]}
  <2>1. grant[d][v] \in Row \union {NoRow} /\ now \in Nat
    BY <1>1 DEF TypeOK
  <2>2. Shut(d, v) => Shut(d, v)'
    <3>1. CASE grant[d][v] \in Row
      <4>0. 1..MaxTime + MaxDays \subseteq Int
        BY DGAssumption
      <4>1. grant[d][v].expiresAt \in Int
        BY <3>1, <4>0, Zenon DEF Row
      <4>2. QED BY <1>1, <2>1, <4>1 DEF Shut, Expired
    <3>2. CASE grant[d][v] = NoRow
      BY <1>1, <3>2 DEF Shut, NoRow
    <3>3. QED BY <2>1, <3>1, <3>2
  <2>3. QED BY <1>1, <2>2 DEF Standing
<1>4. QED BY <1>1, <1>2, <1>3, OnlyFalls

LEMMA AccessEnters ==
  ASSUME RoomInv, NEW v \in Viewers, NEW t \in Tabs, NEW d \in Docs, CheckAccess(v, t, d)
  PROVE  Promise!Next
<1>1. TypeOK /\ v \in Callers
  BY DEF RoomInv, Callers
<1>2. PICK r \in Request : r.step = "view" /\ r.doc = d /\ Become(v, t, r)
  BY <1>1, BeginType DEF CheckAccess, Step, Action
<1>3. req[v][t].step = "idle" /\ opens' = opens /\ UNCHANGED <<now, grant>>
  BY DEF CheckAccess, Begin, At, rows
<1>4. Inside' = [Inside EXCEPT ![d][v] = @ \union {t}]
  <2>1. ASSUME NEW e \in Docs, NEW w \in Viewers, e # d \/ w # v
        PROVE  Inside'[e][w] = Inside[e][w]
    <3>1. CASE w # v
      BY <1>1, <1>2, <3>1, OthersStay
    <3>2. CASE w = v
      <4>1. t \notin Inside[e][w]
        BY <1>3, <2>1, <3>2 DEF Inside, Opening
      <4>2. Inside'[e][v] = Inside[e][v] \ {t}
        BY <1>1, <1>2, <2>1, <3>2, InsideMoves
      <4>3. QED BY <3>2, <4>1, <4>2
    <3>3. QED BY <3>1, <3>2
  <2>2. Inside'[d][v] = Inside[d][v] \union {t}
    BY <1>1, <1>2, InsideMoves
  <2>3. QED BY <1>1, <2>1, <2>2, ReadOff, OneChanged
<1>5. Standing[d][v] = "open" /\ Standing' = Standing
  BY <1>3 DEF CheckAccess, MayOpen, Standing, Shut, Expired
<1>6. t \notin Inside[d][v]
  BY <1>3 DEF Inside, Opening
<1>7. Promise!Enter(d, v, t)
  BY <1>3, <1>4, <1>5, <1>6 DEF Promise!Enter
<1>8. QED BY <1>5, <1>7 DEF Promise!Next

(* Whoever ends a request is no longer inside with it. *)
LEMMA InsideLeft ==
  ASSUME TypeOK, NEW v \in Viewers, NEW t \in Tabs, NEW r \in Request, Become(v, t, r),
         r.step \notin {"view", "sign"}
  PROVE  Inside' = [Inside EXCEPT ![req[v][t].doc][v] = @ \ {t}]
<1> DEFINE d == req[v][t].doc
<1>1. TypeOK /\ v \in Callers /\ d \in Docs
  BY DEF TypeOK, Request, Callers
<1>2. \A e \in Docs : e # d => t \notin Inside[e][v]
  BY DEF Inside, Opening
<1> HIDE DEF d
<1>3. ASSUME NEW e \in Docs PROVE Inside'[e][v] = Inside[e][v] \ {t}
  BY InsideMoves
<1>4. ASSUME NEW e \in Docs, NEW w \in Viewers, e # d \/ w # v
      PROVE  Inside'[e][w] = Inside[e][w]
  <2>1. CASE w # v
    BY <1>1, <2>1, OthersStay
  <2>2. CASE w = v
    BY <1>2, <1>3, <1>4, <2>2
  <2>3. QED BY <2>1, <2>2
<1>5. Inside' = [Inside EXCEPT ![d][v] = @ \ {t}]
  BY <1>1, <1>3, <1>4, ReadOff, OneChanged
<1>6. QED BY <1>5 DEF d

(* A request that was let in and ends, with its link or without. *)
LEMMA Leaves ==
  ASSUME RoomInv, NEW v \in Viewers, NEW t \in Tabs, Done(v, t),
         req[v][t].step \in {"view", "sign"}, UNCHANGED <<now, grant>>,
         \/ opens' = opens
         \/ opens' = [opens EXCEPT ![req[v][t].doc][v] = @ + 1]
  PROVE  Promise!Next
<1> DEFINE d == req[v][t].doc
<1>1. TypeOK /\ v \in Callers /\ d \in Docs
  BY DEF RoomInv, TypeOK, Request, Callers
<1>2. t \in Inside[d][v]
  BY <1>1 DEF Inside, Opening
<1>3. Inside' = [Inside EXCEPT ![d][v] = @ \ {t}]
  BY <1>1, DoneType, InsideLeft
<1>4. Standing' = Standing
  BY DEF Standing, Shut, Expired
<1>5. opens' = opens \/ opens' = [opens EXCEPT ![d][v] = @ + 1]
  OBVIOUS
<1> HIDE DEF d
<1>6. Promise!Leave(d, v, t)
  BY <1>2, <1>3, <1>5 DEF Promise!Leave
<1>7. QED BY <1>1, <1>4, <1>6 DEF Promise!Next

LEMMA OwnerKeepsPromise ==
  ASSUME RoomInv, NEW t \in Tabs, OwnerStep(t)
  PROVE  Promise!Next
<1>1. TypeOK /\ Owner \in Callers
  BY OwnerOrViewer DEF RoomInv
<1>2. ASSUME NEW r \in Request, Become(Owner, t, r), UNCHANGED <<opens, now, grant>>
      PROVE  Promise!Next
  BY <1>1, <1>2, InsideStays, Unnoticed
<1>3. CASE \E d \in Docs : Upload(t, d)
  BY <1>1, <1>2, <1>3, BeginType DEF Upload, Step, Action
<1>4. CASE \E d \in Docs : CheckRemove(t, d)
  BY <1>1, <1>2, <1>4, BeginType DEF CheckRemove, Step, Action, rows
<1>5. CASE Delete(t)
  BY <1>5, DeleteFalls
<1>6. CASE \E d \in Docs, v \in Viewers : CheckGrant(t, d, v)
  BY <1>1, <1>2, <1>6, BeginType DEF CheckGrant, Step, Action, rows
<1>7. CASE \E days \in 1..MaxDays, nda \in BOOLEAN : Upsert(t, days, nda)
  BY <1>7, UpsertGrants
<1>8. CASE \E d \in Docs, v \in Viewers : CheckRevoke(t, d, v)
  BY <1>1, <1>2, <1>8, BeginType DEF CheckRevoke, Step, Action, rows
<1>9. CASE Revoke(t)
  BY <1>9, RevokeFalls
<1>10. CASE RecordAudit(t)
  BY <1>1, <1>2, <1>10, DoneType DEF RecordAudit, rows
<1>11. QED BY <1>3, <1>4, <1>5, <1>6, <1>7, <1>8, <1>9, <1>10 DEF OwnerStep

LEMMA ViewerKeepsPromise ==
  ASSUME RoomInv, NEW v \in Viewers, NEW t \in Tabs, ViewerStep(v, t)
  PROVE  Promise!Next
<1>1. TypeOK /\ v \in Callers
  BY DEF RoomInv, Callers
<1>2. CASE \E d \in Docs : CheckAccept(v, t, d)
  <2>1. PICK d \in Docs : CheckAccept(v, t, d)
    BY <1>2
  <2>2. PICK r \in Request : r.step = "accept" /\ Become(v, t, r)
    BY <1>1, <2>1, BeginType DEF CheckAccept, Step, Action
  <2>3. req[v][t].step = "idle" /\ UNCHANGED <<opens, now, grant>>
    BY <2>1 DEF CheckAccept, Begin, At, rows
  <2>4. QED BY <1>1, <2>2, <2>3, InsideStays, Unnoticed
<1>3. CASE Accept(v, t)
  BY <1>3, AcceptMeetsTerms
<1>4. CASE \E d \in Docs : CheckAccess(v, t, d)
  BY <1>4, AccessEnters
<1>5. CASE LogView(v, t)
  <2>1. PICK r \in Request : r.step = "sign" /\ r.doc = req[v][t].doc /\ Become(v, t, r)
    BY <1>1, <1>5, GotoType DEF LogView, Step
  <2>2. req[v][t].step = "view" /\ UNCHANGED <<opens, now, grant>>
    BY <1>5 DEF LogView, At
  <2>3. QED BY <1>1, <2>1, <2>2, InsideStays, Unnoticed
<1>6. CASE Sign(v, t)
  BY <1>6, Leaves DEF Sign, At, rows
<1>7. QED BY <1>2, <1>3, <1>4, <1>5, <1>6 DEF ViewerStep

LEMMA AbortKeepsPromise ==
  ASSUME RoomInv, NEW u \in Callers, NEW t \in Tabs, Abort(u, t)
  PROVE  Promise!Next
<1>1. TypeOK /\ Done(u, t) /\ UNCHANGED <<opens, now, grant>>
  BY DEF RoomInv, Abort, rows
<1>2. CASE u = Owner \/ req[u][t].step \notin {"view", "sign"}
  BY <1>1, <1>2, DoneType, InsideStays, Unnoticed
<1>3. CASE u # Owner /\ req[u][t].step \in {"view", "sign"}
  BY <1>1, <1>3, Leaves DEF Callers
<1>4. QED BY <1>2, <1>3

LEMMA PromiseStep == RoomInv /\ [Next]_vars => [Promise!Next]_(Promise!vars)
<1> SUFFICES ASSUME RoomInv, [Next]_vars PROVE [Promise!Next]_(Promise!vars)
  OBVIOUS
<1>1. CASE \E t \in Tabs : OwnerStep(t)
  BY <1>1, OwnerKeepsPromise
<1>2. CASE \E v \in Viewers, t \in Tabs : ViewerStep(v, t)
  BY <1>2, ViewerKeepsPromise
<1>3. CASE \E u \in Callers, t \in Tabs : Abort(u, t)
  BY <1>3, AbortKeepsPromise
<1>4. CASE Tick
  BY <1>4, TickFalls
<1>5. CASE UNCHANGED vars
  <2>1. UNCHANGED <<now, grant, opens, req>>
    BY <1>5 DEF vars, rows
  <2>2. UNCHANGED <<Standing, Inside, opens>>
    BY <2>1 DEF Standing, Inside, Shut, Expired, Opening
  <2>3. QED BY <2>2 DEF Promise!vars
<1>6. QED BY <1>1, <1>2, <1>3, <1>4, <1>5 DEF Next

LEMMA PromiseInit == Init => Promise!Init
<1> SUFFICES ASSUME Init PROVE Promise!Init
  OBVIOUS
<1>1. ASSUME NEW d \in Docs, NEW v \in Viewers
      PROVE  Shut(d, v) /\ Opening(d, v) = {}
  BY <1>1, IdleType DEF Init, PerViewer, Shut, NoRow, Opening, Callers
<1>2. Standing = [d \in Docs |-> [v \in Viewers |-> "none"]]
  BY <1>1 DEF Standing
<1>3. Inside = [d \in Docs |-> [v \in Viewers |-> {}]]
  BY <1>1 DEF Inside
<1>4. QED BY <1>2, <1>3 DEF Init, PerViewer, Promise!Init, Promise!PerViewer

(* The data room keeps AccessPromise, for any documents, viewers and requests
   in flight: a link goes only to requests that were let in while the owner's
   grant stood, whatever was revoked, expired or deleted in between. *)
THEOREM KeepsPromise == Spec => ImplementsAccessPromise
<1>1. Init => Promise!Init
  BY PromiseInit
<1>2. RoomInv /\ [Next]_vars => [Promise!Next]_(Promise!vars)
  BY PromiseStep
<1>3. QED BY <1>1, <1>2, RoomInvariant, PTL DEF Spec, ImplementsAccessPromise, Promise!Spec
==============================================================================

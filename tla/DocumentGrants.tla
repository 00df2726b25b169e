---------------------------- MODULE DocumentGrants ----------------------------
(***************************************************************************)
(* The permissioned data room: DocumentAccessService (grant, revoke,       *)
(* acceptNda, access) and DocumentsService (upload, remove).  One owner    *)
(* shares documents with viewers; every handler reads first and writes     *)
(* later, so the grant it decided on may have been renewed, revoked or     *)
(* deleted by the time it writes.                                          *)
(***************************************************************************)
EXTENDS Naturals, FiniteSets

CONSTANTS
    Docs,
    Viewers,
    Owner,
    Tabs,        \* bound: requests one caller can have in flight
    MaxTime,     \* bound on the clock, in days
    MaxDays,     \* largest expiresInDays asked for
    MaxGrants,   \* bound: grants ever written to one viewer of one document
    MaxViews     \* bound: views ever logged for one viewer of one document

ASSUME DGAssumption ==
    /\ Docs # {} /\ Viewers # {} /\ Owner \notin Viewers
    /\ IsFiniteSet(Tabs)
    /\ MaxTime \in Nat /\ MaxDays \in Nat /\ MaxGrants \in Nat /\ MaxViews \in Nat

VARIABLES
    now,
    doc,      \* doc[d]: the Document row
    grant,    \* grant[d][v]: the DocumentGrant row, or nothing
    views,    \* views[d][v]: DocumentView rows
    opens,    \* opens[d][v]: signed URLs handed to v
    audit,    \* audit[d]: document and document_grant actions in the audit log
    round,    \* history: how often grant[d][v] was written by a grant
    lax,      \* history: a grant without NDA was written
    consent,  \* history: the round of the grant v read before it accepted
    req       \* req[u][t]: the request u runs in tab t

rows == <<doc, grant, views>>
history == <<round, lax, consent>>
vars == <<now, rows, opens, audit, history, req>>

Callers == Viewers \union {Owner}
Row == [live : {TRUE}, expiresAt : 1..MaxTime + MaxDays, requireNda : BOOLEAN,
        accepted : BOOLEAN, revoked : BOOLEAN]
NoRow == [live |-> FALSE]
Action == {"uploaded", "deleted", "granted", "revoked"}
Step == {"idle", "delete", "upsert", "revoke", "accept", "view", "sign", "audit"}

(* round is history: the round of the grant that acceptNda has read. *)
Request == [step : Step, doc : Docs, viewer : Viewers, round : 0..MaxGrants, did : Action]

TypeOK ==
    /\ now \in 0..MaxTime
    /\ doc \in [Docs -> {"absent", "stored", "deleted"}]
    /\ grant \in [Docs -> [Viewers -> Row \union {NoRow}]]
    /\ views \in [Docs -> [Viewers -> 0..MaxViews]]
    /\ opens \in [Docs -> [Viewers -> Nat]]
    /\ audit \in [Docs -> SUBSET Action]
    /\ round \in [Docs -> [Viewers -> 0..MaxGrants]]
    /\ lax \in [Docs -> [Viewers -> BOOLEAN]]
    /\ consent \in [Docs -> [Viewers -> 0..MaxGrants]]
    /\ req \in [Callers -> [Tabs -> Request]]

Idle == [step |-> "idle", doc |-> CHOOSE d \in Docs : TRUE,
         viewer |-> CHOOSE v \in Viewers : TRUE, round |-> 0, did |-> "uploaded"]

PerViewer(x) == [d \in Docs |-> [v \in Viewers |-> x]]

Init ==
    /\ now = 0
    /\ doc = [d \in Docs |-> "absent"]
    /\ grant = PerViewer(NoRow)
    /\ views = PerViewer(0)
    /\ opens = PerViewer(0)
    /\ audit = [d \in Docs |-> {}]
    /\ round = PerViewer(0)
    /\ lax = PerViewer(FALSE)
    /\ consent = PerViewer(0)
    /\ req = [u \in Callers |-> [t \in Tabs |-> Idle]]

Become(u, t, r) == req' = [req EXCEPT ![u][t] = r]
At(u, t, step) == req[u][t].step = step
Done(u, t) == Become(u, t, Idle)
Goto(u, t, step) == Become(u, t, [req[u][t] EXCEPT !.step = step])
Begin(u, t, step, d, v, did) ==
    /\ At(u, t, "idle")
    /\ Become(u, t, [step |-> step, doc |-> d, viewer |-> v,
                     round |-> IF step = "accept" THEN round[d][v] ELSE 0, did |-> did])

------------------------------------------------------------------------------
(* DocumentsService *)
Upload(t, d) ==
    /\ doc[d] = "absent"
    /\ doc' = [doc EXCEPT ![d] = "stored"]
    /\ \E v \in Viewers : Begin(Owner, t, "audit", d, v, "uploaded")
    /\ UNCHANGED <<now, grant, views, opens, audit, history>>

CheckRemove(t, d) ==
    /\ doc[d] = "stored"
    /\ \E v \in Viewers : Begin(Owner, t, "delete", d, v, "deleted")
    /\ UNCHANGED <<now, rows, opens, audit, history>>

(* The delete cascades to grants and views; a second delete finds no row. *)
Delete(t) ==
    LET d == req[Owner][t].doc IN
    /\ At(Owner, t, "delete")
    /\ IF doc[d] = "stored"
         THEN /\ doc' = [doc EXCEPT ![d] = "deleted"]
              /\ grant' = [grant EXCEPT ![d] = [v \in Viewers |-> NoRow]]
              /\ views' = [views EXCEPT ![d] = [v \in Viewers |-> 0]]
              /\ Goto(Owner, t, "audit")
         ELSE UNCHANGED rows /\ Done(Owner, t)
    /\ UNCHANGED <<now, opens, audit, history>>

------------------------------------------------------------------------------
(* grant: ownedDocument and the recipient are looked up first. *)
CheckGrant(t, d, v) ==
    /\ doc[d] = "stored"
    /\ Begin(Owner, t, "upsert", d, v, "granted")
    /\ UNCHANGED <<now, rows, opens, audit, history>>

FreshRow(days, nda) ==
    [live |-> TRUE, expiresAt |-> now + days, requireNda |-> nda,
     accepted |-> FALSE, revoked |-> FALSE]

(* The upsert; the foreign key refuses it once the document is gone. *)
Upsert(t, days, nda) ==
    LET d == req[Owner][t].doc
        v == req[Owner][t].viewer IN
    /\ At(Owner, t, "upsert")
    /\ doc[d] = "stored"
    /\ round[d][v] < MaxGrants
    /\ grant' = [grant EXCEPT ![d][v] = FreshRow(days, nda)]
    /\ round' = [round EXCEPT ![d][v] = @ + 1]
    /\ lax' = [lax EXCEPT ![d][v] = @ \/ ~ nda]
    /\ Goto(Owner, t, "audit")
    /\ UNCHANGED <<now, doc, views, opens, audit, consent>>

CheckRevoke(t, d, v) ==
    /\ grant[d][v].live
    /\ Begin(Owner, t, "revoke", d, v, "revoked")
    /\ UNCHANGED <<now, rows, opens, audit, history>>

(* update by the grant's id, whatever became of it meanwhile. *)
Revoke(t) ==
    LET d == req[Owner][t].doc
        v == req[Owner][t].viewer IN
    /\ At(Owner, t, "revoke")
    /\ grant[d][v].live
    /\ grant' = [grant EXCEPT ![d][v].revoked = TRUE]
    /\ Goto(Owner, t, "audit")
    /\ UNCHANGED <<now, doc, views, opens, audit, history>>

RecordAudit(t) ==
    /\ At(Owner, t, "audit")
    /\ audit' = [audit EXCEPT ![req[Owner][t].doc] = @ \union {req[Owner][t].did}]
    /\ Done(Owner, t)
    /\ UNCHANGED <<now, rows, opens, history>>

------------------------------------------------------------------------------
(* acceptNda: nothing is written unless the grant read asks for an NDA. *)
CheckAccept(v, t, d) ==
    /\ grant[d][v].live
    /\ grant[d][v].requireNda
    /\ Begin(v, t, "accept", d, v, "granted")
    /\ UNCHANGED <<now, rows, opens, audit, history>>

Accept(v, t) ==
    LET d == req[v][t].doc IN
    /\ At(v, t, "accept")
    /\ grant[d][v].live
    /\ grant' = [grant EXCEPT ![d][v].accepted = TRUE]
    /\ consent' = [consent EXCEPT ![d][v] = req[v][t].round]
    /\ Done(v, t)
    /\ UNCHANGED <<now, doc, views, opens, audit, round, lax>>

Expired(g) == g.expiresAt < now
(* Variants carrying a bug: one check of access is missing. *)
MayOpenWithoutNda(g) == g.live /\ ~ g.revoked /\ ~ Expired(g)
MayOpenRevoked(g) == g.live /\ ~ Expired(g) /\ (g.requireNda => g.accepted)

MayOpen(g) ==
    /\ g.live
    /\ ~ g.revoked
    /\ ~ Expired(g)
    /\ g.requireNda => g.accepted

(* access: the document, then the grant. *)
CheckAccess(v, t, d) ==
    /\ doc[d] = "stored"
    /\ MayOpen(grant[d][v])
    /\ Begin(v, t, "view", d, v, "granted")
    /\ UNCHANGED <<now, rows, opens, audit, history>>

(* Variant carrying a bug: one view per viewer, however often they open it. *)
LogViewOnce(v, t) ==
    LET d == req[v][t].doc IN
    /\ At(v, t, "view")
    /\ doc[d] = "stored"
    /\ views' = [views EXCEPT ![d][v] = 1]
    /\ Goto(v, t, "sign")
    /\ UNCHANGED <<now, doc, grant, opens, audit, history>>

(* The view is logged first; its foreign key needs the document. *)
LogView(v, t) ==
    LET d == req[v][t].doc IN
    /\ At(v, t, "view")
    /\ doc[d] = "stored"
    /\ views[d][v] < MaxViews
    /\ views' = [views EXCEPT ![d][v] = @ + 1]
    /\ Goto(v, t, "sign")
    /\ UNCHANGED <<now, doc, grant, opens, audit, history>>

(* Signing is local: it asks neither the database nor the bucket. *)
Sign(v, t) ==
    LET d == req[v][t].doc IN
    /\ At(v, t, "sign")
    /\ opens' = [opens EXCEPT ![d][v] = @ + 1]
    /\ Done(v, t)
    /\ UNCHANGED <<now, rows, audit, history>>

(* A refused write, a failed await, or a stop of the process. *)
Abort(u, t) ==
    /\ ~ At(u, t, "idle")
    /\ Done(u, t)
    /\ UNCHANGED <<now, rows, opens, audit, history>>

Tick ==
    /\ now < MaxTime
    /\ now' = now + 1
    /\ UNCHANGED <<rows, opens, audit, history, req>>

OwnerStep(t) ==
    \/ \E d \in Docs : Upload(t, d)
    \/ \E d \in Docs : CheckRemove(t, d)
    \/ Delete(t)
    \/ \E d \in Docs, v \in Viewers : CheckGrant(t, d, v)
    \/ \E days \in 1..MaxDays, nda \in BOOLEAN : Upsert(t, days, nda)
    \/ \E d \in Docs, v \in Viewers : CheckRevoke(t, d, v)
    \/ Revoke(t)
    \/ RecordAudit(t)

ViewerStep(v, t) ==
    \/ \E d \in Docs : CheckAccept(v, t, d)
    \/ Accept(v, t)
    \/ \E d \in Docs : CheckAccess(v, t, d)
    \/ LogView(v, t)
    \/ Sign(v, t)

Next ==
    \/ \E t \in Tabs : OwnerStep(t)
    \/ \E v \in Viewers, t \in Tabs : ViewerStep(v, t)
    \/ \E u \in Callers, t \in Tabs : Abort(u, t)
    \/ Tick

Spec == Init /\ [][Next]_vars
------------------------------------------------------------------------------
(* Requests of v that have passed the check of access on d. *)
Opening(d, v) ==
    {t \in Tabs : req[v][t].doc = d /\ req[v][t].step \in {"view", "sign"}}

(***************************************************************************)
(* Every link handed out is in the view log, as long as the document (and  *)
(* with it the log) exists; what the audit log names has happened.         *)
(***************************************************************************)
LogsAreHonest ==
    \A d \in Docs :
        /\ doc[d] = "stored" => \A v \in Viewers : opens[d][v] <= views[d][v]
        /\ "deleted" \in audit[d] => doc[d] = "deleted"
        /\ "granted" \in audit[d] => \E v \in Viewers : round[d][v] > 0
        /\ "revoked" \in audit[d] => \E v \in Viewers : round[d][v] > 0

(***************************************************************************)
(* Nobody gets a file the owner never shared with them, nor one that was   *)
(* only ever shared under an NDA they never accepted.                      *)
(***************************************************************************)
NoFileWithoutConsent ==
    \A d \in Docs, v \in Viewers :
        opens[d][v] > 0 => round[d][v] > 0 /\ (lax[d][v] \/ consent[d][v] > 0)

(***************************************************************************)
(* "A revoked/expired grant actually stops access": once nothing that      *)
(* passed the check earlier is left, a viewer whose grant is revoked,      *)
(* expired or deleted with its document gets no link, and no request of    *)
(* theirs starts towards one, until the owner grants again.                *)
(***************************************************************************)
Shut(d, v) == ~ grant[d][v].live \/ grant[d][v].revoked \/ Expired(grant[d][v])

RevocationStopsAccess ==
    [][\A d \in Docs, v \in Viewers :
          Shut(d, v) /\ Opening(d, v) = {}
              => opens'[d][v] = opens[d][v] /\ Opening(d, v)' = {}]_vars

(* The state of the promise, read off the rows and the requests. *)
Standing == [d \in Docs |-> [v \in Viewers |->
    IF Shut(d, v) THEN "none"
    ELSE IF grant[d][v].requireNda /\ ~ grant[d][v].accepted THEN "terms"
    ELSE "open"]]

Inside == [d \in Docs |-> [v \in Viewers |-> Opening(d, v)]]

Promise == INSTANCE AccessPromise WITH
    Tickets <- Tabs, standing <- Standing, links <- opens, inside <- Inside

(***************************************************************************)
(* The data room keeps what AccessPromise says, however its requests       *)
(* interleave: every link goes to a request that was let in while the      *)
(* grant stood and its terms were met, and a grant that has fallen stands  *)
(* again only when the owner grants again.                                 *)
(***************************************************************************)
ImplementsAccessPromise == Promise!Spec

(***************************************************************************)
(* A deleted document leaves no grant and no view behind, and never comes  *)
(* back through a grant or a view that was under way.                      *)
(***************************************************************************)
DeletedLeavesNothing ==
    \A d \in Docs :
        doc[d] = "deleted" =>
            \A v \in Viewers : ~ grant[d][v].live /\ views[d][v] = 0

(* What every state of the data room is: well formed, with logs that name
   what happened and nothing left of a deleted document. *)
RoomIsSound == TypeOK /\ LogsAreHonest /\ DeletedLeavesNothing
==============================================================================

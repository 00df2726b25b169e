-------------------------- MODULE RelationshipClaims --------------------------
(***************************************************************************)
(* Two-sided confirmation: RelationshipClaimsService.create and respond.   *)
(* A profile claims a relationship with another one, and the owner of that *)
(* other profile confirms or denies it.  A confirmation is worth a V2      *)
(* VerificationRecord to each side.  A user owns one profile and a profile *)
(* never changes owner, so a profile also stands for its owner.            *)
(***************************************************************************)
EXTENDS Naturals, FiniteSets

CONSTANTS
    Profiles,   \* startups, investors, incubators, universities
    Claims,     \* bound: ids of the claims ever filed
    OwnerTabs,  \* bound: requests one owner can have in flight
    Nothing     \* no profile, and no claim

ASSUME RCAssumption ==
    /\ IsFiniteSet(OwnerTabs)
    /\ Nothing \notin Profiles \union Claims

VARIABLES
    claimant,       \* claimant[c]: the profile that filed c, Nothing before that
    target,         \* target[c]: the profile c is about
    claimStatus,    \* RelationshipClaim.status
    records,        \* records[c][side]: VerificationRecord rows a confirmation of c wrote
    claimNotices,   \* claimNotices[c]: relationship-claim.* events emitted about c
    claimAudit,     \* claimAudit[c]: audit-log actions recorded for c
    answersWritten, \* history: how often each answer was written to status
    cut,            \* history: claims a request about which was cut short
    claimReq        \* claimReq[p][t]: the request that p's owner runs in tab t

claimRows == <<claimant, target, claimStatus>>
claimsVars == <<claimRows, records, claimNotices, claimAudit, answersWritten, cut, claimReq>>

ClaimAnswer == {"CONFIRMED", "DENIED"}
ClaimSide == {"claimant", "target"}
Event == ClaimAnswer \union {"created"}
ClaimStep == {"idle", "update", "records", "resolve", "audit"}
ClaimRequest == [step : ClaimStep, claim : Claims \union {Nothing}, about : Event]

ClaimsTypeOK ==
    /\ claimant \in [Claims -> Profiles \union {Nothing}]
    /\ target \in [Claims -> Profiles \union {Nothing}]
    /\ claimStatus \in [Claims -> ClaimAnswer \union {"PENDING"}]
    /\ records \in [Claims -> [ClaimSide -> Nat]]
    /\ claimNotices \in [Claims -> SUBSET Event]
    /\ claimAudit \in [Claims -> SUBSET Event]
    /\ answersWritten \in [Claims -> [ClaimAnswer -> Nat]]
    /\ cut \subseteq Claims
    /\ claimReq \in [Profiles -> [OwnerTabs -> ClaimRequest]]

Filed(c) == claimant[c] # Nothing
ClaimIdle == [step |-> "idle", claim |-> Nothing, about |-> "created"]

ClaimsInit ==
    /\ claimant = [c \in Claims |-> Nothing]
    /\ target = [c \in Claims |-> Nothing]
    /\ claimStatus = [c \in Claims |-> "PENDING"]
    /\ records = [c \in Claims |-> [s \in ClaimSide |-> 0]]
    /\ claimNotices = [c \in Claims |-> {}]
    /\ claimAudit = [c \in Claims |-> {}]
    /\ answersWritten = [c \in Claims |-> [a \in ClaimAnswer |-> 0]]
    /\ cut = {}
    /\ claimReq = [p \in Profiles |-> [t \in OwnerTabs |-> ClaimIdle]]

ClaimBecome(p, t, r) == claimReq' = [claimReq EXCEPT ![p][t] = r]
ClaimGoto(p, t, step) == ClaimBecome(p, t, [claimReq[p][t] EXCEPT !.step = step])
At(p, t, step) == claimReq[p][t].step = step

------------------------------------------------------------------------------
(* create: neither party may be the other, nothing stops a second claim about
   the same pair; the event follows the insert without an await. *)
Create(p, t, c, q) ==
    /\ At(p, t, "idle")
    /\ ~ Filed(c)
    /\ q # p
    /\ claimant' = [claimant EXCEPT ![c] = p]
    /\ target' = [target EXCEPT ![c] = q]
    /\ claimNotices' = [claimNotices EXCEPT ![c] = @ \union {"created"}]
    /\ ClaimBecome(p, t, [step |-> "audit", claim |-> c, about |-> "created"])
    /\ UNCHANGED <<claimStatus, records, claimAudit, answersWritten, cut>>

(* Variant carrying a bug: the status is not looked at. *)
CheckRespondClaimAnytime(p, t, c, a) ==
    /\ At(p, t, "idle")
    /\ Filed(c)
    /\ target[c] = p
    /\ ClaimBecome(p, t, [step |-> "update", claim |-> c, about |-> a])
    /\ UNCHANGED <<claimRows, records, claimNotices, claimAudit, answersWritten, cut>>

(* respond's reads: the claim is PENDING and about the caller's profile. *)
CheckRespondClaim(p, t, c, a) ==
    /\ At(p, t, "idle")
    /\ Filed(c)
    /\ claimStatus[c] = "PENDING"
    /\ target[c] = p
    /\ ClaimBecome(p, t, [step |-> "update", claim |-> c, about |-> a])
    /\ UNCHANGED <<claimRows, records, claimNotices, claimAudit, answersWritten, cut>>

(* relationshipClaim.update by id alone. *)
WriteClaimAnswer(p, t) ==
    LET c == claimReq[p][t].claim
        a == claimReq[p][t].about IN
    /\ At(p, t, "update")
    /\ claimStatus' = [claimStatus EXCEPT ![c] = a]
    /\ answersWritten' = [answersWritten EXCEPT ![c][a] = @ + 1]
    /\ ClaimGoto(p, t, IF a = "CONFIRMED" THEN "records" ELSE "resolve")
    /\ UNCHANGED <<claimant, target, records, claimNotices, claimAudit, cut>>

(* Variant carrying a bug: only the claimant gets a row. *)
RecordOneSided(p, t) ==
    /\ At(p, t, "records")
    /\ records' = [records EXCEPT ![claimReq[p][t].claim]["claimant"] = @ + 1]
    /\ ClaimGoto(p, t, "resolve")
    /\ UNCHANGED <<claimRows, claimNotices, claimAudit, answersWritten, cut>>

(* createMany is one statement: both rows or none. *)
RecordTwoSided(p, t) ==
    /\ At(p, t, "records")
    /\ records' = [records EXCEPT ![claimReq[p][t].claim] = [s \in ClaimSide |-> @[s] + 1]]
    /\ ClaimGoto(p, t, "resolve")
    /\ UNCHANGED <<claimRows, claimNotices, claimAudit, answersWritten, cut>>

(* The claimant is looked up again, and its owner told. *)
TellClaimant(p, t) ==
    /\ At(p, t, "resolve")
    /\ claimNotices' = [claimNotices EXCEPT ![claimReq[p][t].claim] = @ \union {claimReq[p][t].about}]
    /\ ClaimGoto(p, t, "audit")
    /\ UNCHANGED <<claimRows, records, claimAudit, answersWritten, cut>>

RecordClaimAudit(p, t) ==
    /\ At(p, t, "audit")
    /\ claimAudit' = [claimAudit EXCEPT ![claimReq[p][t].claim] = @ \union {claimReq[p][t].about}]
    /\ ClaimBecome(p, t, ClaimIdle)
    /\ UNCHANGED <<claimRows, records, claimNotices, answersWritten, cut>>

(* An await fails, or the process stops: no transaction spans the steps. *)
AbortClaim(p, t) ==
    /\ ~ At(p, t, "idle")
    /\ cut' = cut \union {claimReq[p][t].claim}
    /\ ClaimBecome(p, t, ClaimIdle)
    /\ UNCHANGED <<claimRows, records, claimNotices, claimAudit, answersWritten>>

ClaimHandler(p, t) ==
    \/ \E c \in Claims, q \in Profiles : Create(p, t, c, q)
    \/ \E c \in Claims, a \in ClaimAnswer : CheckRespondClaim(p, t, c, a)
    \/ WriteClaimAnswer(p, t)
    \/ RecordTwoSided(p, t)
    \/ TellClaimant(p, t)
    \/ RecordClaimAudit(p, t)
    \/ AbortClaim(p, t)

ClaimsNext == \E p \in Profiles, t \in OwnerTabs : ClaimHandler(p, t)

ClaimsSpec == ClaimsInit /\ [][ClaimsNext]_claimsVars
------------------------------------------------------------------------------
(* Requests of c's target that read PENDING and have not written yet. *)
ClaimDeciding(c) ==
    {x \in Profiles \X OwnerTabs :
        At(x[1], x[2], "update") /\ claimReq[x[1]][x[2]].claim = c}
Running(c) ==
    {x \in Profiles \X OwnerTabs :
        ~ At(x[1], x[2], "idle") /\ claimReq[x[1]][x[2]].claim = c}

(***************************************************************************)
(* Trust is two-sided and unfakeable: each side has as many rows as the    *)
(* other, no more than the target's owner wrote confirmations, and no more *)
(* answers of either kind were written than that owner had tabs.           *)
(***************************************************************************)
TrustIsConfirmed ==
    \A c \in Claims :
        /\ records[c]["claimant"] = records[c]["target"]
        /\ records[c]["claimant"] <= answersWritten[c]["CONFIRMED"]
        /\ answersWritten[c]["CONFIRMED"] + answersWritten[c]["DENIED"] <= Cardinality(OwnerTabs)

(***************************************************************************)
(* The claimant hears of a confirmation only when both rows are there, and *)
(* of a denial only when one was written; the audit log says nothing that  *)
(* was not announced.                                                      *)
(***************************************************************************)
NewsIsTrue ==
    \A c \in Claims :
        /\ "CONFIRMED" \in claimNotices[c] => \A s \in ClaimSide : records[c][s] > 0
        /\ "DENIED" \in claimNotices[c] => answersWritten[c]["DENIED"] > 0
        /\ claimAudit[c] \subseteq claimNotices[c]

(***************************************************************************)
(* An answered claim is answered for good once the requests that still     *)
(* read it as PENDING have finished, and its parties never change.         *)
(***************************************************************************)
SettledStaysSettled ==
    [][\A c \in Claims :
          /\ claimStatus[c] # "PENDING" /\ ClaimDeciding(c) = {}
                => claimStatus'[c] = claimStatus[c] /\ ClaimDeciding(c)' = {}
          /\ Filed(c) => claimant'[c] = claimant[c] /\ target'[c] = target[c]]_claimsVars

(***************************************************************************)
(* "An unconfirmed claim is worth zero trust; a CONFIRMED one becomes a V2 *)
(* VerificationRecord on both sides": true of every claim on which no      *)
(* request is running, unless a request about it was cut short or both     *)
(* answers were given at once.                                             *)
(***************************************************************************)
Contested(c) == answersWritten[c]["CONFIRMED"] > 0 /\ answersWritten[c]["DENIED"] > 0

ConfirmedMeansRecorded ==
    \A c \in Claims :
        Running(c) = {} /\ ~ Contested(c) /\ c \notin cut
            => \A s \in ClaimSide : records[c][s] > 0 <=> claimStatus[c] = "CONFIRMED"

(* What every state of the claims is: well formed, with trust, news and
   ledger rows only where an answer gave cause for them. *)
ClaimsAreTrue == ClaimsTypeOK /\ TrustIsConfirmed /\ NewsIsTrue /\ ConfirmedMeansRecorded
==============================================================================

----------------------------- MODULE Verification -----------------------------
(***************************************************************************)
(* VerificationEngineService for one profile of one owner.  Every change   *)
(* that announces itself starts a recompute that nobody waits for; it      *)
(* reads the row, then the documents and the profile completion, and only  *)
(* then writes the status, an audit row, a ledger row and an event.        *)
(***************************************************************************)
EXTENDS Naturals, FiniteSets

CONSTANTS
    Runs,          \* bound: recomputes in flight
    ExtraCounts    \* bound: how many of the five other completion checks hold

ASSUME VerificationAssumption == ExtraCounts \subseteq 0..5

VARIABLES
    kind,       \* the type of the profile
    documents,  \* signals met by the owner's documents
    fields,     \* signals met by the profile row
    extras,     \* startups: website, team, demo, revenue, recent milestone
    vstatus,    \* verificationStatus
    record,     \* the ledger has a VERIFIED row
    verified,   \* profile.verified was emitted
    run,        \* run[r]: a recompute
    stale,      \* history: the status need not follow the facts (see Settled)
    dropped     \* history: a run was cut short after it wrote the status

verificationVars ==
    <<kind, documents, fields, extras, vstatus, record, verified, run, stale, dropped>>
factVars == <<documents, fields, extras>>
outcomeVars == <<vstatus, record, verified>>

Required ==
    [Startup          |-> {"incorporated", "pitchDeck", "complete"},
     Investor         |-> {"governmentId", "preferences"},
     MentorProfile    |-> {"governmentId", "headline", "offers"},
     IncubatorProfile |-> {"incorporated", "description", "industries", "programs"}]
Kind == DOMAIN Required
DocumentSignals == {"incorporated", "pitchDeck", "governmentId"} \intersect Required[kind]
(* registrationStatus REGISTERED stands in for the certificate of a startup. *)
Fields == IF kind = "Startup" THEN {"incorporated"} ELSE Required[kind] \ DocumentSignals
Signal == UNION {Required[k] : k \in Kind}
VStatus == {"UNVERIFIED", "PENDING", "VERIFIED", "REJECTED"}

(* A run: where it is, what it has still to read, the signals it has found,
   the status it read or (from "write" on) decided. *)
Resting == [at |-> "rest", left |-> {}, met |-> {}, status |-> "UNVERIFIED"]
Run == [at : {"rest", "row", "reads", "write", "audit", "ledger"},
        left : SUBSET {"documents", "completion"}, met : SUBSET Signal, status : VStatus]

VerificationTypeOK ==
    /\ kind \in Kind
    /\ documents \subseteq DocumentSignals
    /\ fields \subseteq Fields
    /\ extras \in ExtraCounts
    /\ vstatus \in VStatus
    /\ record \in BOOLEAN
    /\ verified \in BOOLEAN /\ stale \in BOOLEAN /\ dropped \in BOOLEAN
    /\ run \in [Runs -> Run]

(* REJECTED is set by nothing in the code: such a profile comes that way. *)
VerificationInit ==
    /\ kind \in Kind
    /\ documents = {} /\ fields = {}
    /\ extras \in ExtraCounts
    /\ vstatus \in {"UNVERIFIED", "REJECTED"}
    /\ record = FALSE
    /\ verified = FALSE /\ stale = TRUE /\ dropped = FALSE
    /\ run = [r \in Runs |-> Resting]

RunBecomes(r, new) == run' = [run EXCEPT ![r] = new]
RunAt(r, at) == run[r].at = at
AllResting == \A r \in Runs : RunAt(r, "rest")

(* profile.upserted: a recompute starts; nothing serialises it with others. *)
Upserted ==
    /\ \E r \in Runs :
         /\ RunAt(r, "rest")
         /\ RunBecomes(r, [Resting EXCEPT !.at = "row"])
    /\ stale' = ~ AllResting
------------------------------------------------------------------------------
(* Variant carrying a bug: removing a document is not announced. *)
WriteDocumentQuietly ==
    /\ \E d \in DocumentSignals :
         \/ documents' = documents \union {d} /\ Upserted
         \/ documents' = documents \ {d} /\ UNCHANGED <<run, stale>>
    /\ UNCHANGED <<kind, fields, extras, outcomeVars, dropped>>

(* The owner's writes.  DocumentsService.upload and remove, the publishers and
   the profile, traction and funding endpoints all announce themselves. *)
WriteDocument ==
    /\ \E d \in DocumentSignals : documents' \in {documents \union {d}, documents \ {d}}
    /\ Upserted
    /\ UNCHANGED <<kind, fields, extras, outcomeVars, dropped>>

WriteProfile ==
    /\ fields' \in SUBSET Fields
    /\ extras' \in ExtraCounts
    /\ Upserted
    /\ UNCHANGED <<kind, documents, outcomeVars, dropped>>

(* MilestonesService.addForOwner emits no profile.upserted, and a milestone
   that turns 90 days old does so in silence. *)
MilestoneComesOrAges ==
    /\ kind = "Startup"
    /\ extras' \in {extras + 1, extras - 1} \intersect ExtraCounts
    /\ stale' = TRUE
    /\ UNCHANGED <<kind, documents, fields, outcomeVars, run, dropped>>

------------------------------------------------------------------------------
(* ProfileCompletionService: 80 percent is six of its seven checks, and being
   verified already is one of them. *)
Complete(docs, more, status) ==
    LET checks == more + (IF "pitchDeck" \in docs THEN 1 ELSE 0)
                       + (IF status = "VERIFIED" THEN 1 ELSE 0)
    IN (200 * checks + 7) \div 14 >= 80

(* Variant carrying a bug: a status the schema does not have. *)
DeriveInReview(met) ==
    IF met \intersect Required[kind] = Required[kind] THEN "VERIFIED" ELSE "IN_REVIEW"

Derive(met) ==
    LET count == Cardinality(met \intersect Required[kind]) IN
    CASE count = Cardinality(Required[kind]) -> "VERIFIED"
      [] count = 0 -> "UNVERIFIED"
      [] OTHER -> "PENDING"

(* The row is read first; a rejected profile is left alone. *)
ReadRow(r) ==
    /\ RunAt(r, "row")
    /\ RunBecomes(r,
         IF vstatus = "REJECTED" THEN Resting
         ELSE [at |-> "reads", met |-> fields, status |-> vstatus,
               left |-> IF kind = "Startup" THEN {"documents", "completion"}
                                            ELSE {"documents"}])
    /\ UNCHANGED <<kind, factVars, outcomeVars, stale, dropped>>

(* Each of the parallel reads sees its own moment: the completion service
   reads the status and the pitch deck again. *)
Holds(what) ==
    IF what = "documents" THEN documents
    ELSE IF Complete(documents, extras, vstatus) THEN {"complete"} ELSE {}

(* The last answer decides: nothing is written when the status is the one that
   the row had. *)
Decided(r, met) ==
    IF Derive(met) = run[r].status THEN Resting
    ELSE [at |-> "write", left |-> {}, met |-> {}, status |-> Derive(met)]

ReadSignal(r, what) ==
    LET met == run[r].met \union Holds(what)
        left == run[r].left \ {what} IN
    /\ RunAt(r, "reads")
    /\ what \in run[r].left
    /\ RunBecomes(r, IF left = {} THEN Decided(r, met)
                     ELSE [run[r] EXCEPT !.met = met, !.left = left])
    /\ UNCHANGED <<kind, factVars, outcomeVars, stale, dropped>>

(* update by id, and verifiedAt with it. *)
WriteStatus(r) ==
    /\ RunAt(r, "write")
    /\ vstatus' = run[r].status
    /\ RunBecomes(r, [run[r] EXCEPT !.at = "audit"])
    /\ UNCHANGED <<kind, factVars, record, verified, stale, dropped>>

RecordTransition(r) ==
    /\ RunAt(r, "audit")
    /\ RunBecomes(r, [run[r] EXCEPT !.at = "ledger"])
    /\ UNCHANGED <<kind, factVars, outcomeVars, stale, dropped>>

(* Variant carrying a bug: the ledger row is always PENDING. *)
LedgerPending(status) == record

Ledger(status) == record \/ status = "VERIFIED"

(* recordVerification, and the event in the same turn. *)
RecordVerification(r) ==
    /\ RunAt(r, "ledger")
    /\ record' = Ledger(run[r].status)
    /\ verified' = (verified \/ run[r].status = "VERIFIED")
    /\ RunBecomes(r, Resting)
    /\ UNCHANGED <<kind, factVars, vstatus, stale, dropped>>

(* An await fails or the process stops: nothing starts the run again. *)
CutShort(r) ==
    /\ ~ RunAt(r, "rest")
    /\ RunBecomes(r, Resting)
    /\ stale' = (stale \/ run[r].at \in {"row", "reads", "write"})
    /\ dropped' = (dropped \/ run[r].at \in {"audit", "ledger"})
    /\ UNCHANGED <<kind, factVars, outcomeVars>>

VerificationNext ==
    \/ WriteDocument \/ WriteProfile \/ MilestoneComesOrAges
    \/ \E r \in Runs :
         \/ ReadRow(r)
         \/ \E what \in {"documents", "completion"} : ReadSignal(r, what)
         \/ WriteStatus(r) \/ RecordTransition(r) \/ RecordVerification(r)
         \/ CutShort(r)

VerificationSpec == VerificationInit /\ [][VerificationNext]_verificationVars
------------------------------------------------------------------------------
(***************************************************************************)
(* The status follows the facts: when every recompute has ended, the last  *)
(* one ran alone and to its write, and no milestone came or aged since, it *)
(* is the status that the facts earn.  Being verified is itself one of the *)
(* completion checks, so a startup may be one check short of what it would *)
(* need to become VERIFIED, or to leave UNVERIFIED, but no more than that. *)
(***************************************************************************)
EarnedAs(status) ==
    Derive(fields \union documents
             \union IF kind = "Startup" /\ Complete(documents, extras, status)
                    THEN {"complete"} ELSE {})
Settled == AllResting /\ ~ stale /\ vstatus # "REJECTED"

StatusIsEarned ==
    Settled => vstatus \in {EarnedAs("VERIFIED"), EarnedAs("UNVERIFIED")}

(***************************************************************************)
(* A verified profile has a VERIFIED row in the ledger, unless a run that  *)
(* wrote the status was cut short before the row, or is on its way to it;  *)
(* and profile.verified is never emitted without one.                      *)
(***************************************************************************)
Recording ==
    \E r \in Runs : run[r].at \in {"audit", "ledger"} /\ run[r].status = "VERIFIED"

VerifiedIsOnRecord ==
    /\ vstatus = "VERIFIED" => record \/ Recording \/ dropped
    /\ verified => record
==============================================================================

---------------------------- MODULE ServicesProofs ----------------------------
(***************************************************************************)
(* What is proved of the parts of MCServices: of the smaller services, for *)
(* any deals, bookings, jobs, profiles, codes, recovery codes and polls    *)
(* and any overlap of requests; of the redirects of the web app; and of    *)
(* what its pages show after a mutation, for every hook.                   *)
(***************************************************************************)
EXTENDS MCServices, FiniteSetTheorems, TLAPS

------------------------------------------------------------------------------
(* The board of deals. *)

(* The outcome of closing a deal: a holding for it, and no other one touched. *)
LEMMA HoldingAfterFacts ==
  ASSUME NEW s \in Deals, NEW stage \in Stage, PipelineTypeOK
  PROVE  /\ HoldingAfter(s, stage) \in [Deals -> {"none", "active", "exited"}]
         /\ \A d \in Deals : holding[d] # "none" => HoldingAfter(s, stage)[d] = holding[d]
         /\ stage = "CLOSED" => HoldingAfter(s, stage)[s] # "none"
BY DEF HoldingAfter, PipelineTypeOK

(* A request that has ended is a request. *)
LEMMA FinishTyped ==
  ASSUME PipelineTypeOK, NEW t \in DealTabs, Finish(t)
  PROVE  dealReq' \in [DealTabs -> DealRequest]
<1>1. dealReq[t] \in DealRequest
  BY DEF PipelineTypeOK
<1>2. ASSUME NEW r \in DealRequest
      PROVE  [r EXCEPT !.edit = "none", !.id = 0] \in DealRequest
  <2>1. 0 \in 0..MaxCards
    BY DealAssumption
  <2>2. [r EXCEPT !.edit = "none"] \in DealRequest
    BY DEF DealRequest
  <2>3. QED BY <2>1, <2>2 DEF DealRequest
<1>3. QED BY <1>1, <1>2 DEF Finish, PipelineTypeOK

(* The type invariant: what requests write to cards and holdings has its type. *)
THEOREM PipelineTypeCorrect == PipelineSpec => []PipelineTypeOK
<1>1. PipelineInit => PipelineTypeOK
  BY DealAssumption
  DEF PipelineInit, PipelineTypeOK, NoCard, Card, Stage, DealRequest
<1>2. PipelineTypeOK /\ [PipelineNext]_pipelineVars => PipelineTypeOK'
  <2> SUFFICES ASSUME PipelineTypeOK, [PipelineNext]_pipelineVars PROVE PipelineTypeOK'
    OBVIOUS
  <2>1. ASSUME NEW s \in Deals, NEW stage \in Stage, AddToPipeline(s, stage)
        PROVE  PipelineTypeOK'
    <3>1. card[s] \in Card /\ made[s] \in 0..MaxCards
      BY DEF PipelineTypeOK
    <3>2. CASE OnBoard(s)
      BY <2>1, <3>1, <3>2 DEF AddToPipeline, PipelineTypeOK, Card
    <3>3. CASE ~ OnBoard(s)
      <4>1. made[s] + 1 \in 0..MaxCards
        BY <2>1, <3>1, <3>3, DealAssumption DEF AddToPipeline
      <4>2. [id |-> made[s] + 1, stage |-> stage] \in Card
        BY <4>1 DEF Card
      <4>3. QED BY <2>1, <3>3, <4>1, <4>2 DEF AddToPipeline, PipelineTypeOK
    <3>4. QED BY <3>2, <3>3
  <2>2. ASSUME NEW s \in Deals, RecordExit(s)
        PROVE  PipelineTypeOK'
    BY <2>2 DEF RecordExit, PipelineTypeOK
  <2>3. ASSUME NEW t \in DealTabs, NEW s \in Deals, NEW edit \in Edit, ReadEntry(t, s, edit)
        PROVE  PipelineTypeOK'
    <3>1. card[s].id \in 0..MaxCards
      BY DEF PipelineTypeOK, Card
    <3>2. [edit |-> edit, deal |-> s, id |-> card[s].id] \in DealRequest
      BY <3>1 DEF DealRequest
    <3>3. QED BY <2>3, <3>2 DEF ReadEntry, PipelineTypeOK
  <2>4. ASSUME NEW t \in DealTabs, NEW stage \in Stage, UpdateEntry(t, stage)
        PROVE  PipelineTypeOK'
    <3>1. dealReq[t].deal \in Deals
      BY DEF PipelineTypeOK, DealRequest
    <3>2. card' \in [Deals -> Card]
      BY <2>4, <3>1 DEF UpdateEntry, PipelineTypeOK, Card
    <3>3. QED BY <2>4, <3>1, <3>2, HoldingAfterFacts, FinishTyped DEF UpdateEntry, PipelineTypeOK
  <2>5. ASSUME NEW t \in DealTabs, UpdateNotes(t) \/ Fails(t)
        PROVE  PipelineTypeOK'
    BY <2>5, FinishTyped DEF UpdateNotes, Fails, PipelineTypeOK
  <2>6. ASSUME NEW t \in DealTabs, Pass(t) \/ RemoveEntry(t)
        PROVE  PipelineTypeOK'
    <3>1. dealReq[t].deal \in Deals
      BY DEF PipelineTypeOK, DealRequest
    <3>2. card' \in [Deals -> Card]
      BY <2>6, <3>1, DealAssumption DEF Pass, RemoveEntry, PipelineTypeOK, Card, NoCard, Stage
    <3>3. QED BY <2>6, <3>1, <3>2, FinishTyped DEF Pass, RemoveEntry, PipelineTypeOK
  <2>7. CASE UNCHANGED pipelineVars
    BY <2>7 DEF pipelineVars, PipelineTypeOK
  <2>8. QED BY <2>1, <2>2, <2>3, <2>4, <2>5, <2>6, <2>7 DEF PipelineNext
<1>3. QED BY <1>1, <1>2, PTL DEF PipelineSpec

(* "Reaching CLOSED atomically creates the matching Investment", for any number
   of requests: the card and its holding are written together, and nothing
   deletes a holding. *)
THEOREM ClosedHeld == PipelineSpec => []ClosedDealsAreHeld
<1>1. PipelineInit => ClosedDealsAreHeld
  BY DEF PipelineInit, ClosedDealsAreHeld, NoCard
<1>2. PipelineTypeOK /\ ClosedDealsAreHeld /\ [PipelineNext]_pipelineVars => ClosedDealsAreHeld'
  <2> SUFFICES ASSUME PipelineTypeOK, ClosedDealsAreHeld, [PipelineNext]_pipelineVars,
                      NEW d \in Deals,
                      card'[d].stage = "CLOSED", ~ planted'[d]
               PROVE  holding'[d] # "none"
    BY DEF ClosedDealsAreHeld
  <2>0. card[d].stage = "CLOSED" /\ ~ planted[d] => holding[d] # "none"
    BY DEF ClosedDealsAreHeld
  <2>1. ASSUME NEW s \in Deals, NEW stage \in Stage, AddToPipeline(s, stage)
        PROVE  holding'[d] # "none"
    <3>1. d # s
      BY <2>1 DEF AddToPipeline, PipelineTypeOK
    <3>2. QED BY <2>0, <2>1, <3>1 DEF AddToPipeline, PipelineTypeOK
  <2>2. ASSUME NEW s \in Deals, RecordExit(s)
        PROVE  holding'[d] # "none"
    BY <2>0, <2>2 DEF RecordExit, PipelineTypeOK
  <2>3. ASSUME NEW t \in DealTabs, NEW stage \in Stage, UpdateEntry(t, stage)
        PROVE  holding'[d] # "none"
    <3>1. dealReq[t].deal \in Deals
      BY DEF PipelineTypeOK, DealRequest
    <3>2. CASE d = dealReq[t].deal
      <4>1. stage = "CLOSED"
        BY <2>3, <3>2 DEF UpdateEntry, PipelineTypeOK, Card
      <4>2. QED BY <2>3, <3>1, <3>2, <4>1, HoldingAfterFacts DEF UpdateEntry
    <3>3. CASE d # dealReq[t].deal
      <4>1. card'[d] = card[d] /\ planted'[d] = planted[d]
        BY <2>3, <3>3 DEF UpdateEntry, PipelineTypeOK
      <4>2. QED BY <2>0, <2>3, <3>1, <4>1, HoldingAfterFacts DEF UpdateEntry
    <3>4. QED BY <3>2, <3>3
  <2>4. ASSUME NEW t \in DealTabs, Pass(t) \/ RemoveEntry(t)
        PROVE  holding'[d] # "none"
    <3>1. d # dealReq[t].deal
      BY <2>4 DEF Pass, RemoveEntry, PipelineTypeOK, Card, NoCard
    <3>2. QED BY <2>0, <2>4, <3>1 DEF Pass, RemoveEntry, PipelineTypeOK
  <2>5. ASSUME NEW t \in DealTabs,
               UpdateNotes(t) \/ Fails(t) \/ \E s \in Deals, edit \in Edit : ReadEntry(t, s, edit)
        PROVE  holding'[d] # "none"
    BY <2>0, <2>5 DEF UpdateNotes, Fails, ReadEntry
  <2>6. CASE UNCHANGED pipelineVars
    BY <2>0, <2>6 DEF pipelineVars
  <2>7. QED BY <2>1, <2>2, <2>3, <2>4, <2>5, <2>6 DEF PipelineNext
<1>3. QED BY <1>1, <1>2, PipelineTypeCorrect, PTL DEF PipelineSpec

(* A holding is never lost and an exit never undone, and a request that read a
   card which has been removed since writes nothing, whatever runs beside it. *)
THEOREM HistoryKept == PipelineSpec => HistoryIsKept
<1> DEFINE Step ==
      \A s \in Deals :
          /\ holding[s] # "none" => holding'[s] # "none"
          /\ holding[s] = "exited" => holding'[s] = "exited"
          /\ \A t \in DealTabs :
               StaleEdit(t, s) /\ dealReq'[t] # dealReq[t]
                   => card'[s] = card[s] /\ holding'[s] = holding[s]
<1>1. PipelineTypeOK /\ [PipelineNext]_pipelineVars => [Step]_pipelineVars
  <2> SUFFICES ASSUME PipelineTypeOK, PipelineNext PROVE Step
    OBVIOUS
  <2> USE DEF Step
  <2>1. ASSUME NEW s \in Deals, NEW stage \in Stage, AddToPipeline(s, stage)
        PROVE  Step
    BY <2>1 DEF AddToPipeline
  <2>2. ASSUME NEW s \in Deals, RecordExit(s)
        PROVE  Step
    BY <2>2 DEF RecordExit, PipelineTypeOK
  <2>3. ASSUME NEW t \in DealTabs, NEW s \in Deals, NEW edit \in Edit, ReadEntry(t, s, edit)
        PROVE  Step
    BY <2>3 DEF ReadEntry, StaleEdit, Busy
  <2>4. ASSUME NEW t \in DealTabs, NEW stage \in Stage, UpdateEntry(t, stage)
        PROVE  Step
    <3>1. dealReq[t].deal \in Deals
      BY DEF PipelineTypeOK, DealRequest
    <3>2. \A u \in DealTabs, s \in Deals : StaleEdit(u, s) => dealReq'[u] = dealReq[u]
      BY <2>4 DEF UpdateEntry, Found, Finish, StaleEdit, PipelineTypeOK
    <3>3. QED BY <2>4, <3>1, <3>2, HoldingAfterFacts DEF UpdateEntry
  <2>5. ASSUME NEW t \in DealTabs, Pass(t) \/ RemoveEntry(t)
        PROVE  Step
    <3>1. \A u \in DealTabs, s \in Deals : StaleEdit(u, s) => dealReq'[u] = dealReq[u]
      BY <2>5 DEF Pass, RemoveEntry, Found, Finish, StaleEdit, PipelineTypeOK
    <3>2. QED BY <2>5, <3>1 DEF Pass, RemoveEntry
  <2>6. ASSUME NEW t \in DealTabs, UpdateNotes(t) \/ Fails(t)
        PROVE  Step
    BY <2>6 DEF UpdateNotes, Fails
  <2>7. QED BY <2>1, <2>2, <2>3, <2>4, <2>5, <2>6 DEF PipelineNext
<1>2. QED BY <1>1, PipelineTypeCorrect, PTL DEF PipelineSpec, HistoryIsKept

------------------------------------------------------------------------------
(* The verification engine. *)

(* The signals of a profile are signals. *)
LEMMA SignalFacts ==
  ASSUME VerificationTypeOK
  PROVE  /\ fields \in SUBSET Signal
         /\ \A what \in {"documents", "completion"} : Holds(what) \in SUBSET Signal
<1>1. kind \in Kind /\ "Startup" \in Kind
  BY DEF VerificationTypeOK, Kind, Required
<1>2. \A k \in Kind : Required[k] \subseteq Signal
  BY DEF Signal
<1>3. "complete" \in Signal /\ "incorporated" \in Signal
  <2>1. {"incorporated", "pitchDeck", "complete"} = Required["Startup"]
    BY DEF Required
  <2>2. QED BY <1>1, <1>2, <2>1
<1>4. documents \in SUBSET Signal
  BY <1>1, <1>2 DEF VerificationTypeOK, DocumentSignals
<1>5. fields \in SUBSET Signal
  BY <1>1, <1>2, <1>3 DEF VerificationTypeOK, Fields
<1>6. QED BY <1>3, <1>4, <1>5 DEF Holds

(* A run that begins, or ends, is a run. *)
LEMMA RunFacts ==
  /\ Resting \in Run
  /\ [Resting EXCEPT !.at = "row"] \in Run
  /\ \A met \in SUBSET Signal : Derive(met) \in VStatus
<1>1. Resting \in Run
  BY DEF Resting, Run, VStatus
<1>2. [Resting EXCEPT !.at = "row"] \in Run
  BY DEF Resting, Run, VStatus
<1>3. \A met \in SUBSET Signal : Derive(met) \in VStatus
  BY DEF Derive, VStatus
<1>4. QED BY <1>1, <1>2, <1>3

(* Starting a recompute replaces one that rests. *)
LEMMA UpsertedTyped ==
  ASSUME VerificationTypeOK, Upserted
  PROVE  run' \in [Runs -> Run] /\ stale' \in BOOLEAN
<1>1. run' \in [Runs -> Run]
  BY RunFacts DEF Upserted, RunBecomes, VerificationTypeOK
<1>2. stale' \in BOOLEAN
  BY Zenon DEF Upserted, AllResting
<1>3. QED BY <1>1, <1>2

(* The type invariant of Verification. *)
THEOREM VerificationTypeCorrect == VerificationSpec => []VerificationTypeOK
<1>1. VerificationInit => VerificationTypeOK
  BY RunFacts DEF VerificationInit, VerificationTypeOK, VStatus
<1>2. VerificationTypeOK /\ [VerificationNext]_verificationVars => VerificationTypeOK'
  <2> SUFFICES ASSUME VerificationTypeOK, [VerificationNext]_verificationVars
               PROVE  VerificationTypeOK'
    OBVIOUS
  <2>1. CASE WriteDocument
    <3>1. kind' = kind /\ documents' \subseteq DocumentSignals
      BY <2>1 DEF WriteDocument, VerificationTypeOK
    <3>2. QED
      BY <2>1, <3>1, UpsertedTyped
      DEF WriteDocument, VerificationTypeOK, DocumentSignals, Fields, outcomeVars
  <2>2. CASE WriteProfile
    BY <2>2, UpsertedTyped
    DEF WriteProfile, VerificationTypeOK, DocumentSignals, Fields, outcomeVars
  <2>3. CASE MilestoneComesOrAges
    BY <2>3 DEF MilestoneComesOrAges, VerificationTypeOK, DocumentSignals, Fields, outcomeVars
  <2>4. ASSUME NEW r \in Runs, ReadRow(r)
        PROVE  VerificationTypeOK'
    <3>1. [at |-> "reads", met |-> fields, status |-> vstatus,
           left |-> IF kind = "Startup" THEN {"documents", "completion"}
                                        ELSE {"documents"}] \in Run
      BY SignalFacts DEF Run, VerificationTypeOK
    <3>2. run' \in [Runs -> Run]
      BY <2>4, <3>1, RunFacts DEF ReadRow, RunBecomes, VerificationTypeOK
    <3>3. QED
      BY <2>4, <3>2
      DEF ReadRow, VerificationTypeOK, DocumentSignals, Fields, factVars, outcomeVars
  <2>5. ASSUME NEW r \in Runs, NEW what \in {"documents", "completion"}, ReadSignal(r, what)
        PROVE  VerificationTypeOK'
    <3> DEFINE met == run[r].met \union Holds(what)
               left == run[r].left \ {what}
    <3>1. met \in SUBSET Signal /\ left \in SUBSET {"documents", "completion"}
      BY SignalFacts DEF VerificationTypeOK, Run
    <3>2. Decided(r, met) \in Run
      BY <3>1, RunFacts DEF Decided, Run
    <3>3. [run[r] EXCEPT !.met = met, !.left = left] \in Run
      <4>1. ASSUME NEW q \in Run, NEW m \in SUBSET Signal,
                   NEW l \in SUBSET {"documents", "completion"}
            PROVE  [q EXCEPT !.met = m, !.left = l] \in Run
        <5>1. [q EXCEPT !.met = m] \in Run
          BY DEF Run
        <5>2. QED BY <5>1 DEF Run
      <4>2. QED BY <3>1, <4>1 DEF VerificationTypeOK
    <3>4. RunBecomes(r, IF left = {} THEN Decided(r, met)
                        ELSE [run[r] EXCEPT !.met = met, !.left = left])
      BY <2>5 DEF ReadSignal
    <3> HIDE DEF met, left
    <3>5. run' \in [Runs -> Run]
      BY <3>2, <3>3, <3>4 DEF RunBecomes, VerificationTypeOK
    <3>6. QED
      BY <2>5, <3>5
      DEF ReadSignal, VerificationTypeOK, DocumentSignals, Fields, factVars, outcomeVars
  <2>6. ASSUME NEW r \in Runs, WriteStatus(r) \/ RecordTransition(r)
        PROVE  VerificationTypeOK'
    <3>1. run[r] \in Run
      BY DEF VerificationTypeOK
    <3>2. ASSUME NEW q \in Run, NEW at \in {"audit", "ledger"}
          PROVE  [q EXCEPT !.at = at] \in Run
      BY DEF Run
    <3>3. \E at \in {"audit", "ledger"} : RunBecomes(r, [run[r] EXCEPT !.at = at])
      BY <2>6 DEF WriteStatus, RecordTransition
    <3>4. run' \in [Runs -> Run]
      BY <3>1, <3>2, <3>3 DEF RunBecomes, VerificationTypeOK
    <3>5. vstatus' \in VStatus
      <4>1. run[r].status \in VStatus
        BY <3>1 DEF Run
      <4>2. QED
        BY <2>6, <4>1 DEF WriteStatus, RecordTransition, VerificationTypeOK, outcomeVars
    <3>6. QED
      BY <2>6, <3>4, <3>5
      DEF WriteStatus, RecordTransition, VerificationTypeOK, DocumentSignals, Fields,
          factVars, outcomeVars
  <2>7. ASSUME NEW r \in Runs, RecordVerification(r)
        PROVE  VerificationTypeOK'
    <3>1. run' \in [Runs -> Run]
      BY <2>7, RunFacts DEF RecordVerification, RunBecomes, VerificationTypeOK
    <3>2. record' \in BOOLEAN /\ verified' \in BOOLEAN
      BY <2>7, Zenon DEF RecordVerification, Ledger
    <3>3. QED
      BY <2>7, <3>1, <3>2
      DEF RecordVerification, VerificationTypeOK, DocumentSignals, Fields, factVars
  <2>8. ASSUME NEW r \in Runs, CutShort(r)
        PROVE  VerificationTypeOK'
    <3>1. run' \in [Runs -> Run]
      BY <2>8, RunFacts DEF CutShort, RunBecomes, VerificationTypeOK
    <3>2. stale' \in BOOLEAN /\ dropped' \in BOOLEAN
      BY <2>8, Zenon DEF CutShort
    <3>3. QED
      BY <2>8, <3>1, <3>2
      DEF CutShort, VerificationTypeOK, DocumentSignals, Fields, factVars, outcomeVars
  <2>9. CASE UNCHANGED verificationVars
    BY <2>9 DEF verificationVars, VerificationTypeOK, DocumentSignals, Fields
  <2>10. QED
    BY <2>1, <2>2, <2>3, <2>4, <2>5, <2>6, <2>7, <2>8, <2>9 DEF VerificationNext
<1>3. QED BY <1>1, <1>2, PTL DEF VerificationSpec

------------------------------------------------------------------------------
(* A run on its way to the ledger with a VERIFIED status is still on its way
   after a step of the others. *)
LEMMA RecordingStays ==
  ASSUME VerificationTypeOK, NEW r \in Runs, NEW new, RunBecomes(r, new),
         Recording,
         \/ run[r].at \notin {"audit", "ledger"}
         \/ new.at \in {"audit", "ledger"} /\ new.status = run[r].status
  PROVE  Recording'
<1>1. PICK q \in Runs : run[q].at \in {"audit", "ledger"} /\ run[q].status = "VERIFIED"
  BY DEF Recording
<1>2. run'[q].at \in {"audit", "ledger"} /\ run'[q].status = "VERIFIED"
  BY <1>1 DEF RunBecomes, VerificationTypeOK
<1>3. QED BY <1>2 DEF Recording

(* A profile that is VERIFIED has its row, a run that is bringing it, or lost
   that run; the event never comes before the row. *)
THEOREM VerifiedRecorded == VerificationSpec => []VerifiedIsOnRecord
<1>1. VerificationInit => VerifiedIsOnRecord
  BY DEF VerificationInit, VerifiedIsOnRecord
<1>2. VerificationTypeOK /\ VerifiedIsOnRecord /\ [VerificationNext]_verificationVars
        => VerifiedIsOnRecord'
  <2> SUFFICES ASSUME VerificationTypeOK, VerifiedIsOnRecord,
                      [VerificationNext]_verificationVars
               PROVE  VerifiedIsOnRecord'
    OBVIOUS
  <2>0. CASE UNCHANGED <<outcomeVars, dropped>> /\ (Recording => Recording')
    BY <2>0 DEF outcomeVars, VerifiedIsOnRecord
  <2>1. ASSUME Upserted, UNCHANGED <<outcomeVars, dropped>>
        PROVE  VerifiedIsOnRecord'
    <3>1. PICK r \in Runs : RunAt(r, "rest") /\ RunBecomes(r, [Resting EXCEPT !.at = "row"])
      BY <2>1 DEF Upserted
    <3>2. run[r].at \notin {"audit", "ledger"}
      BY <3>1 DEF RunAt
    <3>3. Recording => Recording'
      BY <3>1, <3>2, RecordingStays
    <3>4. QED BY <2>0, <2>1, <3>3
  <2>2. CASE WriteDocument \/ WriteProfile
    BY <2>1, <2>2 DEF WriteDocument, WriteProfile
  <2>3. CASE MilestoneComesOrAges
    BY <2>0, <2>3 DEF MilestoneComesOrAges, Recording
  <2>4. ASSUME NEW r \in Runs,
               ReadRow(r) \/ \E what \in {"documents", "completion"} : ReadSignal(r, what)
        PROVE  VerifiedIsOnRecord'
    <3>1. run[r].at \notin {"audit", "ledger"} /\ \E new : RunBecomes(r, new)
      BY <2>4 DEF ReadRow, ReadSignal, RunAt
    <3>2. Recording => Recording'
      BY <3>1, RecordingStays
    <3>3. QED BY <2>0, <2>4, <3>2 DEF ReadRow, ReadSignal
  <2>5. ASSUME NEW r \in Runs, WriteStatus(r)
        PROVE  VerifiedIsOnRecord'
    <3>1. run'[r].at = "audit" /\ run'[r].status = run[r].status /\ vstatus' = run[r].status
      BY <2>5 DEF WriteStatus, RunBecomes, VerificationTypeOK, Run
    <3>2. vstatus' = "VERIFIED" => Recording'
      BY <3>1 DEF Recording
    <3>3. QED BY <2>5, <3>2 DEF WriteStatus, VerifiedIsOnRecord
  <2>6. ASSUME NEW r \in Runs, RecordTransition(r)
        PROVE  VerifiedIsOnRecord'
    <3>1. RunBecomes(r, [run[r] EXCEPT !.at = "ledger"])
      BY <2>6 DEF RecordTransition
    <3>2. /\ [run[r] EXCEPT !.at = "ledger"].at = "ledger"
          /\ [run[r] EXCEPT !.at = "ledger"].status = run[r].status
      BY DEF VerificationTypeOK, Run
    <3>3. Recording => Recording'
      BY <3>1, <3>2, RecordingStays
    <3>4. QED BY <2>0, <2>6, <3>3 DEF RecordTransition
  <2>7. ASSUME NEW r \in Runs, RecordVerification(r)
        PROVE  VerifiedIsOnRecord'
    <3>1. CASE run[r].status = "VERIFIED"
      BY <2>7, <3>1 DEF RecordVerification, Ledger, VerifiedIsOnRecord
    <3>2. CASE run[r].status # "VERIFIED"
      <4>1. Recording => Recording'
        BY <2>7, <3>2 DEF RecordVerification, RunBecomes, Recording, VerificationTypeOK
      <4>2. record' = record /\ verified' = verified /\ vstatus' = vstatus /\ dropped' = dropped
        BY <2>7, <3>2, Zenon DEF RecordVerification, Ledger, VerificationTypeOK
      <4>3. QED BY <4>1, <4>2 DEF VerifiedIsOnRecord
    <3>3. QED BY <3>1, <3>2
  <2>8. ASSUME NEW r \in Runs, CutShort(r)
        PROVE  VerifiedIsOnRecord'
    <3>1. CASE run[r].at \in {"audit", "ledger"}
      BY <2>8, <3>1 DEF CutShort, VerifiedIsOnRecord, outcomeVars
    <3>2. CASE run[r].at \notin {"audit", "ledger"}
      <4>1. Recording => Recording'
        BY <2>8, <3>2, RecordingStays DEF CutShort
      <4>2. dropped => dropped'
        BY <2>8 DEF CutShort
      <4>3. QED BY <2>8, <4>1, <4>2 DEF CutShort, VerifiedIsOnRecord, outcomeVars
    <3>3. QED BY <3>1, <3>2
  <2>9. CASE UNCHANGED verificationVars
    BY <2>0, <2>9 DEF verificationVars, outcomeVars, Recording
  <2>10. QED BY <2>2, <2>3, <2>4, <2>5, <2>6, <2>7, <2>8, <2>9 DEF VerificationNext
<1>3. QED BY <1>1, <1>2, VerificationTypeCorrect, PTL DEF VerificationSpec

------------------------------------------------------------------------------
(* While the status is to follow the facts at most one recompute is under way;
   it has found what holds of what it has read, the status it read is still
   there, and what it is about to write is what the facts earn.  When none is
   on its way to a write, the status is earned. *)
Deciding(r) == run[r].at \in {"row", "reads", "write"}
FoundBy(left) ==
    fields \union (IF "documents" \in left THEN {} ELSE documents)
           \union (IF kind = "Startup" /\ "completion" \notin left
                      /\ Complete(documents, extras, vstatus) THEN {"complete"} ELSE {})
Earned == vstatus \in {EarnedAs("VERIFIED"), EarnedAs("UNVERIFIED")}
AloneOK(r) ==
    /\ \A q \in Runs : q # r => RunAt(r, "rest") \/ RunAt(q, "rest")
    /\ RunAt(r, "reads") =>
          /\ run[r].status = vstatus /\ run[r].met = FoundBy(run[r].left)
          /\ "completion" \in run[r].left => kind = "Startup"
    /\ RunAt(r, "write") => run[r].status = EarnedAs(vstatus)
EarnInv ==
    ~ stale =>
        /\ \A r \in Runs : AloneOK(r)
        /\ (\A r \in Runs : ~ Deciding(r)) /\ vstatus # "REJECTED" => Earned

(* Completion asks only whether the profile is VERIFIED; and when everything
   was read, what was found earns the status. *)
LEMMA EarnedFacts ==
  /\ \A s : EarnedAs(s) \in {EarnedAs("VERIFIED"), EarnedAs("UNVERIFIED")}
  /\ Derive(FoundBy({})) = EarnedAs(vstatus)
<1>1. ASSUME NEW s
      PROVE  \/ Complete(documents, extras, s) = Complete(documents, extras, "VERIFIED")
             \/ Complete(documents, extras, s) = Complete(documents, extras, "UNVERIFIED")
  BY DEF Complete
<1>2. ASSUME NEW s
      PROVE  EarnedAs(s) \in {EarnedAs("VERIFIED"), EarnedAs("UNVERIFIED")}
  <2>1. CASE s = "VERIFIED"
    BY <2>1
  <2>2. CASE s # "VERIFIED"
    <3>1. Complete(documents, extras, s) = Complete(documents, extras, "UNVERIFIED")
      BY <2>2 DEF Complete
    <3>2. EarnedAs(s) = EarnedAs("UNVERIFIED")
      BY <3>1 DEF EarnedAs
    <3>3. QED BY <3>2
  <2>3. QED BY <2>1, <2>2
<1>3. FoundBy({}) = fields \union documents
                    \union (IF kind = "Startup" /\ Complete(documents, extras, vstatus)
                            THEN {"complete"} ELSE {})
  BY DEF FoundBy
<1>4. QED BY <1>2, <1>3 DEF EarnedAs

(* A recompute that starts while others run leaves the status stale, and one
   that starts alone is the only one. *)
LEMMA EarnUpserted ==
  ASSUME VerificationTypeOK, EarnInv, Upserted
  PROVE  EarnInv'
<1> SUFFICES ASSUME ~ stale' PROVE (\A r \in Runs : AloneOK(r))' /\ ~ (\A r \in Runs : ~ Deciding(r))'
  BY DEF EarnInv
<1>1. PICK r \in Runs : RunBecomes(r, [Resting EXCEPT !.at = "row"])
  BY DEF Upserted
<1>2. \A q \in Runs : run[q].at = "rest"
  BY DEF Upserted, AllResting, RunAt
<1>3. [Resting EXCEPT !.at = "row"].at = "row"
  BY DEF Resting
<1>4. run'[r].at = "row" /\ \A q \in Runs \ {r} : run'[q].at = "rest"
  BY <1>1, <1>2, <1>3 DEF RunBecomes, VerificationTypeOK
<1>5. QED BY <1>4 DEF AloneOK, RunAt, Deciding

(* A run that moves alone, with the status and the facts as they were. *)
LEMMA EarnMoves ==
  ASSUME VerificationTypeOK, EarnInv, NEW r \in Runs, NEW new,
         RunBecomes(r, new), UNCHANGED <<kind, factVars, stale>>, ~ RunAt(r, "rest"),
         ~ stale => /\ new.at = "reads" =>
                          /\ new.status = vstatus' /\ new.met = FoundBy(new.left)
                          /\ "completion" \in new.left => kind = "Startup"
                          /\ vstatus' = vstatus
                    /\ new.at = "write" => new.status = EarnedAs(vstatus) /\ vstatus' = vstatus
                    /\ new.at \notin {"row", "reads", "write"} /\ vstatus' # "REJECTED" =>
                         vstatus' \in {EarnedAs("VERIFIED"), EarnedAs("UNVERIFIED")}
  PROVE  EarnInv'
<1> SUFFICES ASSUME ~ stale PROVE EarnInv'
  BY DEF EarnInv, factVars
<1>1. run'[r] = new /\ \A q \in Runs \ {r} : run'[q] = run[q]
  BY DEF RunBecomes, VerificationTypeOK
<1>2. \A q \in Runs \ {r} : run[q].at = "rest"
  BY DEF EarnInv, AloneOK, RunAt
<1>3. documents' = documents /\ fields' = fields /\ extras' = extras /\ kind' = kind
  BY DEF factVars
<1>4. \A s : EarnedAs(s)' = EarnedAs(s)
  BY <1>3 DEF EarnedAs, Derive, Complete, Required
<1>5. vstatus' = vstatus => EarnedAs(vstatus)' = EarnedAs(vstatus)
  BY <1>3 DEF EarnedAs, Derive, Complete, Required
<1>6. \A q \in Runs : AloneOK(q)'
  <2>1. ASSUME NEW q \in Runs, q # r PROVE AloneOK(q)'
    BY <1>1, <1>2, <2>1 DEF AloneOK, RunAt
  <2>2. AloneOK(r)'
    <3>1. \A q \in Runs : q # r => run'[q].at = "rest"
      BY <1>1, <1>2
    <3>2. ASSUME run'[r].at = "reads"
          PROVE  /\ run'[r].status = vstatus' /\ run'[r].met = FoundBy(run[r].left)'
                 /\ "completion" \in run'[r].left => kind' = "Startup"
      BY <1>1, <1>3, <3>2 DEF FoundBy, Complete
    <3>3. ASSUME run'[r].at = "write" PROVE run'[r].status = EarnedAs(vstatus)'
      BY <1>1, <1>5, <3>3
    <3>4. QED BY <3>1, <3>2, <3>3 DEF AloneOK, RunAt
  <2>3. QED BY <2>1, <2>2
<1>7. ASSUME \A q \in Runs : ~ Deciding(q)', vstatus' # "REJECTED" PROVE Earned'
  <2>1. new.at \notin {"row", "reads", "write"}
    BY <1>1, <1>7 DEF Deciding
  <2>2. vstatus' \in {EarnedAs("VERIFIED"), EarnedAs("UNVERIFIED")}
    BY <1>7, <2>1
  <2>3. EarnedAs("VERIFIED")' = EarnedAs("VERIFIED") /\ EarnedAs("UNVERIFIED")' = EarnedAs("UNVERIFIED")
    BY <1>3 DEF EarnedAs, Derive, Complete, Required
  <2>4. QED BY <2>2, <2>3 DEF Earned
<1>8. QED BY <1>6, <1>7 DEF EarnInv

(* When every recompute has ended and the last ran alone, the status is what
   the facts earn, but for the check that being verified is itself. *)
THEOREM EarnedStatus == VerificationSpec => []StatusIsEarned
<1>1. VerificationInit => EarnInv
  BY DEF VerificationInit, EarnInv
<1>2. VerificationTypeOK /\ EarnInv /\ [VerificationNext]_verificationVars => EarnInv'
  <2> SUFFICES ASSUME VerificationTypeOK, EarnInv, [VerificationNext]_verificationVars
               PROVE  EarnInv'
    OBVIOUS
  <2>1. CASE WriteDocument \/ WriteProfile
    BY <2>1, EarnUpserted DEF WriteDocument, WriteProfile
  <2>2. CASE MilestoneComesOrAges
    BY <2>2 DEF MilestoneComesOrAges, EarnInv
  <2>3. ASSUME NEW r \in Runs, ReadRow(r)
        PROVE  EarnInv'
    <3>1. CASE vstatus = "REJECTED"
      <4>1. RunBecomes(r, Resting) /\ Resting.at = "rest"
        BY <2>3, <3>1 DEF ReadRow, Resting
      <4>2. QED BY <2>3, <3>1, <4>1, EarnMoves DEF ReadRow, RunAt, outcomeVars
    <3>2. CASE vstatus # "REJECTED"
      <4> DEFINE new == [at |-> "reads", met |-> fields, status |-> vstatus,
                         left |-> IF kind = "Startup" THEN {"documents", "completion"}
                                                      ELSE {"documents"}]
      <4>1. RunBecomes(r, new)
        BY <2>3, <3>2 DEF ReadRow
      <4>2. /\ new.at = "reads" /\ new.status = vstatus
            /\ "completion" \in new.left => kind = "Startup"
        OBVIOUS
      <4>3. new.met = FoundBy(new.left)
        <5>1. CASE kind = "Startup"
          BY <5>1 DEF FoundBy
        <5>2. CASE kind # "Startup"
          BY <5>2 DEF FoundBy
        <5>3. QED BY <5>1, <5>2
      <4> HIDE DEF new
      <4>4. QED BY <2>3, <4>1, <4>2, <4>3, EarnMoves DEF ReadRow, RunAt, outcomeVars
    <3>3. QED BY <3>1, <3>2
  <2>4. ASSUME NEW r \in Runs, NEW what \in {"documents", "completion"}, ReadSignal(r, what)
        PROVE  EarnInv'
    <3> DEFINE met == run[r].met \union Holds(what)
               left == run[r].left \ {what}
               new == IF left = {} THEN Decided(r, met)
                      ELSE [run[r] EXCEPT !.met = met, !.left = left]
    <3>1. /\ RunBecomes(r, new) /\ run[r].at = "reads" /\ what \in run[r].left
          /\ UNCHANGED <<kind, factVars, outcomeVars, stale>>
      BY <2>4 DEF ReadSignal, RunAt
    <3>2. ASSUME ~ stale
          PROVE  /\ run[r].status = vstatus /\ met = FoundBy(left)
                 /\ "completion" \in left => kind = "Startup"
      <4>1. /\ run[r].status = vstatus /\ run[r].met = FoundBy(run[r].left)
            /\ "completion" \in run[r].left => kind = "Startup"
        BY <3>1, <3>2 DEF EarnInv, AloneOK, RunAt
      <4>2. CASE what = "documents"
        BY <4>1, <4>2 DEF FoundBy, Holds
      <4>3. CASE what = "completion"
        <5>1. kind = "Startup"
          BY <3>1, <4>1, <4>3
        <5>2. QED BY <3>1, <4>1, <4>3, <5>1 DEF FoundBy, Holds
      <4>4. QED BY <4>1, <4>2, <4>3
    <3>3. CASE left = {}
      <4>1. new = Decided(r, met)
        BY <3>3
      <4>2. ASSUME ~ stale PROVE Derive(met) = EarnedAs(vstatus)
        BY <3>2, <3>3, <4>2, EarnedFacts
      <4> HIDE DEF met, left, new
      <4>3. CASE Derive(met) = run[r].status
        <5>1. new.at = "rest"
          BY <4>1, <4>3 DEF Decided, Resting
        <5>2. ASSUME ~ stale PROVE vstatus \in {EarnedAs("VERIFIED"), EarnedAs("UNVERIFIED")}
          BY <3>2, <4>2, <4>3, <5>2, EarnedFacts
        <5>3. QED BY <3>1, <5>1, <5>2, EarnMoves DEF RunAt, outcomeVars
      <4>4. CASE Derive(met) # run[r].status
        <5>1. new.at = "write" /\ new.status = Derive(met)
          BY <4>1, <4>4 DEF Decided
        <5>2. QED BY <3>1, <4>2, <5>1, EarnMoves DEF RunAt, outcomeVars
      <4>5. QED BY <4>3, <4>4
    <3>4. CASE left # {}
      <4>1. new = [run[r] EXCEPT !.met = met, !.left = left]
        BY <3>4
      <4>2. run[r] \in Run
        BY DEF VerificationTypeOK
      <4> HIDE DEF met, left, new
      <4>3. new.at = "reads" /\ new.status = run[r].status /\ new.met = met /\ new.left = left
        BY <3>1, <4>1, <4>2 DEF Run
      <4>4. QED BY <3>1, <3>2, <4>3, EarnMoves DEF RunAt, outcomeVars
    <3>5. QED BY <3>3, <3>4
  <2>5. ASSUME NEW r \in Runs, WriteStatus(r)
        PROVE  EarnInv'
    <3> DEFINE new == [run[r] EXCEPT !.at = "audit"]
    <3>1. RunBecomes(r, new) /\ run[r].at = "write" /\ vstatus' = run[r].status
      BY <2>5 DEF WriteStatus, RunAt
    <3>2. new.at = "audit"
      BY DEF VerificationTypeOK, Run
    <3>3. ASSUME ~ stale PROVE run[r].status \in {EarnedAs("VERIFIED"), EarnedAs("UNVERIFIED")}
      BY <3>1, <3>3, EarnedFacts DEF EarnInv, AloneOK, RunAt
    <3> HIDE DEF new
    <3>4. QED BY <2>5, <3>1, <3>2, <3>3, EarnMoves DEF WriteStatus, RunAt
  <2>6. ASSUME NEW r \in Runs, RecordTransition(r) \/ RecordVerification(r)
        PROVE  EarnInv'
    <3>1. PICK new : RunBecomes(r, new) /\ new.at \in {"ledger", "rest"}
      <4>1. [run[r] EXCEPT !.at = "ledger"].at = "ledger" /\ Resting.at = "rest"
        BY DEF VerificationTypeOK, Run, Resting
      <4>2. QED BY <2>6, <4>1 DEF RecordTransition, RecordVerification
    <3>2. run[r].at \in {"audit", "ledger"} /\ UNCHANGED <<kind, factVars, vstatus, stale>>
      BY <2>6 DEF RecordTransition, RecordVerification, RunAt, outcomeVars
    <3>3. ASSUME ~ stale, vstatus # "REJECTED"
          PROVE  vstatus \in {EarnedAs("VERIFIED"), EarnedAs("UNVERIFIED")}
      <4>1. \A q \in Runs : ~ Deciding(q)
        BY <3>2, <3>3 DEF EarnInv, AloneOK, RunAt, Deciding
      <4>2. QED BY <3>3, <4>1 DEF EarnInv, Earned
    <3>4. QED BY <3>1, <3>2, <3>3, EarnMoves DEF RunAt
  <2>7. ASSUME NEW r \in Runs, CutShort(r)
        PROVE  EarnInv'
    <3>1. CASE run[r].at \in {"row", "reads", "write"}
      BY <2>7, <3>1 DEF CutShort, EarnInv
    <3>2. CASE run[r].at \notin {"row", "reads", "write"}
      <4>1. /\ RunBecomes(r, Resting) /\ Resting.at = "rest"
            /\ UNCHANGED <<kind, factVars, vstatus>> /\ run[r].at # "rest"
        BY <2>7 DEF CutShort, Resting, RunAt, outcomeVars
      <4>2. stale' = stale
        BY <2>7, <3>2, Zenon DEF CutShort, VerificationTypeOK
      <4>3. ASSUME ~ stale, vstatus # "REJECTED"
            PROVE  vstatus \in {EarnedAs("VERIFIED"), EarnedAs("UNVERIFIED")}
        <5>1. \A q \in Runs : ~ Deciding(q)
          BY <3>2, <4>1, <4>3 DEF EarnInv, AloneOK, RunAt, Deciding
        <5>2. QED BY <4>3, <5>1 DEF EarnInv, Earned
      <4>4. QED BY <4>1, <4>2, <4>3, EarnMoves DEF RunAt
    <3>3. QED BY <3>1, <3>2
  <2>8. CASE UNCHANGED verificationVars
    <3>1. /\ UNCHANGED <<kind, documents, fields, extras, vstatus, run, stale>>
          /\ \A s : EarnedAs(s)' = EarnedAs(s)
      BY <2>8 DEF verificationVars, EarnedAs, Derive, Complete, Required
    <3>2. ASSUME NEW r \in Runs, AloneOK(r) PROVE AloneOK(r)'
      <4>1. EarnedAs(vstatus)' = EarnedAs(vstatus)
        BY <3>1 DEF EarnedAs, Derive, Complete, Required
      <4>2. QED BY <3>1, <3>2, <4>1 DEF AloneOK, RunAt, FoundBy, Complete
    <3>3. Earned => Earned'
      BY <3>1 DEF Earned, EarnedAs, Derive, Complete, Required
    <3>4. QED BY <3>1, <3>2, <3>3 DEF EarnInv, Deciding
  <2>9. QED
    BY <2>1, <2>2, <2>3, <2>4, <2>5, <2>6, <2>7, <2>8 DEF VerificationNext
<1>3. EarnInv => StatusIsEarned
  <2> SUFFICES ASSUME EarnInv, Settled PROVE Earned
    BY DEF StatusIsEarned, Earned
  <2>1. \A r \in Runs : ~ Deciding(r)
    BY DEF Settled, AllResting, RunAt, Deciding
  <2>2. QED BY <2>1 DEF Settled, EarnInv
<1>4. QED BY <1>1, <1>2, <1>3, VerificationTypeCorrect, PTL DEF VerificationSpec
------------------------------------------------------------------------------
(* One-time codes. *)

N == Cardinality(CodeTabs)

(* Counting requests. *)
LEMMA TabCounts ==
  ASSUME NEW A \in SUBSET CodeTabs
  PROVE  /\ IsFiniteSet(A)
         /\ Cardinality(A) \in Nat /\ N \in Nat
         /\ Cardinality(A) <= N
         /\ \A B \in SUBSET A : Cardinality(B) <= Cardinality(A)
         /\ \A t \in CodeTabs \ A : Cardinality(A) <= N - 1
         /\ \A t \in A : Cardinality(A \ {t}) = Cardinality(A) - 1
<1>1. IsFiniteSet(CodeTabs)
  BY CodesAssumption
<1>2. IsFiniteSet(A) /\ Cardinality(A) <= N
  BY <1>1, FS_Subset DEF N
<1>3. Cardinality(A) \in Nat /\ N \in Nat
  BY <1>1, <1>2, FS_CardinalityType DEF N
<1>4. \A B \in SUBSET A : Cardinality(B) <= Cardinality(A)
  BY <1>2, FS_Subset
<1>5. \A t \in A : Cardinality(A \ {t}) = Cardinality(A) - 1
  BY <1>2, FS_RemoveElement
<1>6. ASSUME NEW t \in CodeTabs \ A PROVE Cardinality(A) <= N - 1
  <2>1. Cardinality(A \union {t}) = Cardinality(A) + 1
    BY <1>2, FS_AddElement
  <2>2. A \union {t} \subseteq CodeTabs
    OBVIOUS
  <2>3. Cardinality(A \union {t}) <= N
    BY <1>1, <2>2, FS_Subset DEF N
  <2>4. QED BY <1>3, <2>1, <2>3
<1>7. QED BY <1>2, <1>3, <1>4, <1>5, <1>6

------------------------------------------------------------------------------
(* A request that has chosen a code holds one that was issued, and one that is
   about to mark the address has used its code up. *)
Chosen ==
    \A t \in CodeTabs :
        /\ guess[t].at \in {"count", "consume", "mark"} => guess[t].code \in 1..issued
        /\ guess[t].at = "mark" => guess[t].code \in consumed /\ channel = "email"

CodesSound == CodesTypeOK /\ Chosen

LEMMA SoundInit == CodesInit => CodesSound
<1>1. NoGuess \in Guess /\ 0 \in 0..MaxCodes /\ 0 \in Nat
  BY CodesAssumption DEF NoGuess, Guess
<1>2. CodesInit => CodesTypeOK
  BY <1>1 DEF CodesInit, CodesTypeOK
<1>3. CodesInit => Chosen
  BY DEF CodesInit, Chosen, NoGuess
<1>4. QED BY <1>2, <1>3 DEF CodesSound

LEMMA SoundStep == CodesSound /\ [CodesNext]_codeVars => CodesSound'
<1> SUFFICES ASSUME CodesSound, [CodesNext]_codeVars PROVE CodesSound'
  OBVIOUS
<1> USE DEF CodesSound
<1>0. MaxCodes \in Nat /\ issued \in Nat /\ issued <= MaxCodes
  BY CodesAssumption DEF CodesTypeOK
<1>1. CASE MinutePasses
  BY <1>1 DEF MinutePasses, CodesTypeOK, Chosen
<1>2. CASE CodeExpires
  BY <1>0, <1>2 DEF CodeExpires, CodesTypeOK, Chosen
<1>3. ASSUME NEW t \in CodeTabs, CheckCooldown(t)
      PROVE  CodesSound'
  BY <1>0, <1>3 DEF CheckCooldown, GoTo, CodesTypeOK, Chosen, Guess
<1>4. ASSUME NEW t \in CodeTabs, CreateCode(t)
      PROVE  CodesSound'
  <2>1. issued' \in 0..MaxCodes /\ 1..issued \subseteq 1..issued'
    BY <1>0, <1>4 DEF CreateCode
  <2>2. CodesTypeOK'
    BY <1>0, <1>4, <2>1 DEF CreateCode, GoTo, CodesTypeOK, Guess
  <2>3. Chosen'
    BY <1>4, <2>1 DEF CreateCode, GoTo, CodesTypeOK, Chosen
  <2>4. QED BY <2>2, <2>3
<1>5. ASSUME NEW t \in CodeTabs, NEW c \in Code, NEW right \in BOOLEAN, Verify(t, c, right)
      PROVE  CodesSound'
  <2>1. c \in 1..issued /\ c \in 0..MaxCodes
    BY <1>0, <1>5 DEF Verify, Newest, Code
  <2>2. [at |-> IF right THEN "consume" ELSE "count", code |-> c] \in Guess
    BY <2>1 DEF Guess
  <2>3. CodesTypeOK'
    BY <1>5, <2>2 DEF Verify, GoTo, CodesTypeOK
  <2>4. Chosen'
    BY <1>5, <2>1 DEF Verify, GoTo, CodesTypeOK, Chosen
  <2>5. QED BY <2>3, <2>4
<1>6. ASSUME NEW t \in CodeTabs, CountWrong(t)
      PROVE  CodesSound'
  <2>1. guess[t].code \in Code
    BY <1>0, <1>6 DEF CountWrong, Chosen, Code
  <2>2. CodesTypeOK'
    BY <1>0, <1>6, <2>1 DEF CountWrong, GoTo, CodesTypeOK, Guess
  <2>3. Chosen'
    BY <1>6 DEF CountWrong, GoTo, CodesTypeOK, Chosen
  <2>4. QED BY <2>2, <2>3
<1>7. ASSUME NEW t \in CodeTabs, ConsumeEmail(t)
      PROVE  CodesSound'
  <2>1. guess[t].code \in 1..issued /\ guess[t].code \in Code /\ guess[t].code \in 0..MaxCodes
    BY <1>0, <1>7 DEF ConsumeEmail, Chosen, Code
  <2>2. CodesTypeOK'
    BY <1>7, <2>1 DEF ConsumeEmail, GoTo, CodesTypeOK, Guess
  <2>3. Chosen'
    BY <1>7, <2>1 DEF ConsumeEmail, GoTo, CodesTypeOK, Chosen
  <2>4. QED BY <2>2, <2>3
<1>8. ASSUME NEW t \in CodeTabs, MarkEmailVerified(t) \/ GuessFails(t)
      PROVE  CodesSound'
  <2>0. NoGuess \in Guess
    BY <1>0 DEF NoGuess, Guess
  <2>1. CodesTypeOK'
    <3>1. CASE MarkEmailVerified(t)
      BY <2>0, <3>1 DEF MarkEmailVerified, GoTo, CodesTypeOK, NoGuess
    <3>2. CASE GuessFails(t)
      BY <2>0, <3>2 DEF GuessFails, GoTo, CodesTypeOK, NoGuess
    <3>3. QED BY <1>8, <3>1, <3>2
  <2>2. Chosen'
    BY <1>8 DEF MarkEmailVerified, GuessFails, GoTo, CodesTypeOK, Chosen
  <2>3. QED BY <2>1, <2>2
<1>9. ASSUME NEW t \in CodeTabs, ConfirmPhone(t)
      PROVE  CodesSound'
  <2>1. guess[t].code \in Code
    BY <1>0, <1>9 DEF ConfirmPhone, Chosen, Code
  <2>2. CodesTypeOK'
    BY <1>0, <1>9, <2>1 DEF ConfirmPhone, GoTo, CodesTypeOK, Guess
  <2>3. Chosen'
    BY <1>9 DEF ConfirmPhone, GoTo, CodesTypeOK, Chosen
  <2>4. QED BY <2>2, <2>3
<1>10. CASE UNCHANGED codeVars
  BY <1>10 DEF codeVars, CodesTypeOK, Chosen
<1>11. QED
  BY <1>1, <1>2, <1>3, <1>4, <1>5, <1>6, <1>7, <1>8, <1>9, <1>10 DEF CodesNext

(* The type invariant of OneTimeCodes. *)
THEOREM CodesTypeCorrect == CodesSpec => []CodesTypeOK
<1>1. CodesSound => CodesTypeOK
  BY DEF CodesSound
<1>2. QED BY <1>1, SoundInit, SoundStep, PTL DEF CodesSpec

------------------------------------------------------------------------------
(* Wrong guesses that are still to be counted count already: each of them saw
   fewer than MaxAttempts, and there are at most as many as requests. *)
Counting(c) == {t \in CodeTabs : guess[t].at = "count" /\ guess[t].code = c}

CountInv == \A c \in Code : tried[c] + Cardinality(Counting(c)) <= MaxAttempts - 1 + N

LEMMA CountInit == CodesInit => CountInv
<1> SUFFICES ASSUME CodesInit, NEW c \in Code
             PROVE  tried[c] + Cardinality(Counting(c)) <= MaxAttempts - 1 + N
  BY DEF CountInv
<1>1. Counting(c) = {} /\ tried[c] = 0
  BY DEF CodesInit, Counting, NoGuess
<1>2. QED BY <1>1, CodesAssumption, FS_EmptySet, TabCounts

LEMMA CountStep == CodesSound /\ CountInv /\ [CodesNext]_codeVars => CountInv'
<1> SUFFICES ASSUME CodesSound, CountInv, [CodesNext]_codeVars, NEW c \in Code
             PROVE  tried'[c] + Cardinality(Counting(c)') <= MaxAttempts - 1 + N
  BY DEF CountInv, N
<1>0. /\ tried[c] \in Nat /\ MaxAttempts \in Nat
      /\ tried[c] + Cardinality(Counting(c)) <= MaxAttempts - 1 + N
      /\ Counting(c) \in SUBSET CodeTabs /\ Counting(c)' \in SUBSET CodeTabs
  BY CodesAssumption DEF CodesSound, CodesTypeOK, CountInv, Counting
<1>1. CASE tried'[c] = tried[c] /\ Counting(c)' \subseteq Counting(c)
  <2>1. Cardinality(Counting(c)') <= Cardinality(Counting(c))
    BY <1>0, <1>1, TabCounts
  <2>2. QED BY <1>0, <1>1, <2>1, TabCounts
<1>2. ASSUME NEW t \in CodeTabs, NEW d \in Code, NEW right \in BOOLEAN, Verify(t, d, right)
      PROVE  tried'[c] + Cardinality(Counting(c)') <= MaxAttempts - 1 + N
  <2>1. CASE c # d \/ right
    BY <1>1, <1>2, <2>1 DEF Verify, GoTo, Counting, CodesSound, CodesTypeOK
  <2>2. CASE c = d /\ ~ right
    <3>1. tried'[c] = tried[c] /\ tried[c] <= MaxAttempts - 1
      BY <1>0, <1>2, <2>2 DEF Verify, MayTry
    <3>2. QED BY <1>0, <3>1, TabCounts
  <2>3. QED BY <2>1, <2>2
<1>3. ASSUME NEW t \in CodeTabs, CountWrong(t)
      PROVE  tried'[c] + Cardinality(Counting(c)') <= MaxAttempts - 1 + N
  <2>1. CASE c # guess[t].code
    BY <1>1, <1>3, <2>1 DEF CountWrong, GoTo, Counting, CodesSound, CodesTypeOK
  <2>2. CASE c = guess[t].code
    <3>1. tried'[c] = tried[c] + 1
      BY <1>3, <2>2 DEF CountWrong, CodesSound, CodesTypeOK
    <3>2. t \in Counting(c) /\ Counting(c)' = Counting(c) \ {t}
      BY <1>3, <2>2 DEF CountWrong, GoTo, Counting, CodesSound, CodesTypeOK
    <3>3. Cardinality(Counting(c)') = Cardinality(Counting(c)) - 1
      BY <1>0, <3>2, TabCounts
    <3>4. QED BY <1>0, <3>1, <3>3, TabCounts
  <2>3. QED BY <2>1, <2>2
<1>4. ASSUME NEW t \in CodeTabs,
             \/ CheckCooldown(t) \/ CreateCode(t) \/ ConsumeEmail(t)
             \/ MarkEmailVerified(t) \/ ConfirmPhone(t) \/ GuessFails(t)
      PROVE  tried'[c] + Cardinality(Counting(c)') <= MaxAttempts - 1 + N
  <2>1. tried' = tried
    BY <1>4 DEF CheckCooldown, CreateCode, ConsumeEmail, MarkEmailVerified, ConfirmPhone, GuessFails
  <2>2. \E at \in {"none", "create", "mark"}, e \in 0..MaxCodes : GoTo(t, at, e)
    BY <1>4, CodesAssumption
    DEF CheckCooldown, CreateCode, ConsumeEmail, MarkEmailVerified, ConfirmPhone, GuessFails,
        CodesSound, CodesTypeOK, Guess
  <2>3. Counting(c)' \subseteq Counting(c)
    BY <2>2 DEF GoTo, Counting, CodesSound, CodesTypeOK
  <2>4. QED BY <1>1, <2>1, <2>3
<1>5. CASE MinutePasses \/ CodeExpires
  BY <1>1, <1>5 DEF MinutePasses, CodeExpires, Counting
<1>6. CASE UNCHANGED codeVars
  BY <1>1, <1>6 DEF codeVars, Counting
<1>7. QED BY <1>2, <1>3, <1>4, <1>5, <1>6 DEF CodesNext

(* The limit on wrong guesses holds up to the requests in flight, whatever the
   limit and however many requests there are. *)
THEOREM GuessesAreBounded == CodesSpec => []GuessesBounded
<1>1. CodesSound /\ CountInv => GuessesBounded
  <2> SUFFICES ASSUME CodesSound, CountInv, NEW c \in Code
               PROVE  tried[c] <= MaxAttempts + Cardinality(CodeTabs) - 1
    BY DEF GuessesBounded
  <2>1. Counting(c) \in SUBSET CodeTabs /\ tried[c] \in Nat /\ MaxAttempts \in Nat
    BY CodesAssumption DEF Counting, CodesSound, CodesTypeOK
  <2>2. tried[c] + Cardinality(Counting(c)) <= MaxAttempts - 1 + N
    BY DEF CountInv
  <2>3. QED BY <2>1, <2>2, TabCounts DEF N
<1>2. QED BY <1>1, SoundInit, SoundStep, CountInit, CountStep, PTL DEF CodesSpec

------------------------------------------------------------------------------
(* Requests that hold a code which has been used up since.  Each other code
   that is used up leaves one request fewer that could write a ledger row. *)
Late == {t \in CodeTabs : guess[t].at = "consume" /\ guess[t].code \in consumed}
Used == Cardinality(consumed)

LedgerInv ==
    /\ confirmed => consumed # {}
    /\ channel = "phone" => (confirmed <=> phoneRows > 0)
    /\ phoneRows + Cardinality(Late) <= Used * N

LEMMA UsedIsNat == ASSUME CodesSound PROVE IsFiniteSet(consumed) /\ Used \in Nat
<1>1. IsFiniteSet(Code) /\ consumed \subseteq Code
  BY CodesAssumption, FS_Interval DEF Code, CodesSound, CodesTypeOK
<1>2. QED BY <1>1, FS_Subset, FS_CardinalityType DEF Used

LEMMA LedgerInit == CodesInit => LedgerInv
<1> SUFFICES ASSUME CodesInit PROVE LedgerInv
  OBVIOUS
<1>1. Late = {} /\ consumed = {} /\ phoneRows = 0 /\ confirmed = FALSE
  BY DEF CodesInit, Late
<1>2. Cardinality(Late) = 0 /\ Used = 0
  BY <1>1, FS_EmptySet DEF Used
<1>3. N \in Nat
  BY TabCounts
<1>4. QED BY <1>1, <1>2, <1>3 DEF LedgerInv

(* Using a code up, which both channels do with one request at a time: the
   rows of the ledger stay within their bound although one is added. *)
LEMMA UseUp ==
  ASSUME CodesSound, LedgerInv, NEW t \in CodeTabs,
         guess[t].at = "consume",
         consumed' = consumed \union {guess[t].code},
         NEW at \in {"none", "mark"}, NEW e, GoTo(t, at, e)
  PROVE  Used' \in Nat /\ phoneRows + 1 + Cardinality(Late') <= Used' * N
<1>0. /\ phoneRows \in Nat /\ Used \in Nat /\ N \in Nat /\ IsFiniteSet(consumed)
      /\ Late \in SUBSET CodeTabs /\ Late' \in SUBSET CodeTabs
      /\ phoneRows + Cardinality(Late) <= Used * N
  BY UsedIsNat, TabCounts DEF CodesSound, CodesTypeOK, LedgerInv, Late
<1>1. t \notin Late'
  BY DEF GoTo, Late, CodesSound, CodesTypeOK
<1>2. CASE guess[t].code \in consumed
  <2>1. consumed' = consumed /\ Used' = Used
    BY <1>2 DEF Used
  <2>2. t \in Late /\ Late' = Late \ {t}
    BY <1>2, <2>1 DEF GoTo, Late, CodesSound, CodesTypeOK
  <2>3. Cardinality(Late') = Cardinality(Late) - 1
    BY <1>0, <2>2, TabCounts
  <2>4. Cardinality(Late) \in Nat /\ Used * N \in Nat
    BY <1>0, TabCounts
  <2>5. QED BY <1>0, <2>1, <2>3, <2>4
<1>3. CASE guess[t].code \notin consumed
  <2>1. Used' = Used + 1
    BY <1>0, <1>3, FS_AddElement DEF Used
  <2>2. Cardinality(Late') \in Nat /\ Cardinality(Late') <= N - 1
    BY <1>0, <1>1, TabCounts
  <2>3. (Used + 1) * N = Used * N + N /\ Used * N \in Nat
    BY <1>0
  <2>4. phoneRows <= Used * N
    BY <1>0, <2>3, TabCounts
  <2>5. QED BY <1>0, <2>1, <2>2, <2>3, <2>4
<1>4. QED BY <1>2, <1>3

LEMMA LedgerStep == CodesSound /\ LedgerInv /\ [CodesNext]_codeVars => LedgerInv'
<1> SUFFICES ASSUME CodesSound, LedgerInv, [CodesNext]_codeVars PROVE LedgerInv'
  OBVIOUS
<1>0. /\ phoneRows \in Nat /\ Used \in Nat /\ N \in Nat /\ N' = N
      /\ Late \in SUBSET CodeTabs /\ Late' \in SUBSET CodeTabs
      /\ confirmed \in BOOLEAN /\ Used * N \in Nat
  BY UsedIsNat, TabCounts DEF CodesSound, CodesTypeOK, Late, N
<1>1. CASE UNCHANGED <<channel, consumed, confirmed, phoneRows>> /\ Late' \subseteq Late
  <2>1. Cardinality(Late') <= Cardinality(Late) /\ Cardinality(Late') \in Nat
        /\ Cardinality(Late) \in Nat
    BY <1>0, <1>1, TabCounts
  <2>2. Used' = Used
    BY <1>1 DEF Used
  <2>3. phoneRows' + Cardinality(Late') <= Used' * N'
    BY <1>0, <1>1, <2>1, <2>2 DEF LedgerInv
  <2>4. QED BY <1>1, <2>3 DEF LedgerInv
<1>2. ASSUME NEW t \in CodeTabs, NEW c \in Code, NEW right \in BOOLEAN, Verify(t, c, right)
      PROVE  LedgerInv'
  <2>1. c \notin consumed
    BY <1>2 DEF Verify, Newest
  <2>2. Late' \subseteq Late
    BY <1>2, <2>1 DEF Verify, GoTo, Late, CodesSound, CodesTypeOK
  <2>3. QED BY <1>1, <1>2, <2>2 DEF Verify
<1>3. ASSUME NEW t \in CodeTabs,
             CheckCooldown(t) \/ CreateCode(t) \/ CountWrong(t) \/ GuessFails(t)
      PROVE  LedgerInv'
  <2>1. Late' \subseteq Late
    BY <1>3 DEF CheckCooldown, CreateCode, CountWrong, GuessFails, GoTo, Late, CodesSound, CodesTypeOK
  <2>2. QED BY <1>1, <1>3, <2>1 DEF CheckCooldown, CreateCode, CountWrong, GuessFails
<1>4. ASSUME NEW t \in CodeTabs, ConsumeEmail(t)
      PROVE  LedgerInv'
  <2>1. Used' \in Nat /\ phoneRows + 1 + Cardinality(Late') <= Used' * N
    BY <1>4, UseUp DEF ConsumeEmail
  <2>2. Cardinality(Late') \in Nat
    BY <1>0, TabCounts
  <2>3. phoneRows' + Cardinality(Late') <= Used' * N'
    <3>0. \A a, b \in Nat : a * b \in Nat
      OBVIOUS
    <3>1. Used' * N \in Nat
      BY <1>0, <2>1, <3>0, Zenon
    <3>2. phoneRows' = phoneRows
      BY <1>4 DEF ConsumeEmail
    <3>3. QED BY <1>0, <2>1, <2>2, <3>1, <3>2
  <2>4. confirmed' => consumed' # {}
    BY <1>4 DEF ConsumeEmail
  <2>5. channel' = "email"
    BY <1>4 DEF ConsumeEmail
  <2>6. QED BY <2>3, <2>4, <2>5 DEF LedgerInv
<1>5. ASSUME NEW t \in CodeTabs, ConfirmPhone(t)
      PROVE  LedgerInv'
  <2>1. phoneRows + 1 + Cardinality(Late') <= Used' * N
    BY <1>5, UseUp DEF ConfirmPhone
  <2>2. phoneRows' = phoneRows + 1 /\ phoneRows' > 0 /\ confirmed' = TRUE /\ consumed' # {}
    BY <1>0, <1>5 DEF ConfirmPhone
  <2>3. phoneRows' + Cardinality(Late') <= Used' * N'
    BY <1>0, <2>1, <2>2
  <2>4. QED BY <2>2, <2>3 DEF LedgerInv
<1>6. ASSUME NEW t \in CodeTabs, MarkEmailVerified(t)
      PROVE  LedgerInv'
  <2>1. consumed # {} /\ channel = "email"
    BY <1>6 DEF MarkEmailVerified, CodesSound, Chosen
  <2>2. consumed' = consumed /\ channel' = channel /\ phoneRows' = phoneRows
    BY <1>6 DEF MarkEmailVerified
  <2>3. Late' \subseteq Late
    BY <1>6 DEF MarkEmailVerified, GoTo, Late, CodesSound, CodesTypeOK
  <2>4. Cardinality(Late') <= Cardinality(Late) /\ Cardinality(Late') \in Nat
        /\ Cardinality(Late) \in Nat
    BY <1>0, <2>3, TabCounts
  <2>5. Used' = Used
    BY <2>2 DEF Used
  <2>6. phoneRows' + Cardinality(Late') <= Used' * N'
    BY <1>0, <2>2, <2>4, <2>5 DEF LedgerInv
  <2>7. QED BY <2>1, <2>2, <2>6 DEF LedgerInv
<1>7. CASE MinutePasses \/ CodeExpires
  BY <1>1, <1>7 DEF MinutePasses, CodeExpires, Late
<1>8. CASE UNCHANGED codeVars
  BY <1>1, <1>8 DEF codeVars, Late
<1>9. QED BY <1>2, <1>3, <1>4, <1>5, <1>6, <1>7, <1>8 DEF CodesNext

(* Verified means confirmed by a code that was used up, for a number together
   with its row in the ledger; a code gives rise to at most as many rows as
   there are requests. *)
THEOREM ConfirmedOnlyByCode == CodesSpec => []ConfirmedByCode
<1>1. CodesSound /\ LedgerInv => ConfirmedByCode
  <2> SUFFICES ASSUME CodesSound, LedgerInv PROVE ConfirmedByCode
    OBVIOUS
  <2>1. Late \in SUBSET CodeTabs /\ phoneRows \in Nat
    BY DEF Late, CodesSound, CodesTypeOK
  <2>2. Cardinality(Late) \in Nat /\ Used * N \in Nat
    BY <2>1, TabCounts, UsedIsNat
  <2>3. phoneRows <= Used * N
    BY <2>1, <2>2 DEF LedgerInv
  <2>4. QED BY <2>3 DEF LedgerInv, ConfirmedByCode, Used, N
<1>2. QED BY <1>1, SoundInit, SoundStep, LedgerInit, LedgerStep, PTL DEF CodesSpec

------------------------------------------------------------------------------
(* Two-factor authentication. *)

(* A request that stores has a secret and one that marks has a set of codes; a
   confirmation stands on a code that was accepted, as does the second factor. *)
MfaRequestOK(q) ==
    /\ q.at = "store" => q.what \in 1..MaxSecrets
    /\ q.at = "mark" => q.what \in 1..MaxSets
    /\ q.at \in {"enable", "purge", "generate"} => proven # {}

(* Changes that do not overlap: one at a time, and what it has checked stands. *)
ChangeOK(q) ==
    /\ q.at = "store" => ~ enabled
    /\ q.at \in {"enable", "purge", "generate"} => secret \in proven
    /\ q.at \in {"purge", "generate", "disable"} => enabled
    /\ q.at = "generate" => codeSets = {}
Refilling == {t \in MfaTabs : mfa[t].at \in {"purge", "generate"}}
InTurn ==
    /\ \A t, u \in Changing : t = u
    /\ \A t \in MfaTabs : ChangeOK(mfa[t])
    /\ enabled => secret \in proven
    /\ enabled /\ ~ halved /\ Refilling = {} => Cardinality(codeSets) = 1

(* A code that opened the account is marked, or gone for good. *)
CodeSpent(s) ==
    logins[s] > 0 => s <= given.sets /\ (s \in codeSets => s \in usedSets)

MfaInv ==
    /\ MfaTypeOK
    /\ \A t \in MfaTabs : MfaRequestOK(mfa[t])
    /\ enabled => proven # {}
    /\ \A s \in codeSets : s <= given.sets
    /\ \A s \in 1..MaxSets : CodeSpent(s)
    /\ ~ raced => InTurn

LEMMA MfaSteps ==
  ASSUME MfaTypeOK, NEW t \in MfaTabs, NEW at, NEW what, MfaGoes(t, at, what),
         [at |-> at, what |-> what] \in MfaRequest
  PROVE  /\ mfa' \in [MfaTabs -> MfaRequest]
         /\ mfa'[t].at = at /\ mfa'[t].what = what
         /\ \A u \in MfaTabs \ {t} : mfa'[u] = mfa[u]
         /\ Changing' = IF at \in MfaChange THEN Changing \union {t} ELSE Changing \ {t}
         /\ Refilling' = IF at \in {"purge", "generate"} THEN Refilling \union {t} ELSE Refilling \ {t}
<1>1. mfa' = [mfa EXCEPT ![t] = [at |-> at, what |-> what]] /\ mfa \in [MfaTabs -> MfaRequest]
  BY DEF MfaTypeOK, MfaGoes
<1>2. /\ mfa' \in [MfaTabs -> MfaRequest]
      /\ mfa'[t].at = at /\ mfa'[t].what = what
      /\ \A u \in MfaTabs \ {t} : mfa'[u] = mfa[u]
  BY <1>1
<1>3. QED BY <1>2 DEF Changing, Refilling

LEMMA MfaWhats ==
  /\ MaxSecrets \in Nat /\ MaxSets \in Nat
  /\ 0 \in 0..MaxSecrets + MaxSets
  /\ 1..MaxSecrets \subseteq 0..MaxSecrets + MaxSets
  /\ 1..MaxSets \subseteq 0..MaxSecrets + MaxSets
  BY MfaAssumption

(* The part of the invariant that the requests have: whoever moves. *)
LEMMA MfaRequestsOK ==
  ASSUME MfaInv, NEW t \in MfaTabs, \A u \in MfaTabs \ {t} : mfa'[u] = mfa[u],
         MfaRequestOK(mfa[t])', proven \subseteq proven'
  PROVE  \A u \in MfaTabs : MfaRequestOK(mfa[u])'
<1> SUFFICES ASSUME NEW u \in MfaTabs, u # t PROVE MfaRequestOK(mfa[u])'
  OBVIOUS
<1>1. MfaRequestOK(mfa[u]) /\ mfa'[u] = mfa[u]
  BY DEF MfaInv
<1>2. QED BY <1>1 DEF MfaRequestOK

(* A change starts: unless it overlaps another one, it is the only one. *)
LEMMA ChangeStarts ==
  ASSUME MfaInv, NEW t \in MfaTabs, NEW at \in {"store", "enable", "disable"}, NEW what \in 0..MaxSecrets + MaxSets,
         StartChange(t, at, what), UNCHANGED <<userVars, codeSets, usedSets, halved, logins>>,
         given' \in [secrets : 0..MaxSecrets, sets : 0..MaxSets], given'.sets = given.sets,
         proven' \subseteq 1..MaxSecrets, proven \subseteq proven',
         at = "store" => what \in 1..MaxSecrets /\ ~ enabled,
         at = "enable" => secret \in proven',
         at = "disable" => enabled
  PROVE  MfaInv'
<1> USE DEF userVars
<1>0. MfaTypeOK /\ [at |-> at, what |-> what] \in MfaRequest
  BY DEF MfaInv, MfaRequest, MfaChange
<1>1. /\ mfa' \in [MfaTabs -> MfaRequest]
      /\ mfa'[t].at = at /\ mfa'[t].what = what /\ mfa[t].at = "none"
      /\ \A u \in MfaTabs \ {t} : mfa'[u] = mfa[u]
      /\ Changing' = Changing \union {t} /\ Refilling' = Refilling \ {t}
      /\ raced' = (raced \/ Changing # {})
  BY <1>0, MfaSteps DEF StartChange, MfaChange
<1>2. MfaTypeOK'
  BY <1>0, <1>1 DEF MfaTypeOK
<1>3. \A u \in MfaTabs : MfaRequestOK(mfa[u])'
  <2>1. MfaRequestOK(mfa[t])'
    BY <1>1 DEF MfaRequestOK
  <2>2. QED BY <1>1, <2>1, MfaRequestsOK
<1>4. /\ enabled' => proven' # {}
      /\ \A s \in codeSets' : s <= given'.sets
      /\ \A s \in 1..MaxSets : CodeSpent(s)'
  BY DEF MfaInv, CodeSpent
<1>5. ASSUME ~ raced' PROVE InTurn'
  <2>1. InTurn /\ Changing = {}
    BY <1>0, <1>1, <1>5 DEF MfaInv, MfaTypeOK
  <2>2. ASSUME NEW u \in MfaTabs PROVE ChangeOK(mfa[u])'
    <3>1. CASE u = t
      BY <1>1, <3>1 DEF ChangeOK
    <3>2. CASE u # t
      BY <1>1, <2>1, <3>2 DEF ChangeOK, Changing, MfaChange
    <3>3. QED BY <3>1, <3>2
  <2>3. Refilling = {} /\ Refilling' = {}
    BY <1>1, <2>1 DEF Refilling, Changing, MfaChange
  <2>4. QED BY <1>1, <2>1, <2>2, <2>3 DEF InTurn
<1>6. QED BY <1>2, <1>3, <1>4, <1>5 DEF MfaInv

LEMMA BeginEnrollmentStep ==
  ASSUME MfaInv, NEW t \in MfaTabs, BeginEnrollment(t)
  PROVE  MfaInv'
<1> USE DEF BeginEnrollment
<1>1. given \in [secrets : 0..MaxSecrets, sets : 0..MaxSets] /\ proven \subseteq 1..MaxSecrets
  BY DEF MfaInv, MfaTypeOK
<1>2. given.secrets + 1 \in 1..MaxSecrets
  BY <1>1, MfaAssumption
<1>3. given' \in [secrets : 0..MaxSecrets, sets : 0..MaxSets] /\ given'.sets = given.sets
  BY <1>1, <1>2
<1>4. given.secrets + 1 \in 0..MaxSecrets + MaxSets
  BY <1>2, MfaWhats
<1>5. QED BY <1>1, <1>2, <1>3, <1>4, ChangeStarts

LEMMA ConfirmEnrollmentStep ==
  ASSUME MfaInv, NEW t \in MfaTabs, ConfirmEnrollment(t)
  PROVE  MfaInv'
<1> USE DEF ConfirmEnrollment, codesVars
<1>1. given \in [secrets : 0..MaxSecrets, sets : 0..MaxSets] /\ proven \subseteq 1..MaxSecrets
  BY DEF MfaInv, MfaTypeOK
<1>2. proven' \subseteq 1..MaxSecrets
  BY <1>1 DEF MfaInv, MfaTypeOK
<1>3. QED BY <1>1, <1>2, MfaWhats, ChangeStarts

LEMMA CheckDisableStep ==
  ASSUME MfaInv, NEW t \in MfaTabs, CheckDisable(t)
  PROVE  MfaInv'
<1> USE DEF CheckDisable, codesVars
<1>1. given \in [secrets : 0..MaxSecrets, sets : 0..MaxSets] /\ proven \subseteq 1..MaxSecrets
  BY DEF MfaInv, MfaTypeOK
<1>2. QED BY <1>1, MfaWhats, ChangeStarts

(* Requests go on: what InTurn says of the others stays true while the one that
   moves was the only change. *)
LEMMA OthersInTurn ==
  ASSUME InTurn, NEW t \in Changing, NEW u \in MfaTabs \ {t}, mfa'[u] = mfa[u]
  PROVE  ChangeOK(mfa[u])'
<1>1. mfa[u].at \notin MfaChange
  BY DEF InTurn, Changing
<1>2. QED BY <1>1 DEF ChangeOK, MfaChange

LEMMA StoreSecretStep ==
  ASSUME MfaInv, NEW t \in MfaTabs, StoreSecret(t)
  PROVE  MfaInv'
<1> USE DEF StoreSecret, codesVars
<1>0. MfaTypeOK /\ [at |-> "none", what |-> 0] \in MfaRequest /\ MfaRequestOK(mfa[t])
  BY MfaWhats DEF MfaInv, MfaRequest
<1>1. /\ mfa' \in [MfaTabs -> MfaRequest]
      /\ mfa'[t].at = "none" /\ mfa'[t].what = 0
      /\ \A u \in MfaTabs \ {t} : mfa'[u] = mfa[u]
      /\ Changing' = Changing \ {t} /\ Refilling' = Refilling \ {t} /\ t \in Changing
  BY <1>0, MfaSteps DEF MfaChange, Changing
<1>2. MfaTypeOK'
  BY <1>0, <1>1 DEF MfaTypeOK, MfaRequestOK
<1>3. \A u \in MfaTabs : MfaRequestOK(mfa[u])'
  <2>1. MfaRequestOK(mfa[t])'
    BY <1>1 DEF MfaRequestOK
  <2>2. QED BY <1>1, <2>1, MfaRequestsOK
<1>4. /\ enabled' => proven' # {}
      /\ \A s \in codeSets' : s <= given'.sets
      /\ \A s \in 1..MaxSets : CodeSpent(s)'
  BY DEF MfaInv, CodeSpent
<1>5. ASSUME ~ raced' PROVE InTurn'
  <2>1. InTurn
    BY <1>5 DEF MfaInv
  <2>2. \A u \in MfaTabs \ {t} : ChangeOK(mfa[u])'
    BY <1>1, <2>1, OthersInTurn
  <2>3. ~ enabled
    BY <2>1 DEF InTurn, ChangeOK
  <2>4. ChangeOK(mfa[t])'
    BY <1>1 DEF ChangeOK
  <2>5. QED BY <1>1, <2>1, <2>2, <2>3, <2>4 DEF InTurn
<1>6. QED BY <1>2, <1>3, <1>4, <1>5 DEF MfaInv

LEMMA EnableStep ==
  ASSUME MfaInv, NEW t \in MfaTabs, Enable(t)
  PROVE  MfaInv'
<1> USE DEF Enable, codesVars
<1>0. MfaTypeOK /\ [at |-> "purge", what |-> 0] \in MfaRequest /\ MfaRequestOK(mfa[t])
  BY MfaWhats DEF MfaInv, MfaRequest, MfaChange
<1>1. /\ mfa' \in [MfaTabs -> MfaRequest]
      /\ mfa'[t].at = "purge" /\ mfa'[t].what = 0
      /\ \A u \in MfaTabs \ {t} : mfa'[u] = mfa[u]
      /\ Changing' = Changing \union {t} /\ t \in Refilling' /\ t \in Changing
  BY <1>0, MfaSteps DEF MfaChange, Changing
<1>2. MfaTypeOK'
  BY <1>0, <1>1 DEF MfaTypeOK
<1>3. (\A u \in MfaTabs : MfaRequestOK(mfa[u])') /\ proven # {}
  <2>1. MfaRequestOK(mfa[t])' /\ proven # {}
    BY <1>0, <1>1 DEF MfaRequestOK
  <2>2. QED BY <1>1, <2>1, MfaRequestsOK
<1>4. /\ \A s \in codeSets' : s <= given'.sets
      /\ \A s \in 1..MaxSets : CodeSpent(s)'
  BY DEF MfaInv, CodeSpent
<1>5. ASSUME ~ raced' PROVE InTurn'
  <2>1. InTurn
    BY <1>5 DEF MfaInv
  <2>2. \A u \in MfaTabs \ {t} : ChangeOK(mfa[u])'
    BY <1>1, <2>1, OthersInTurn
  <2>3. secret \in proven
    BY <2>1 DEF InTurn, ChangeOK
  <2>4. ChangeOK(mfa[t])'
    BY <1>1, <2>3 DEF ChangeOK
  <2>5. QED BY <1>1, <2>1, <2>2, <2>3, <2>4 DEF InTurn
<1>6. QED BY <1>2, <1>3, <1>4, <1>5 DEF MfaInv

LEMMA PurgeCodesStep ==
  ASSUME MfaInv, NEW t \in MfaTabs, PurgeCodes(t)
  PROVE  MfaInv'
<1> USE DEF PurgeCodes, userVars
<1>0. MfaTypeOK /\ [at |-> "generate", what |-> 0] \in MfaRequest /\ MfaRequestOK(mfa[t])
  BY MfaWhats DEF MfaInv, MfaRequest, MfaChange
<1>1. /\ mfa' \in [MfaTabs -> MfaRequest]
      /\ mfa'[t].at = "generate" /\ mfa'[t].what = 0
      /\ \A u \in MfaTabs \ {t} : mfa'[u] = mfa[u]
      /\ Changing' = Changing \union {t} /\ t \in Refilling' /\ t \in Changing
  BY <1>0, MfaSteps DEF MfaChange, Changing
<1>2. MfaTypeOK'
  BY <1>0, <1>1 DEF MfaTypeOK
<1>3. \A u \in MfaTabs : MfaRequestOK(mfa[u])'
  <2>1. MfaRequestOK(mfa[t])'
    BY <1>0, <1>1 DEF MfaRequestOK
  <2>2. QED BY <1>1, <2>1, MfaRequestsOK
<1>4. /\ enabled' => proven' # {}
      /\ \A s \in codeSets' : s <= given'.sets
      /\ \A s \in 1..MaxSets : CodeSpent(s)'
  BY DEF MfaInv, CodeSpent
<1>5. ASSUME ~ raced' PROVE InTurn'
  <2>1. InTurn
    BY <1>5 DEF MfaInv
  <2>2. \A u \in MfaTabs \ {t} : ChangeOK(mfa[u])'
    BY <1>1, <2>1, OthersInTurn
  <2>3. secret \in proven /\ enabled
    BY <2>1 DEF InTurn, ChangeOK
  <2>4. ChangeOK(mfa[t])'
    BY <1>1, <2>3 DEF ChangeOK
  <2>5. QED BY <1>1, <2>1, <2>2, <2>3, <2>4 DEF InTurn
<1>6. QED BY <1>2, <1>3, <1>4, <1>5 DEF MfaInv

LEMMA GenerateCodesStep ==
  ASSUME MfaInv, NEW t \in MfaTabs, GenerateCodes(t)
  PROVE  MfaInv'
<1> USE DEF GenerateCodes, userVars
<1>0. MfaTypeOK /\ [at |-> "none", what |-> 0] \in MfaRequest /\ MfaRequestOK(mfa[t])
  BY MfaWhats DEF MfaInv, MfaRequest, MfaChange
<1>1. /\ mfa' \in [MfaTabs -> MfaRequest]
      /\ mfa'[t].at = "none" /\ mfa'[t].what = 0
      /\ \A u \in MfaTabs \ {t} : mfa'[u] = mfa[u]
      /\ Changing' = Changing \ {t} /\ Refilling' = Refilling \ {t} /\ t \in Changing
  BY <1>0, MfaSteps DEF MfaChange, Changing
<1>2. /\ given.sets \in Nat /\ given.sets + 1 \in 1..MaxSets /\ given'.sets = given.sets + 1
      /\ given' \in [secrets : 0..MaxSecrets, sets : 0..MaxSets]
      /\ codeSets \subseteq 1..MaxSets
  BY <1>0, MfaAssumption DEF MfaTypeOK
<1>3. MfaTypeOK'
  BY <1>0, <1>1, <1>2 DEF MfaTypeOK
<1>4. \A u \in MfaTabs : MfaRequestOK(mfa[u])'
  <2>1. MfaRequestOK(mfa[t])'
    BY <1>1 DEF MfaRequestOK
  <2>2. QED BY <1>1, <2>1, MfaRequestsOK
<1>5. \A s \in codeSets' : s <= given'.sets
  BY <1>2 DEF MfaInv
<1>6. \A s \in 1..MaxSets : CodeSpent(s)'
  BY <1>2 DEF MfaInv, CodeSpent
<1>7. ASSUME ~ raced' PROVE InTurn'
  <2>1. InTurn
    BY <1>7 DEF MfaInv
  <2>2. \A u \in MfaTabs \ {t} : ChangeOK(mfa[u])'
    BY <1>1, <2>1, OthersInTurn
  <2>3. codeSets = {} /\ secret \in proven
    BY <2>1 DEF InTurn, ChangeOK
  <2>4. Cardinality(codeSets') = 1
    BY <2>3, FS_Singleton
  <2>5. ChangeOK(mfa[t])'
    BY <1>1 DEF ChangeOK
  <2>6. QED BY <1>1, <2>1, <2>2, <2>3, <2>4, <2>5 DEF InTurn
<1>8. QED BY <1>3, <1>4, <1>5, <1>6, <1>7 DEF MfaInv

LEMMA DisableStep ==
  ASSUME MfaInv, NEW t \in MfaTabs, Disable(t)
  PROVE  MfaInv'
<1> USE DEF Disable
<1>0. MfaTypeOK /\ [at |-> "none", what |-> 0] \in MfaRequest /\ 0 \in 0..MaxSecrets
  BY MfaWhats DEF MfaInv, MfaRequest
<1>1. /\ mfa' \in [MfaTabs -> MfaRequest]
      /\ mfa'[t].at = "none" /\ mfa'[t].what = 0
      /\ \A u \in MfaTabs \ {t} : mfa'[u] = mfa[u]
      /\ Changing' = Changing \ {t} /\ t \in Changing
  BY <1>0, MfaSteps DEF MfaChange, Changing
<1>2. MfaTypeOK'
  BY <1>0, <1>1 DEF MfaTypeOK
<1>3. \A u \in MfaTabs : MfaRequestOK(mfa[u])'
  <2>1. MfaRequestOK(mfa[t])'
    BY <1>1 DEF MfaRequestOK
  <2>2. QED BY <1>1, <2>1, MfaRequestsOK
<1>4. \A s \in 1..MaxSets : CodeSpent(s)'
  BY DEF MfaInv, CodeSpent
<1>5. ASSUME ~ raced' PROVE InTurn'
  <2>1. InTurn
    BY <1>5 DEF MfaInv
  <2>2. \A u \in MfaTabs \ {t} : ChangeOK(mfa[u])'
    BY <1>1, <2>1, OthersInTurn
  <2>3. ChangeOK(mfa[t])'
    BY <1>1 DEF ChangeOK
  <2>4. QED BY <1>1, <2>1, <2>2, <2>3 DEF InTurn
<1>6. QED BY <1>2, <1>3, <1>4, <1>5 DEF MfaInv

(* Requests that use a code or end change nothing of the enrolment. *)
LEMMA NotChanging ==
  ASSUME MfaInv, NEW t \in MfaTabs, NEW at \in {"none", "seek", "mark"},
         NEW what \in 0..MaxSecrets + MaxSets, MfaGoes(t, at, what),
         at = "mark" => what \in 1..MaxSets,
         UNCHANGED <<userVars, codeSets, given, proven, raced>>,
         codeSets \intersect usedSets' = usedSets', logins' \in [1..MaxSets -> Nat],
         halved' \in BOOLEAN, halved \/ t \in Refilling => halved',
         t \in Refilling \/ halved' = halved,
         \A s \in 1..MaxSets : CodeSpent(s)'
  PROVE  MfaInv'
<1> USE DEF userVars
<1>0. MfaTypeOK /\ [at |-> at, what |-> what] \in MfaRequest
  BY DEF MfaInv, MfaRequest
<1>1. /\ mfa' \in [MfaTabs -> MfaRequest]
      /\ mfa'[t].at = at /\ mfa'[t].what = what
      /\ \A u \in MfaTabs \ {t} : mfa'[u] = mfa[u]
      /\ Changing' = Changing \ {t} /\ Refilling' = Refilling \ {t}
  BY <1>0, MfaSteps DEF MfaChange
<1>2. MfaTypeOK'
  BY <1>0, <1>1 DEF MfaTypeOK
<1>3. \A u \in MfaTabs : MfaRequestOK(mfa[u])'
  <2>1. MfaRequestOK(mfa[t])'
    BY <1>1 DEF MfaRequestOK
  <2>2. QED BY <1>1, <2>1, MfaRequestsOK
<1>4. (enabled' => proven' # {}) /\ \A s \in codeSets' : s <= given'.sets
  BY DEF MfaInv
<1>5. ASSUME ~ raced' PROVE InTurn'
  <2>1. InTurn
    BY <1>5 DEF MfaInv
  <2>2. ASSUME NEW u \in MfaTabs PROVE ChangeOK(mfa[u])'
    <3>1. CASE u = t
      BY <1>1, <3>1 DEF ChangeOK
    <3>2. CASE u # t
      BY <1>1, <2>1, <3>2 DEF ChangeOK, InTurn
    <3>3. QED BY <3>1, <3>2
  <2>3. enabled' => secret' \in proven'
    BY <2>1 DEF InTurn
  <2>4. ASSUME enabled, ~ halved', Refilling' = {} PROVE Cardinality(codeSets) = 1
    <3>1. ~ halved /\ Refilling = {}
      BY <1>0, <1>1, <2>4 DEF MfaTypeOK
    <3>2. QED BY <2>1, <2>4, <3>1 DEF InTurn
  <2>5. \A x, y \in Changing' : x = y
    BY <1>1, <2>1 DEF InTurn
  <2>6. QED BY <2>2, <2>3, <2>4, <2>5 DEF InTurn
<1>6. QED BY <1>2, <1>3, <1>4, <1>5 DEF MfaInv

LEMMA CodesStaySpent ==
  ASSUME MfaInv, UNCHANGED <<codesVars, logins>>
  PROVE  /\ \A s \in 1..MaxSets : CodeSpent(s)'
         /\ codeSets \intersect usedSets' = usedSets' /\ logins' \in [1..MaxSets -> Nat]
         /\ halved \in BOOLEAN
  BY DEF MfaInv, CodeSpent, codesVars, MfaTypeOK

LEMMA ChallengeStep ==
  ASSUME MfaInv, NEW t \in MfaTabs,
         Challenge(t) \/ (\E s \in 1..MaxSets : FindCode(t, s)) \/ MfaFails(t)
  PROVE  MfaInv'
<1> USE MfaWhats, CodesStaySpent
<1>1. CASE Challenge(t)
  <2>1. /\ MfaGoes(t, "seek", 0) /\ mfa[t].at = "none" /\ t \notin Refilling
        /\ UNCHANGED <<userVars, codesVars, proven, raced, halved, logins>>
    BY <1>1 DEF Challenge, Refilling
  <2>2. QED BY <2>1, NotChanging DEF codesVars
<1>2. ASSUME NEW s \in 1..MaxSets, FindCode(t, s) PROVE MfaInv'
  <2>1. /\ MfaGoes(t, "mark", s) /\ mfa[t].at = "seek" /\ t \notin Refilling
        /\ UNCHANGED <<userVars, codesVars, proven, raced, halved, logins>>
    BY <1>2 DEF FindCode, Refilling
  <2>2. QED BY <2>1, NotChanging DEF codesVars
<1>3. CASE MfaFails(t)
  <2>1. /\ MfaGoes(t, "none", 0) /\ halved' = (halved \/ t \in Refilling)
        /\ UNCHANGED <<userVars, codesVars, proven, raced, logins>>
    BY <1>3 DEF MfaFails, Refilling
  <2>2. QED BY <2>1, NotChanging DEF codesVars
<1>4. QED BY <1>1, <1>2, <1>3

LEMMA MarkCodeStep ==
  ASSUME MfaInv, NEW t \in MfaTabs, MarkCode(t)
  PROVE  MfaInv'
<1> DEFINE c == mfa[t].what
<1>0. MfaTypeOK /\ MfaRequestOK(mfa[t])
  BY DEF MfaInv
<1>1. /\ mfa[t].at = "mark" /\ c \in codeSets /\ usedSets' = usedSets \union {c}
      /\ logins' = [logins EXCEPT ![c] = @ + 1] /\ MfaGoes(t, "none", 0)
      /\ UNCHANGED <<userVars, codeSets, given, proven, raced, halved>>
  BY DEF MarkCode
<1>2. c \in 1..MaxSets /\ c <= given.sets
  BY <1>0, <1>1 DEF MfaRequestOK, MfaInv
<1> HIDE DEF c
<1>3. logins' \in [1..MaxSets -> Nat] /\ codeSets \intersect usedSets' = usedSets'
  <2>1. logins \in [1..MaxSets -> Nat] /\ usedSets \subseteq codeSets /\ logins[c] + 1 \in Nat
    BY <1>0, <1>2 DEF MfaTypeOK
  <2>2. logins' \in [1..MaxSets -> Nat]
    BY <1>1, <2>1
  <2>3. QED BY <1>1, <2>1, <2>2
<1>4. ASSUME NEW s \in 1..MaxSets PROVE CodeSpent(s)'
  <2>1. CASE s = c
    BY <1>1, <1>2, <2>1 DEF CodeSpent
  <2>2. CASE s # c
    <3>1. logins'[s] = logins[s]
      BY <1>0, <1>1, <2>2 DEF MfaTypeOK
    <3>2. QED BY <1>1, <3>1 DEF CodeSpent, MfaInv
  <2>3. QED BY <2>1, <2>2
<1>5. t \notin Refilling /\ halved \in BOOLEAN
  BY <1>0, <1>1 DEF Refilling, MfaTypeOK
<1>6. QED BY <1>1, <1>3, <1>4, <1>5, MfaWhats, NotChanging

LEMMA MfaInvInit == MfaInit => MfaInv
<1> SUFFICES ASSUME MfaInit PROVE MfaInv
  OBVIOUS
<1> USE DEF MfaInit, NoMfa
<1>1. [at |-> "none", what |-> 0] \in MfaRequest /\ 0 \in 0..MaxSecrets /\ 0 \in 0..MaxSets
  BY MfaWhats DEF MfaRequest
<1>2. MfaTypeOK
  BY <1>1 DEF MfaTypeOK
<1>3. \A t \in MfaTabs : MfaRequestOK(mfa[t]) /\ ChangeOK(mfa[t])
  BY DEF MfaRequestOK, ChangeOK
<1>4. Changing = {}
  BY DEF Changing, MfaChange
<1>5. QED BY <1>2, <1>3, <1>4 DEF MfaInv, InTurn, CodeSpent

LEMMA MfaInvNext == MfaInv /\ [MfaNext]_mfaVars => MfaInv'
<1> SUFFICES ASSUME MfaInv, [MfaNext]_mfaVars PROVE MfaInv'
  OBVIOUS
<1>1. ASSUME NEW t \in MfaTabs,
             BeginEnrollment(t) \/ ConfirmEnrollment(t) \/ CheckDisable(t)
      PROVE  MfaInv'
  BY <1>1, BeginEnrollmentStep, ConfirmEnrollmentStep, CheckDisableStep
<1>2. ASSUME NEW t \in MfaTabs,
             StoreSecret(t) \/ Enable(t) \/ PurgeCodes(t) \/ GenerateCodes(t) \/ Disable(t)
      PROVE  MfaInv'
  BY <1>2, StoreSecretStep, EnableStep, PurgeCodesStep, GenerateCodesStep, DisableStep
<1>3. ASSUME NEW t \in MfaTabs,
             Challenge(t) \/ (\E s \in 1..MaxSets : FindCode(t, s)) \/ MfaFails(t) \/ MarkCode(t)
      PROVE  MfaInv'
  BY <1>3, ChallengeStep, MarkCodeStep
<1>4. CASE UNCHANGED mfaVars
  <2>1. UNCHANGED <<enabled, secret, codeSets, usedSets, given, proven, raced, halved, logins, mfa>>
    BY <1>4 DEF mfaVars
  <2>2. MfaTypeOK' /\ \A t \in MfaTabs : MfaRequestOK(mfa[t])'
    BY <2>1 DEF MfaInv, MfaTypeOK, MfaRequestOK
  <2>3. ASSUME ~ raced' PROVE InTurn'
    BY <2>1, <2>3 DEF MfaInv, InTurn, ChangeOK, Changing, Refilling
  <2>4. QED BY <2>1, <2>2, <2>3 DEF MfaInv, CodeSpent
<1>5. QED BY <1>1, <1>2, <1>3, <1>4 DEF MfaNext

(* In every state of the enrolment, however requests overlap and end. *)
THEOREM MfaInvariant == MfaSpec => []MfaInv
  BY MfaInvInit, MfaInvNext, PTL DEF MfaSpec

(* Who is asked for a second factor can give it: it was proved before it was
   switched on, and while no two changes of the enrolment overlap the secret
   in place is a proved one, with one set of recovery codes. *)
THEOREM SecondFactorHeld == MfaSpec => []SecondFactorIsHeld
<1>1. ASSUME MfaInv PROVE SecondFactorIsHeld
  <2>1. Changing = {} => Refilling = {}
    BY DEF Changing, Refilling, MfaChange
  <2>2. QED BY <1>1, <2>1 DEF MfaInv, InTurn, SecondFactorIsHeld
<1>2. QED BY <1>1, MfaInvariant, PTL

(* A recovery code that opened the account opens it no more once those who
   found it unused together have ended. *)
THEOREM CodesRunOut == MfaSpec => RecoveryCodesRunOut
<1>1. ASSUME MfaInv, [MfaNext]_mfaVars, NEW s \in 1..MaxSets, logins[s] > 0, Marking(s) = {}
      PROVE  logins'[s] = logins[s] /\ Marking(s)' = {}
  <2>0. MfaTypeOK /\ ~ Usable(s)
    BY <1>1 DEF MfaInv, CodeSpent, Usable
  <2>1. ASSUME NEW t \in MfaTabs, MarkCode(t)
        PROVE  logins'[s] = logins[s] /\ Marking(s)' = {}
    <3>1. mfa[t].what # s
      BY <1>1, <2>1 DEF Marking, MarkCode
    <3>2. logins'[s] = logins[s]
      BY <2>0, <2>1, <3>1 DEF MarkCode, MfaTypeOK
    <3>3. \A u \in MfaTabs : mfa'[u] = mfa[u] \/ mfa'[u].at = "none"
      BY <2>0, <2>1 DEF MarkCode, MfaGoes, MfaTypeOK
    <3>4. QED BY <1>1, <3>2, <3>3 DEF Marking
  <2>2. ASSUME NEW t \in MfaTabs, NEW c \in 1..MaxSets, FindCode(t, c)
        PROVE  logins'[s] = logins[s] /\ Marking(s)' = {}
    <3>1. c # s /\ logins' = logins
      BY <2>0, <2>2 DEF FindCode
    <3>2. \A u \in MfaTabs : mfa'[u] = mfa[u] \/ mfa'[u].what = c
      BY <2>0, <2>2 DEF FindCode, MfaGoes, MfaTypeOK
    <3>3. QED BY <1>1, <3>1, <3>2 DEF Marking
  <2>3. ASSUME NEW t \in MfaTabs,
               \/ BeginEnrollment(t) \/ ConfirmEnrollment(t) \/ CheckDisable(t)
               \/ StoreSecret(t) \/ Enable(t) \/ PurgeCodes(t) \/ GenerateCodes(t) \/ Disable(t)
               \/ Challenge(t) \/ MfaFails(t)
        PROVE  logins'[s] = logins[s] /\ Marking(s)' = {}
    <3>1. logins' = logins
      BY <2>3 DEF BeginEnrollment, ConfirmEnrollment, CheckDisable, StoreSecret, Enable, PurgeCodes,
                  GenerateCodes, Disable, Challenge, MfaFails
    <3>2. \E at \in MfaChange \union {"none", "seek"} : \E what : MfaGoes(t, at, what)
      BY <2>3 DEF BeginEnrollment, ConfirmEnrollment, CheckDisable, StoreSecret, Enable, PurgeCodes,
                  GenerateCodes, Disable, Challenge, MfaFails, StartChange, MfaChange
    <3>3. \A u \in MfaTabs : mfa'[u] = mfa[u] \/ mfa'[u].at # "mark"
      BY <2>0, <3>2 DEF MfaGoes, MfaTypeOK, MfaChange
    <3>4. QED BY <1>1, <3>1, <3>3 DEF Marking
  <2>4. CASE UNCHANGED mfaVars
    BY <1>1, <2>4 DEF mfaVars, Marking
  <2>5. QED BY <1>1, <2>1, <2>2, <2>3, <2>4 DEF MfaNext
<1>2. MfaInv /\ [MfaNext]_mfaVars
        => [\A s \in 1..MaxSets : logins[s] > 0 /\ Marking(s) = {}
              => logins'[s] = logins[s] /\ Marking(s)' = {}]_mfaVars
  BY <1>1
<1>3. QED BY <1>2, MfaInvariant, PTL DEF MfaSpec, RecoveryCodesRunOut

------------------------------------------------------------------------------
(* Mentoring. *)

Answers(b) == answered[b]["ACCEPTED"] + answered[b]["DECLINED"]

(* What a request was let through for: a review has its consent, and what is
   about to be announced has been written. *)
TaskOK(u, q) ==
    /\ q.at = "answer" => u = "mentor" /\ q.what \in BookingAnswer
    /\ q.at = "review" => q.what = u /\ answered[q.on]["ACCEPTED"] > 0
    /\ q.at = "lookup" /\ q.what \in BookingAnswer => answered[q.on][q.what] > 0
    /\ q.at = "lookup" /\ q.what \in Party => q.what \in reviews[q.on]

(* A booking shows an answer that was written, and the requests that may still
   answer it and the answers there are together are no more than the tabs. *)
BookingOK(b) ==
    /\ booking[b] \in BookingAnswer => answered[b][booking[b]] > 0
    /\ booking[b] \notin BookingAnswer => Answers(b) = 0
    /\ Answers(b) + Cardinality(Undecided(b)) <= Cardinality(MentorTabs)

MentoringInv ==
    /\ MentoringTypeOK
    /\ \A u \in Party, t \in MentorTabs : TaskOK(u, task[u][t])
    /\ \A b \in Bookings : BookingOK(b) /\ RestsOnConsent(b)

LEMMA SomeMentorTabs ==
  ASSUME NEW A \in SUBSET MentorTabs
  PROVE  /\ Cardinality(A) \in Nat /\ Cardinality(MentorTabs) \in Nat
         /\ Cardinality(A) <= Cardinality(MentorTabs)
         /\ \A t \in A : Cardinality(A \ {t}) = Cardinality(A) - 1
         /\ \A t \in MentorTabs : Cardinality(A \ {t}) <= Cardinality(A) /\ Cardinality(A \ {t}) \in Nat
<1>1. IsFiniteSet(MentorTabs) /\ IsFiniteSet(A)
  BY MentoringAssumption, FS_Subset
<1>2. \A t \in MentorTabs : Cardinality(A \ {t}) <= Cardinality(A) /\ Cardinality(A \ {t}) \in Nat
  BY <1>1, FS_Subset, FS_CardinalityType
<1>3. QED BY <1>1, <1>2, FS_Subset, FS_CardinalityType, FS_RemoveElement

LEMMA AnswersAre ==
  ASSUME MentoringTypeOK, NEW b \in Bookings
  PROVE  /\ answered[b]["ACCEPTED"] \in Nat /\ answered[b]["DECLINED"] \in Nat /\ Answers(b) \in Nat
         /\ \A w \in BookingAnswer : answered[b][w] \in Nat
  BY DEF MentoringTypeOK, BookingAnswer, Answers

LEMMA TasksAre ==
  ASSUME MentoringTypeOK, NEW u \in Party, NEW t \in MentorTabs
  PROVE  /\ task[u][t] \in Under \union {Free}
         /\ task[u][t].at # "free" => task[u][t] \in Under
         /\ Free.at = "free"
  BY DEF MentoringTypeOK, Free

(* One request of one side goes on. *)
LEMMA TaskMoves ==
  ASSUME MentoringTypeOK, NEW u \in Party, NEW t \in MentorTabs, NEW q \in Under \union {Free},
         Task(u, t, q)
  PROVE  /\ task' \in [Party -> [MentorTabs -> Under \union {Free}]]
         /\ task'[u][t] = q
         /\ \A v \in Party, x \in MentorTabs : v # u \/ x # t => task'[v][x] = task[v][x]
  BY DEF Task, MentoringTypeOK

LEMMA UndecidedMoves ==
  ASSUME MentoringTypeOK, NEW u \in Party, NEW t \in MentorTabs, NEW q \in Under \union {Free},
         Task(u, t, q), NEW b \in Bookings
  PROVE  Undecided(b)' = IF u # "mentor" THEN Undecided(b)
                         ELSE IF q.at = "answer" /\ q.on = b THEN Undecided(b) \union {t}
                         ELSE Undecided(b) \ {t}
<1>1. /\ task'[u][t] = q /\ "mentor" \in Party
      /\ \A v \in Party, x \in MentorTabs : v # u \/ x # t => task'[v][x] = task[v][x]
  BY TaskMoves DEF Party
<1>2. CASE u = "mentor"
  BY <1>1, <1>2 DEF Undecided, IsAt
<1>3. CASE u # "mentor"
  BY <1>1, <1>3 DEF Undecided, IsAt
<1>4. QED BY <1>2, <1>3

(* What was written is not taken back, so the requests that rest on it stay
   in order. *)
LEMMA TasksStayOK ==
  ASSUME MentoringInv, NEW u \in Party, NEW t \in MentorTabs, NEW q \in Under \union {Free},
         Task(u, t, q), TaskOK(u, task[u][t])',
         \A b \in Bookings, w \in BookingAnswer : answered[b][w] > 0 => answered'[b][w] > 0,
         \A b \in Bookings : reviews[b] \subseteq reviews'[b]
  PROVE  \A v \in Party, x \in MentorTabs : TaskOK(v, task[v][x])'
<1> SUFFICES ASSUME NEW v \in Party, NEW x \in MentorTabs, v # u \/ x # t
             PROVE  TaskOK(v, task[v][x])'
  OBVIOUS
<1>1. task'[v][x] = task[v][x] /\ TaskOK(v, task[v][x]) /\ MentoringTypeOK
  BY TaskMoves DEF MentoringInv
<1>2. CASE task[v][x].at = "free"
  BY <1>1, <1>2 DEF TaskOK
<1>3. CASE task[v][x].at # "free"
  <2>1. task[v][x].on \in Bookings /\ "ACCEPTED" \in BookingAnswer
    BY <1>1, <1>3, TasksAre DEF Under, BookingAnswer
  <2>2. QED BY <1>1, <2>1 DEF TaskOK
<1>4. QED BY <1>2, <1>3

(* Steps that write no row and tell nobody. *)
LEMMA OnlyTaskMoves ==
  ASSUME MentoringInv, NEW u \in Party, NEW t \in MentorTabs, NEW q \in Under \union {Free},
         Task(u, t, q), UNCHANGED <<booking, reviews, answered, told>>, TaskOK(u, task[u][t])',
         q.at = "answer" => booking[q.on] = "PENDING"
  PROVE  MentoringInv'
<1>0. MentoringTypeOK
  BY DEF MentoringInv
<1>1. MentoringTypeOK'
  BY <1>0, TaskMoves DEF MentoringTypeOK
<1>2. \A v \in Party, x \in MentorTabs : TaskOK(v, task[v][x])'
  BY TasksStayOK
<1>3. ASSUME NEW b \in Bookings PROVE BookingOK(b)'
  <2>1. BookingOK(b) /\ Answers(b)' = Answers(b) /\ Answers(b) \in Nat
    BY <1>0, AnswersAre DEF MentoringInv, Answers
  <2>2. Undecided(b) \in SUBSET MentorTabs /\ Undecided(b)' \in SUBSET MentorTabs
    BY DEF Undecided
  <2>3. Answers(b) + Cardinality(Undecided(b)') <= Cardinality(MentorTabs)
    <3>1. CASE q.at = "answer" /\ q.on = b
      <4>1. Answers(b) = 0
        BY <2>1, <3>1 DEF BookingOK, BookingAnswer
      <4>2. QED BY <2>2, <4>1, SomeMentorTabs
    <3>2. CASE ~ (q.at = "answer" /\ q.on = b)
      <4>1. Undecided(b)' = Undecided(b) \/ Undecided(b)' = Undecided(b) \ {t}
        BY <1>0, <3>2, UndecidedMoves
      <4>2. Cardinality(Undecided(b)') <= Cardinality(Undecided(b))
            /\ Cardinality(Undecided(b)) \in Nat /\ Cardinality(Undecided(b)') \in Nat
        BY <2>2, <4>1, SomeMentorTabs
      <4>3. QED BY <2>1, <4>2, SomeMentorTabs DEF BookingOK
    <3>3. QED BY <3>1, <3>2
  <2>4. QED BY <2>1, <2>3 DEF BookingOK, Answers
<1>4. \A b \in Bookings : RestsOnConsent(b)'
  BY DEF MentoringInv, RestsOnConsent
<1>5. QED BY <1>1, <1>2, <1>3, <1>4 DEF MentoringInv

LEMMA CheckStep ==
  ASSUME MentoringInv, NEW u \in Party, NEW t \in MentorTabs, NEW b \in Bookings,
         (u = "mentor" /\ \E w \in BookingAnswer : CheckAnswer(t, b, w)) \/ CheckReview(u, t, b)
  PROVE  MentoringInv'
<1>0. MentoringTypeOK /\ BookingOK(b)
  BY DEF MentoringInv
<1>1. ASSUME NEW w \in BookingAnswer, u = "mentor", CheckAnswer(t, b, w)
      PROVE  MentoringInv'
  <2> DEFINE q == [at |-> "answer", on |-> b, what |-> w]
  <2>1. q \in Under /\ q.at = "answer" /\ q.on = b /\ q.what = w
    BY DEF Under
  <2>2. Task(u, t, q) /\ booking[b] = "PENDING" /\ UNCHANGED <<booking, reviews, answered, told>>
    BY <1>1 DEF CheckAnswer, Enter, MayAnswer, rowVars
  <2> HIDE DEF q
  <2>3. task'[u][t] = q
    BY <1>0, <2>1, <2>2, TaskMoves
  <2>4. TaskOK(u, task[u][t])'
    BY <1>1, <2>1, <2>3 DEF TaskOK
  <2>5. QED BY <2>1, <2>2, <2>4, OnlyTaskMoves
<1>2. CASE CheckReview(u, t, b)
  <2> DEFINE q == [at |-> "review", on |-> b, what |-> u]
  <2>1. q \in Under /\ q.at = "review" /\ q.on = b /\ q.what = u
    BY DEF Under
  <2>2. Task(u, t, q) /\ booking[b] = "ACCEPTED" /\ UNCHANGED <<booking, reviews, answered, told>>
    BY <1>2 DEF CheckReview, Enter, MayReview, rowVars
  <2> HIDE DEF q
  <2>3. task'[u][t] = q
    BY <1>0, <2>1, <2>2, TaskMoves
  <2>4. answered[b]["ACCEPTED"] > 0
    BY <1>0, <2>2 DEF BookingOK, BookingAnswer
  <2>5. TaskOK(u, task[u][t])'
    BY <2>1, <2>2, <2>3, <2>4 DEF TaskOK
  <2>6. QED BY <2>1, <2>2, <2>5, OnlyTaskMoves
<1>3. QED BY <1>1, <1>2

LEMMA BookStep ==
  ASSUME MentoringInv, NEW t \in MentorTabs, NEW b \in Bookings, Book(t, b)
  PROVE  MentoringInv'
<1> DEFINE q == [at |-> "lookup", on |-> b, what |-> "requested"]
<1>0. MentoringTypeOK /\ "founder" \in Party
  BY DEF MentoringInv, Party
<1>1. q \in Under /\ q.at = "lookup" /\ q.on = b /\ q.what = "requested"
  BY DEF Under
<1>2. /\ Task("founder", t, q) /\ booking[b] = "none"
      /\ booking' = [booking EXCEPT ![b] = "PENDING"] /\ UNCHANGED <<reviews, answered, told>>
  BY DEF Book, Enter
<1> HIDE DEF q
<1>3. task'["founder"][t] = q /\ MentoringTypeOK'
  BY <1>0, <1>1, <1>2, TaskMoves DEF MentoringTypeOK
<1>4. \A v \in Party, x \in MentorTabs : TaskOK(v, task[v][x])'
  <2>1. TaskOK("founder", task["founder"][t])'
    BY <1>1, <1>3 DEF TaskOK, BookingAnswer, Party
  <2>2. QED BY <1>0, <1>1, <1>2, <2>1, TasksStayOK
<1>5. ASSUME NEW c \in Bookings PROVE BookingOK(c)'
  <2>1. BookingOK(c) /\ Answers(c)' = Answers(c) /\ Undecided(c)' = Undecided(c)
    BY <1>0, <1>1, <1>2, UndecidedMoves DEF MentoringInv, Answers
  <2>2. CASE c = b
    <3>1. booking'[c] = "PENDING" /\ booking[c] = "none"
      BY <1>0, <1>2, <2>2 DEF MentoringTypeOK
    <3>2. Answers(c) = 0
      BY <2>1, <3>1 DEF BookingOK, BookingAnswer
    <3>3. QED BY <2>1, <3>1, <3>2 DEF BookingOK, BookingAnswer
  <2>3. CASE c # b
    <3>1. booking'[c] = booking[c]
      BY <1>0, <1>2, <2>3 DEF MentoringTypeOK
    <3>2. QED BY <1>2, <2>1, <3>1 DEF BookingOK
  <2>4. QED BY <2>2, <2>3
<1>6. \A c \in Bookings : RestsOnConsent(c)'
  BY <1>2 DEF MentoringInv, RestsOnConsent
<1>7. QED BY <1>3, <1>4, <1>5, <1>6 DEF MentoringInv

LEMMA AnswerBookingStep ==
  ASSUME MentoringInv, NEW t \in MentorTabs, AnswerBooking(t)
  PROVE  MentoringInv'
<1> DEFINE b == task["mentor"][t].on
           w == task["mentor"][t].what
           q == [task["mentor"][t] EXCEPT !.at = "lookup"]
<1>0. MentoringTypeOK /\ "mentor" \in Party /\ TaskOK("mentor", task["mentor"][t])
  BY DEF MentoringInv, Party
<1>1. /\ task["mentor"][t].at = "answer" /\ booking' = [booking EXCEPT ![b] = w]
      /\ answered' = [answered EXCEPT ![b][w] = @ + 1] /\ Task("mentor", t, q)
      /\ UNCHANGED <<reviews, told>>
  BY DEF AnswerBooking, IsAt, Move
<1>2. task["mentor"][t] \in Under /\ b \in Bookings /\ w \in BookingAnswer
  BY <1>0, <1>1, TasksAre DEF TaskOK, Under
<1>3. q \in Under /\ q.at = "lookup" /\ q.on = b /\ q.what = w
  BY <1>2 DEF Under
<1>4. t \in Undecided(b)
  BY <1>1 DEF Undecided, IsAt
<1> HIDE DEF b, w, q
<1>5. /\ answered' \in [Bookings -> [BookingAnswer -> Nat]]
      /\ answered'[b][w] = answered[b][w] + 1 /\ answered[b][w] \in Nat
      /\ \A x \in BookingAnswer \ {w} : answered'[b][x] = answered[b][x]
      /\ \A c \in Bookings \ {b} : answered'[c] = answered[c]
  <2>1. answered[b] \in [BookingAnswer -> Nat] /\ answered \in [Bookings -> [BookingAnswer -> Nat]]
    BY <1>0, <1>2 DEF MentoringTypeOK
  <2>2. answered' = [answered EXCEPT ![b] = [answered[b] EXCEPT ![w] = answered[b][w] + 1]]
    BY <1>1
  <2>3. [answered[b] EXCEPT ![w] = answered[b][w] + 1] \in [BookingAnswer -> Nat]
    BY <1>2, <2>1
  <2>4. QED BY <1>2, <2>1, <2>2, <2>3
<1>6. task'["mentor"][t] = q /\ MentoringTypeOK'
  BY <1>0, <1>1, <1>2, <1>3, <1>5, TaskMoves DEF MentoringTypeOK
<1>7. \A c \in Bookings, x \in BookingAnswer : answered[c][x] > 0 => answered'[c][x] > 0
  BY <1>0, <1>2, <1>5, AnswersAre
<1>8. \A v \in Party, x \in MentorTabs : TaskOK(v, task[v][x])'
  <2>1. TaskOK("mentor", task["mentor"][t])'
    BY <1>2, <1>3, <1>5, <1>6 DEF TaskOK, BookingAnswer, Party
  <2>2. QED BY <1>0, <1>1, <1>3, <1>7, <2>1, TasksStayOK
<1>9. ASSUME NEW c \in Bookings PROVE BookingOK(c)'
  <2>0. BookingOK(c) /\ Undecided(c) \in SUBSET MentorTabs /\ Answers(c) \in Nat
    BY <1>0, AnswersAre DEF MentoringInv, Undecided
  <2>1. Undecided(c)' = Undecided(c) \ {t}
    BY <1>0, <1>1, <1>3, UndecidedMoves
  <2>2. CASE c = b
    <3>1. Answers(c)' = Answers(c) + 1
      BY <1>0, <1>2, <1>5, <2>2, AnswersAre DEF Answers, BookingAnswer
    <3>2. Cardinality(Undecided(c)') = Cardinality(Undecided(c)) - 1
          /\ Cardinality(Undecided(c)) \in Nat
      BY <1>4, <2>0, <2>1, <2>2, SomeMentorTabs
    <3>3. Answers(c)' + Cardinality(Undecided(c)') <= Cardinality(MentorTabs)
      BY <2>0, <3>1, <3>2, SomeMentorTabs DEF BookingOK
    <3>4. booking'[c] = w /\ answered'[c][w] > 0
      BY <1>0, <1>1, <1>5, <2>2 DEF MentoringTypeOK
    <3>5. QED BY <1>2, <3>3, <3>4 DEF BookingOK
  <2>3. CASE c # b
    <3>1. booking'[c] = booking[c] /\ Answers(c)' = Answers(c) /\ answered'[c] = answered[c]
      BY <1>0, <1>1, <1>5, <2>3 DEF MentoringTypeOK, Answers
    <3>2. Cardinality(Undecided(c)') <= Cardinality(Undecided(c))
          /\ Cardinality(Undecided(c)) \in Nat /\ Cardinality(Undecided(c)') \in Nat
      BY <2>0, <2>1, SomeMentorTabs
    <3>3. Answers(c) + Cardinality(Undecided(c)') <= Cardinality(MentorTabs)
      BY <2>0, <3>2, SomeMentorTabs DEF BookingOK
    <3>4. QED BY <2>0, <3>1, <3>3 DEF BookingOK
  <2>4. QED BY <2>2, <2>3
<1>10. ASSUME NEW c \in Bookings PROVE RestsOnConsent(c)'
  <2>1. RestsOnConsent(c) /\ "ACCEPTED" \in BookingAnswer
    BY DEF MentoringInv, BookingAnswer
  <2>2. QED BY <1>1, <1>7, <2>1 DEF RestsOnConsent
<1>11. QED BY <1>6, <1>8, <1>9, <1>10 DEF MentoringInv

LEMMA ReviewStep ==
  ASSUME MentoringInv, NEW u \in Party, NEW t \in MentorTabs, Review(u, t)
  PROVE  MentoringInv'
<1> DEFINE b == task[u][t].on
           q == [task[u][t] EXCEPT !.at = "lookup"]
<1>0. MentoringTypeOK /\ TaskOK(u, task[u][t]) /\ task[u][t].at = "review"
  BY DEF MentoringInv, Review, IsAt
<1>1. /\ task[u][t] \in Under /\ b \in Bookings /\ task[u][t].what = u
      /\ answered[b]["ACCEPTED"] > 0
  BY <1>0, TasksAre DEF TaskOK, Under
<1>2. q \in Under /\ q.at = "lookup" /\ q.on = b /\ q.what = u
  BY <1>1 DEF Under
<1>3. UNCHANGED <<booking, answered, told>>
  BY DEF Review
<1>4. CASE u \in reviews[b]
  <2>1. Task(u, t, Free) /\ reviews' = reviews /\ Free.at = "free"
    BY <1>4 DEF Review, Free
  <2>2. task'[u][t] = Free
    BY <1>0, <2>1, TaskMoves
  <2>3. TaskOK(u, task[u][t])'
    BY <2>1, <2>2 DEF TaskOK
  <2>4. QED BY <1>3, <2>1, <2>3, OnlyTaskMoves
<1>5. CASE u \notin reviews[b]
  <2>1. Task(u, t, q) /\ reviews' = [reviews EXCEPT ![b] = @ \union {u}]
    BY <1>5 DEF Review, Move
  <2> HIDE DEF b, q
  <2>2. /\ reviews' \in [Bookings -> SUBSET Party] /\ reviews'[b] = reviews[b] \union {u}
        /\ \A c \in Bookings \ {b} : reviews'[c] = reviews[c]
    BY <1>0, <1>1, <2>1 DEF MentoringTypeOK
  <2>3. task'[u][t] = q /\ MentoringTypeOK'
    BY <1>0, <1>2, <1>3, <2>1, <2>2, TaskMoves DEF MentoringTypeOK
  <2>4. \A v \in Party, x \in MentorTabs : TaskOK(v, task[v][x])'
    <3>1. TaskOK(u, task[u][t])'
      BY <1>2, <2>2, <2>3 DEF TaskOK, BookingAnswer, Party
    <3>2. \A c \in Bookings : reviews[c] \subseteq reviews'[c]
      BY <2>2
    <3>3. QED BY <1>2, <1>3, <2>1, <3>1, <3>2, TasksStayOK
  <2>5. ASSUME NEW c \in Bookings PROVE BookingOK(c)'
    <3>1. BookingOK(c) /\ Answers(c)' = Answers(c) /\ Answers(c) \in Nat
          /\ Undecided(c) \in SUBSET MentorTabs
      BY <1>0, <1>3, AnswersAre DEF MentoringInv, Answers, Undecided
    <3>2. Undecided(c)' = Undecided(c) \/ Undecided(c)' = Undecided(c) \ {t}
      BY <1>0, <1>2, <2>1, UndecidedMoves
    <3>3. Cardinality(Undecided(c)') <= Cardinality(Undecided(c))
          /\ Cardinality(Undecided(c)) \in Nat /\ Cardinality(Undecided(c)') \in Nat
      BY <3>1, <3>2, SomeMentorTabs
    <3>4. Answers(c) + Cardinality(Undecided(c)') <= Cardinality(MentorTabs)
      BY <3>1, <3>3, SomeMentorTabs DEF BookingOK
    <3>5. QED BY <1>3, <3>1, <3>4 DEF BookingOK, Answers
  <2>6. \A c \in Bookings : RestsOnConsent(c)'
    BY <1>1, <1>3, <2>2 DEF MentoringInv, RestsOnConsent
  <2>7. QED BY <2>3, <2>4, <2>5, <2>6 DEF MentoringInv
<1>6. QED BY <1>4, <1>5

LEMMA AnnounceStep ==
  ASSUME MentoringInv, NEW u \in Party, NEW t \in MentorTabs, Announce(u, t)
  PROVE  MentoringInv'
<1> DEFINE b == task[u][t].on
           w == task[u][t].what
<1>0. MentoringTypeOK /\ TaskOK(u, task[u][t]) /\ task[u][t].at = "lookup"
  BY DEF MentoringInv, Announce, IsAt
<1>1. b \in Bookings /\ w \in BookingAnswer \union Party \union {"requested"}
  BY <1>0, TasksAre DEF Under
<1>2. /\ w \in BookingAnswer => answered[b][w] > 0
      /\ w \in Party => w \in reviews[b]
  BY <1>0 DEF TaskOK
<1>3. /\ told' = [told EXCEPT ![b] = @ \union {w}] /\ Task(u, t, Free)
      /\ UNCHANGED <<booking, reviews, answered>> /\ Free.at = "free"
  BY DEF Announce, rowVars, Free
<1> HIDE DEF b, w
<1>4. /\ told' \in [Bookings -> SUBSET (BookingAnswer \union Party \union {"requested"})]
      /\ told'[b] = told[b] \union {w} /\ \A c \in Bookings \ {b} : told'[c] = told[c]
  BY <1>0, <1>1, <1>3 DEF MentoringTypeOK
<1>5. task'[u][t] = Free /\ MentoringTypeOK'
  BY <1>0, <1>3, <1>4, TaskMoves DEF MentoringTypeOK
<1>6. \A v \in Party, x \in MentorTabs : TaskOK(v, task[v][x])'
  <2>1. TaskOK(u, task[u][t])'
    BY <1>3, <1>5 DEF TaskOK
  <2>2. QED BY <1>3, <2>1, TasksStayOK
<1>7. ASSUME NEW c \in Bookings PROVE BookingOK(c)'
  <2>1. BookingOK(c) /\ Answers(c)' = Answers(c) /\ Answers(c) \in Nat
        /\ Undecided(c) \in SUBSET MentorTabs
    BY <1>0, <1>3, AnswersAre DEF MentoringInv, Answers, Undecided
  <2>2. Undecided(c)' = Undecided(c) \/ Undecided(c)' = Undecided(c) \ {t}
    BY <1>0, <1>3, UndecidedMoves
  <2>3. Cardinality(Undecided(c)') <= Cardinality(Undecided(c))
        /\ Cardinality(Undecided(c)) \in Nat /\ Cardinality(Undecided(c)') \in Nat
    BY <2>1, <2>2, SomeMentorTabs
  <2>4. Answers(c) + Cardinality(Undecided(c)') <= Cardinality(MentorTabs)
    BY <2>1, <2>3, SomeMentorTabs DEF BookingOK
  <2>5. QED BY <1>3, <2>1, <2>4 DEF BookingOK, Answers
<1>8. ASSUME NEW c \in Bookings PROVE RestsOnConsent(c)'
  <2>1. RestsOnConsent(c)
    BY DEF MentoringInv
  <2>2. CASE c = b
    BY <1>2, <1>3, <1>4, <2>1, <2>2 DEF RestsOnConsent
  <2>3. CASE c # b
    BY <1>3, <1>4, <2>1, <2>3 DEF RestsOnConsent
  <2>4. QED BY <2>2, <2>3
<1>9. QED BY <1>5, <1>6, <1>7, <1>8 DEF MentoringInv

LEMMA MentoringInvNext == MentoringInv /\ [MentoringNext]_mentoringVars => MentoringInv'
<1> SUFFICES ASSUME MentoringInv, [MentoringNext]_mentoringVars PROVE MentoringInv'
  OBVIOUS
<1>1. ASSUME NEW t \in MentorTabs, NEW b \in Bookings, Book(t, b)
      PROVE  MentoringInv'
  BY <1>1, BookStep
<1>2. ASSUME NEW t \in MentorTabs, NEW b \in Bookings,
             (\E w \in BookingAnswer : CheckAnswer(t, b, w)) \/ \E u \in Party : CheckReview(u, t, b)
      PROVE  MentoringInv'
  BY <1>2, CheckStep DEF Party
<1>3. ASSUME NEW t \in MentorTabs, AnswerBooking(t) PROVE MentoringInv'
  BY <1>3, AnswerBookingStep
<1>4. ASSUME NEW t \in MentorTabs, NEW u \in Party, Review(u, t) \/ Announce(u, t)
      PROVE  MentoringInv'
  BY <1>4, ReviewStep, AnnounceStep
<1>5. ASSUME NEW t \in MentorTabs, NEW u \in Party, Cut(u, t) PROVE MentoringInv'
  <2>0. MentoringTypeOK
    BY DEF MentoringInv
  <2>1. Task(u, t, Free) /\ UNCHANGED <<booking, reviews, answered, told>> /\ Free.at = "free"
    BY <1>5 DEF Cut, rowVars, Free
  <2>2. task'[u][t] = Free
    BY <2>0, <2>1, TaskMoves
  <2>3. TaskOK(u, task[u][t])'
    BY <2>1, <2>2 DEF TaskOK
  <2>4. QED BY <2>1, <2>3, OnlyTaskMoves
<1>6. CASE UNCHANGED mentoringVars
  <2>1. UNCHANGED <<booking, reviews, told, answered, task>>
    BY <1>6 DEF mentoringVars
  <2>2. MentoringTypeOK' /\ \A u \in Party, t \in MentorTabs : TaskOK(u, task[u][t])'
    BY <2>1 DEF MentoringInv, MentoringTypeOK, TaskOK
  <2>3. \A b \in Bookings : BookingOK(b)' /\ RestsOnConsent(b)'
    BY <2>1 DEF MentoringInv, BookingOK, Answers, Undecided, IsAt, RestsOnConsent
  <2>4. QED BY <2>2, <2>3 DEF MentoringInv
<1>7. QED BY <1>1, <1>2, <1>3, <1>4, <1>5, <1>6 DEF MentoringNext

LEMMA MentoringInvariant == MentoringSpec => []MentoringInv
<1>1. MentoringInit => MentoringInv
  <2> SUFFICES ASSUME MentoringInit PROVE MentoringInv
    OBVIOUS
  <2> USE DEF MentoringInit
  <2>1. MentoringTypeOK
    BY DEF MentoringTypeOK
  <2>2. \A u \in Party, t \in MentorTabs : task[u][t].at = "free"
    BY DEF Free
  <2>3. ASSUME NEW b \in Bookings
        PROVE  BookingOK(b) /\ RestsOnConsent(b)
    <3>1. Undecided(b) = {} /\ Cardinality({}) = 0 /\ {} \in SUBSET MentorTabs
      BY <2>2, FS_EmptySet DEF Undecided, IsAt, Party
    <3>2. Answers(b) = 0
      BY DEF Answers, BookingAnswer
    <3>3. Answers(b) + Cardinality(Undecided(b)) <= Cardinality(MentorTabs)
      BY <3>1, <3>2, SomeMentorTabs
    <3>4. booking[b] = "none" /\ reviews[b] = {} /\ told[b] = {}
      OBVIOUS
    <3>5. QED BY <3>2, <3>3, <3>4 DEF BookingOK, BookingAnswer, RestsOnConsent
  <2>4. QED BY <2>1, <2>2, <2>3 DEF MentoringInv, TaskOK
<1>2. QED BY <1>1, MentoringInvNext, PTL DEF MentoringSpec

(* An answered booking stays answered once the requests that read it as
   PENDING have ended; no more answers are written than the mentor had tabs;
   reviews and news rest on what was written. *)
THEOREM BookingsStay == MentoringSpec => BookingsStayAnswered
<1>1. ASSUME MentoringInv, MentoringNext, NEW b \in Bookings,
             booking[b] \in BookingAnswer, Undecided(b) = {}
      PROVE  booking'[b] = booking[b] /\ Undecided(b)' = {}
  <2>0. MentoringTypeOK /\ booking[b] \notin {"none", "PENDING"}
    BY <1>1 DEF MentoringInv, BookingAnswer
  <2>1. ASSUME NEW t \in MentorTabs, NEW c \in Bookings, Book(t, c)
        PROVE  booking'[b] = booking[b] /\ Undecided(b)' = {}
    <3>1. booking'[b] = booking[b]
      BY <2>0, <2>1 DEF Book, MentoringTypeOK
    <3>2. \A x \in MentorTabs : task'["mentor"][x] = task["mentor"][x]
      BY <2>0, <2>1 DEF Book, Enter, Task, MentoringTypeOK, Party
    <3>3. QED BY <1>1, <3>1, <3>2 DEF Undecided, IsAt
  <2>2. ASSUME NEW t \in MentorTabs, NEW c \in Bookings, NEW w \in BookingAnswer, CheckAnswer(t, c, w)
        PROVE  booking'[b] = booking[b] /\ Undecided(b)' = {}
    <3>1. booking' = booking /\ c # b
      BY <2>0, <2>2 DEF CheckAnswer, MayAnswer, rowVars
    <3>2. \A x \in MentorTabs : task'["mentor"][x] = task["mentor"][x] \/ task'["mentor"][x].on = c
      BY <2>0, <2>2 DEF CheckAnswer, Enter, Task, MentoringTypeOK, Party
    <3>3. QED BY <1>1, <3>1, <3>2 DEF Undecided, IsAt
  <2>3. ASSUME NEW t \in MentorTabs, AnswerBooking(t)
        PROVE  booking'[b] = booking[b] /\ Undecided(b)' = {}
    <3>1. task["mentor"][t].on # b /\ task["mentor"][t] \in Under
      BY <1>1, <2>0, <2>3, TasksAre DEF AnswerBooking, Undecided, IsAt, Party
    <3>2. booking'[b] = booking[b]
      BY <2>0, <2>3, <3>1 DEF AnswerBooking, MentoringTypeOK
    <3>3. \A x \in MentorTabs :
            task'["mentor"][x] = task["mentor"][x] \/ task'["mentor"][x].at = "lookup"
      BY <2>0, <2>3, <3>1 DEF AnswerBooking, Move, Task, MentoringTypeOK, Party, Under
    <3>4. QED BY <1>1, <3>2, <3>3 DEF Undecided, IsAt
  <2>4. ASSUME NEW t \in MentorTabs, NEW u \in Party, NEW c \in Bookings, CheckReview(u, t, c)
        PROVE  booking'[b] = booking[b] /\ Undecided(b)' = {}
    <3>1. booking' = booking
      BY <2>4 DEF CheckReview, rowVars
    <3>2. \A x \in MentorTabs :
            task'["mentor"][x] = task["mentor"][x] \/ task'["mentor"][x].at = "review"
      BY <2>0, <2>4 DEF CheckReview, Enter, Task, MentoringTypeOK, Party
    <3>3. QED BY <1>1, <3>1, <3>2 DEF Undecided, IsAt
  <2>5. ASSUME NEW t \in MentorTabs, NEW u \in Party, Review(u, t) \/ Announce(u, t) \/ Cut(u, t)
        PROVE  booking'[b] = booking[b] /\ Undecided(b)' = {}
    <3>1. booking' = booking /\ task[u][t].at # "free"
      BY <2>5 DEF Review, Announce, Cut, rowVars, IsAt
    <3>2. task[u][t] \in Under
      BY <2>0, <3>1, TasksAre
    <3>3. \E q : q.at \in {"lookup", "free"} /\ Task(u, t, q)
      BY <2>5, <3>2 DEF Review, Announce, Cut, Move, Free, Under
    <3>4. \A x \in MentorTabs :
            task'["mentor"][x] = task["mentor"][x] \/ task'["mentor"][x].at \in {"lookup", "free"}
      BY <2>0, <3>3 DEF Task, MentoringTypeOK, Party
    <3>5. QED BY <1>1, <3>1, <3>4 DEF Undecided, IsAt
  <2>6. QED BY <1>1, <2>1, <2>2, <2>3, <2>4, <2>5 DEF MentoringNext
<1>2. ASSUME MentoringInv, MentoringInv', NEW b \in Bookings
      PROVE  /\ RestsOnConsent(b)
             /\ answered'[b]["ACCEPTED"] + answered'[b]["DECLINED"] <= Cardinality(MentorTabs)
  <2>1. /\ Answers(b)' \in Nat /\ Answers(b)' + Cardinality(Undecided(b)') <= Cardinality(MentorTabs)
        /\ Undecided(b)' \in SUBSET MentorTabs
    <3>1. MentoringTypeOK' /\ BookingOK(b)'
      BY <1>2 DEF MentoringInv
    <3>2. Answers(b)' \in Nat
      BY <3>1 DEF Answers, MentoringTypeOK, BookingAnswer
    <3>3. QED BY <3>1, <3>2 DEF BookingOK, Undecided
  <2>2. Cardinality(Undecided(b)') \in Nat /\ Cardinality(MentorTabs) \in Nat
    BY <2>1, SomeMentorTabs
  <2>3. Answers(b)' <= Cardinality(MentorTabs)
    BY <2>1, <2>2
  <2>4. QED BY <1>2, <2>3 DEF MentoringInv, Answers
<1>3. MentoringInv /\ MentoringInv' /\ [MentoringNext]_mentoringVars
        => [\A b \in Bookings :
              /\ RestsOnConsent(b)
              /\ booking[b] \in BookingAnswer /\ Undecided(b) = {}
                    => booking'[b] = booking[b] /\ Undecided(b)' = {}
              /\ answered'[b]["ACCEPTED"] + answered'[b]["DECLINED"]
                    <= Cardinality(MentorTabs)]_mentoringVars
  BY <1>1, <1>2
<1>4. QED BY <1>3, MentoringInvariant, PTL DEF MentoringSpec, BookingsStayAnswered

------------------------------------------------------------------------------
(* Hiring. *)

(* Who has an application, or is at inserting one, saw the job open; nobody
   hears of what is not there, and a request that is past its insert has a row
   to speak of. *)
HiringInv ==
    /\ HiringTypeOK
    /\ \A a \in Applicants :
         /\ application[a] # "none" => a \in wasOpen
         /\ heard[a] # {} => application[a] # "none"
         /\ \A t \in HiringTabs :
              /\ applying[a][t] = "insert" => a \in wasOpen
              /\ applying[a][t] = "lookup" => application[a] # "none"

LEMMA HiringGoes ==
  ASSUME HiringTypeOK, NEW a \in Applicants, NEW t \in HiringTabs,
         NEW from \in {"free", "insert", "lookup"}, NEW to \in {"free", "insert", "lookup"},
         Goes(a, t, from, to)
  PROVE  /\ applying' \in [Applicants -> [HiringTabs -> {"free", "insert", "lookup"}]]
         /\ applying[a][t] = from /\ applying'[a][t] = to
         /\ \A b \in Applicants, u \in HiringTabs :
              b # a \/ u # t => applying'[b][u] = applying[b][u]
  BY DEF Goes, HiringTypeOK

LEMMA HiringInvNext == HiringInv /\ [HiringNext]_hiringVars => HiringInv'
<1> SUFFICES ASSUME HiringInv, [HiringNext]_hiringVars PROVE HiringInv'
  OBVIOUS
<1> USE DEF HiringInv
<1>1. CASE CreateJob \/ CloseJob
  BY <1>1 DEF CreateJob, CloseJob, HiringTypeOK
<1>2. ASSUME NEW a \in Applicants, NEW v \in Verdict, RespondToApplication(a, v)
      PROVE  HiringInv'
  BY <1>2 DEF RespondToApplication, HiringTypeOK, Verdict
<1>3. ASSUME NEW a \in Applicants, NEW t \in HiringTabs, CheckApply(a, t)
      PROVE  HiringInv'
  BY <1>3, HiringGoes DEF CheckApply, Accepting, HiringTypeOK
<1>4. ASSUME NEW a \in Applicants, NEW t \in HiringTabs, Apply(a, t)
      PROVE  HiringInv'
  BY <1>4, HiringGoes DEF Apply, HiringTypeOK
<1>5. ASSUME NEW a \in Applicants, NEW t \in HiringTabs, TellFounder(a, t)
      PROVE  HiringInv'
  BY <1>5, HiringGoes DEF TellFounder, HiringTypeOK
<1>6. ASSUME NEW a \in Applicants, NEW t \in HiringTabs, ApplyFails(a, t)
      PROVE  HiringInv'
  BY <1>6, HiringGoes DEF ApplyFails, HiringTypeOK
<1>7. CASE UNCHANGED hiringVars
  BY <1>7 DEF hiringVars, HiringTypeOK
<1>8. QED BY <1>1, <1>2, <1>3, <1>4, <1>5, <1>6, <1>7 DEF HiringNext

LEMMA HiringInvariant == HiringSpec => []HiringInv
<1>1. HiringInit => HiringInv
  BY DEF HiringInit, HiringInv, HiringTypeOK
<1>2. QED BY <1>1, HiringInvNext, PTL DEF HiringSpec

(* A closed job takes nobody but those who were at it, whoever applied saw it
   open, and nobody hears of what is not on record. *)
THEOREM ClosedTakesNoOne == HiringSpec => ClosedJobsTakeNoOne
<1>1. ASSUME HiringInv, HiringNext, NEW a \in Applicants, job = "CLOSED", Inserting(a) = {}
      PROVE  (application'[a] = "none" <=> application[a] = "none") /\ Inserting(a)' = {}
  <2>0. HiringTypeOK /\ \A t \in HiringTabs : applying[a][t] # "insert"
    BY <1>1 DEF HiringInv, Inserting
  <2>1. CASE CreateJob \/ CloseJob
    BY <1>1, <2>1 DEF CreateJob, CloseJob, Inserting
  <2>2. ASSUME NEW b \in Applicants, NEW v \in Verdict, RespondToApplication(b, v)
        PROVE  (application'[a] = "none" <=> application[a] = "none") /\ Inserting(a)' = {}
    BY <1>1, <2>0, <2>2 DEF RespondToApplication, HiringTypeOK, Verdict, Inserting
  <2>3. ASSUME NEW b \in Applicants, NEW t \in HiringTabs, CheckApply(b, t)
        PROVE  FALSE
    BY <1>1, <2>3 DEF CheckApply, Accepting
  <2>4. ASSUME NEW b \in Applicants, NEW t \in HiringTabs, Apply(b, t)
        PROVE  (application'[a] = "none" <=> application[a] = "none") /\ Inserting(a)' = {}
    <3>1. b # a /\ application'[a] = application[a]
      BY <2>0, <2>4, HiringGoes DEF Apply, HiringTypeOK
    <3>2. QED BY <2>0, <2>4, <3>1, HiringGoes DEF Apply, Inserting
  <2>5. ASSUME NEW b \in Applicants, NEW t \in HiringTabs, TellFounder(b, t) \/ ApplyFails(b, t)
        PROVE  (application'[a] = "none" <=> application[a] = "none") /\ Inserting(a)' = {}
    <3>1. application' = application
          /\ \E at \in {"insert", "lookup"} : Goes(b, t, at, "free")
      BY <2>5 DEF TellFounder, ApplyFails
    <3>2. QED BY <2>0, <3>1, HiringGoes DEF Inserting
  <2>6. QED BY <1>1, <2>1, <2>2, <2>3, <2>4, <2>5 DEF HiringNext
<1>2. HiringInv /\ HiringInv' /\ [HiringNext]_hiringVars
        => [\A a \in Applicants :
              /\ job = "CLOSED" /\ Inserting(a) = {}
                    => (application'[a] = "none" <=> application[a] = "none")
                       /\ Inserting(a)' = {}
              /\ application'[a] # "none" => a \in wasOpen'
              /\ heard'[a] # {} => application'[a] # "none"]_hiringVars
  BY <1>1 DEF HiringInv
<1>3. QED BY <1>2, HiringInvariant, PTL DEF HiringSpec, ClosedJobsTakeNoOne

------------------------------------------------------------------------------
(* Polls. *)

(* Votes cast and to be cast are no more than the requests of the member. *)
PollsInv ==
    /\ PollsTypeOK
    /\ \A m \in Members :
         /\ IsFiniteSet(ballots[m])
         /\ Cardinality(ballots[m]) + Cardinality(Casting(m)) <= Cardinality(MemberTabs)

LEMMA SomeMemberTabs ==
  ASSUME NEW A \in SUBSET MemberTabs
  PROVE  /\ Cardinality(A) \in Nat /\ Cardinality(MemberTabs) \in Nat
         /\ Cardinality(A) <= Cardinality(MemberTabs)
         /\ \A t \in A : Cardinality(A \ {t}) = Cardinality(A) - 1
         /\ \A t \in MemberTabs : Cardinality(A \ {t}) <= Cardinality(A) /\ Cardinality(A \ {t}) \in Nat
<1>1. IsFiniteSet(MemberTabs) /\ IsFiniteSet(A)
  BY PollsAssumption, FS_Subset
<1>2. \A t \in MemberTabs : Cardinality(A \ {t}) <= Cardinality(A) /\ Cardinality(A \ {t}) \in Nat
  BY <1>1, FS_Subset, FS_CardinalityType
<1>3. QED BY <1>1, <1>2, FS_Subset, FS_CardinalityType, FS_RemoveElement

LEMMA VotesAre == \A o \in Options : <<"check", o>> \in AtVote /\ <<"cast", o>> \in AtVote
                                     /\ Rests \in AtVote
  BY DEF AtVote

(* A request of one member goes on. *)
LEMMA VoteMoves ==
  ASSUME PollsTypeOK, NEW m \in Members, NEW t \in MemberTabs, NEW from \in AtVote, NEW to \in AtVote,
         MovesOn(m, t, from, to)
  PROVE  /\ voting' \in [Members -> [MemberTabs -> AtVote]]
         /\ \A n \in Members \ {m} : Casting(n)' = Casting(n)
         /\ Casting(m)' = IF to[1] = "cast" THEN Casting(m) \union {t} ELSE Casting(m) \ {t}
         /\ t \in Casting(m) <=> from[1] = "cast"
<1>1. /\ voting' \in [Members -> [MemberTabs -> AtVote]]
      /\ voting[m][t] = from /\ voting'[m][t] = to
      /\ \A n \in Members, u \in MemberTabs : n # m \/ u # t => voting'[n][u] = voting[n][u]
  BY DEF MovesOn, PollsTypeOK
<1>2. QED BY <1>1 DEF Casting

LEMMA PollsInvNext == PollsInv /\ [PollsNext]_pollVars => PollsInv'
<1> SUFFICES ASSUME PollsInv, [PollsNext]_pollVars PROVE PollsInv'
  OBVIOUS
<1>0. /\ PollsTypeOK
      /\ \A m \in Members : /\ IsFiniteSet(ballots[m]) /\ Cardinality(ballots[m]) \in Nat
                            /\ Cardinality(ballots[m]) + Cardinality(Casting(m)) <= Cardinality(MemberTabs)
                            /\ Casting(m) \in SUBSET MemberTabs /\ Casting(m)' \in SUBSET MemberTabs
  BY FS_CardinalityType DEF PollsInv, Casting
<1>1. IsFiniteSet({}) /\ Cardinality({}) = 0
  BY FS_EmptySet
<1>2. CASE RemovePoll
  <2>1. PollsTypeOK' /\ \A m \in Members : ballots'[m] = {} /\ Casting(m)' = Casting(m)
    BY <1>0, <1>2 DEF RemovePoll, PollsTypeOK, Casting
  <2>2. ASSUME NEW m \in Members
        PROVE  Cardinality(ballots'[m]) + Cardinality(Casting(m)') <= Cardinality(MemberTabs)
    <3>1. Cardinality(Casting(m)) \in Nat /\ Cardinality(Casting(m)) <= Cardinality(MemberTabs)
      BY <1>0, SomeMemberTabs
    <3>2. QED BY <1>1, <2>1, <3>1
  <2>3. QED BY <1>1, <2>1, <2>2 DEF PollsInv
<1>3. ASSUME NEW m \in Members, NEW t \in MemberTabs, NEW o \in Options,
             FindOption(m, t, o) \/ VoteFails(m, t, o)
      PROVE  PollsInv'
  <2>1. /\ UNCHANGED ballots /\ poll' = poll
        /\ \E from, to \in AtVote : MovesOn(m, t, from, to) /\ to[1] # "cast"
    BY <1>3, VotesAre DEF FindOption, VoteFails, Rests
  <2>2. /\ PollsTypeOK' /\ \A n \in Members : n = m \/ Casting(n)' = Casting(n)
        /\ Casting(m)' = Casting(m) \ {t}
    BY <1>0, <2>1, VoteMoves DEF PollsTypeOK
  <2>3. ASSUME NEW n \in Members
        PROVE  Cardinality(ballots[n]) + Cardinality(Casting(n)') <= Cardinality(MemberTabs)
    <3>1. /\ Cardinality(ballots[n]) \in Nat /\ Cardinality(MemberTabs) \in Nat
          /\ Cardinality(ballots[n]) + Cardinality(Casting(n)) <= Cardinality(MemberTabs)
          /\ Casting(n) \in SUBSET MemberTabs
      BY <1>0, SomeMemberTabs
    <3>2. Casting(n)' = Casting(n) \/ Casting(n)' = Casting(n) \ {t}
      BY <2>2
    <3>3. /\ Cardinality(Casting(n)) \in Nat /\ Cardinality(Casting(n)') \in Nat
          /\ Cardinality(Casting(n)') <= Cardinality(Casting(n))
      BY <3>1, <3>2, SomeMemberTabs
    <3>4. QED BY <3>1, <3>3
  <2>4. QED BY <1>0, <2>1, <2>2, <2>3 DEF PollsInv
<1>4. ASSUME NEW m \in Members, NEW t \in MemberTabs, NEW o \in Options, CheckVoted(m, t, o)
      PROVE  PollsInv'
  <2>1. /\ UNCHANGED <<ballots, poll>> /\ ballots[m] = {}
        /\ MovesOn(m, t, <<"check", o>>, <<"cast", o>>)
    BY <1>4 DEF CheckVoted, NotVoted
  <2>2. PollsTypeOK' /\ \A n \in Members \ {m} : Casting(n)' = Casting(n)
    BY <1>0, <2>1, VotesAre, VoteMoves DEF PollsTypeOK
  <2>3. ASSUME NEW n \in Members
        PROVE  Cardinality(ballots[n]) + Cardinality(Casting(n)') <= Cardinality(MemberTabs)
    <3>1. CASE n = m
      <4>1. Cardinality(ballots[n]) = 0
        BY <1>1, <2>1, <3>1
      <4>2. Casting(n)' \in SUBSET MemberTabs
        BY <1>0
      <4>3. /\ Cardinality(Casting(n)') \in Nat /\ Cardinality(MemberTabs) \in Nat
            /\ Cardinality(Casting(n)') <= Cardinality(MemberTabs)
        BY <4>2, SomeMemberTabs
      <4>4. QED BY <4>1, <4>3
    <3>2. CASE n # m
      <4>1. Casting(n)' = Casting(n)
        BY <2>2, <3>2
      <4>2. QED BY <1>0, <4>1
    <3>3. QED BY <3>1, <3>2
  <2>4. QED BY <1>0, <2>1, <2>2, <2>3 DEF PollsInv
<1>5. ASSUME NEW m \in Members, NEW t \in MemberTabs, NEW o \in Options, CastVote(m, t, o)
      PROVE  PollsInv'
  <2>1. /\ poll' = poll /\ o \notin ballots[m] /\ ballots' = [ballots EXCEPT ![m] = @ \union {o}]
        /\ MovesOn(m, t, <<"cast", o>>, Rests)
    BY <1>5 DEF CastVote
  <2>2. /\ \A n \in Members \ {m} : Casting(n)' = Casting(n) /\ ballots'[n] = ballots[n]
        /\ voting' \in [Members -> [MemberTabs -> AtVote]]
        /\ Casting(m)' = Casting(m) \ {t} /\ t \in Casting(m)
        /\ ballots'[m] = ballots[m] \union {o}
    <3>1. Rests[1] # "cast" /\ <<"cast", o>>[1] = "cast"
      BY DEF Rests
    <3>2. QED BY <1>0, <2>1, <3>1, VotesAre, VoteMoves DEF PollsTypeOK
  <2>3. PollsTypeOK'
    BY <1>0, <2>1, <2>2 DEF PollsTypeOK
  <2>4. IsFiniteSet(ballots'[m]) /\ Cardinality(ballots'[m]) = Cardinality(ballots[m]) + 1
    <3>1. IsFiniteSet(ballots[m]) /\ o \notin ballots[m]
      BY <1>0, <2>1
    <3>2. QED BY <2>2, <3>1, FS_AddElement
  <2>5. Cardinality(Casting(m)') = Cardinality(Casting(m)) - 1
    BY <1>0, <2>2, SomeMemberTabs
  <2>6. Cardinality(ballots'[m]) + Cardinality(Casting(m)') <= Cardinality(MemberTabs)
    BY <1>0, <2>4, <2>5, SomeMemberTabs
  <2>7. QED BY <1>0, <2>2, <2>3, <2>4, <2>6 DEF PollsInv
<1>6. CASE UNCHANGED pollVars
  BY <1>0, <1>6 DEF pollVars, PollsInv, PollsTypeOK, Casting
<1>7. QED BY <1>2, <1>3, <1>4, <1>5, <1>6 DEF PollsNext

LEMMA PollsInvariant == PollsSpec => []PollsInv
<1>1. PollsInit => PollsInv
  <2> SUFFICES ASSUME PollsInit PROVE PollsInv
    OBVIOUS
  <2>1. PollsTypeOK
    BY DEF PollsInit, PollsTypeOK, AtVote
  <2>2. \A m \in Members : ballots[m] = {} /\ Casting(m) = {}
    BY DEF PollsInit, Casting, Rests
  <2>3. {} \in SUBSET MemberTabs /\ IsFiniteSet({}) /\ Cardinality({}) = 0
    BY FS_EmptySet
  <2>4. Cardinality(MemberTabs) >= 0
    BY <2>3, SomeMemberTabs
  <2>5. QED BY <2>1, <2>2, <2>3, <2>4 DEF PollsInv
<1>2. QED BY <1>1, PollsInvNext, PTL DEF PollsSpec

(* Who has voted in a poll gets no further vote but from a request that was
   past its check by then, and never more votes than requests. *)
THEOREM VotesStay == PollsSpec => VotesStayCast
<1>1. ASSUME PollsInv, PollsNext, NEW m \in Members, ballots[m] # {}, Casting(m) = {}
      PROVE  ballots'[m] \subseteq ballots[m]
  <2>1. ASSUME NEW n \in Members, NEW t \in MemberTabs, NEW o \in Options, CastVote(n, t, o)
        PROVE  ballots'[m] \subseteq ballots[m]
    <3>1. n # m
      BY <1>1, <2>1 DEF CastVote, MovesOn, Casting
    <3>2. QED BY <1>1, <2>1, <3>1 DEF CastVote, PollsInv, PollsTypeOK
  <2>2. QED BY <1>1, <2>1 DEF PollsNext, RemovePoll, FindOption, CheckVoted, VoteFails
<1>2. PollsInv /\ PollsInv' /\ [PollsNext]_pollVars
        => [\A m \in Members :
              /\ ballots[m] # {} /\ Casting(m) = {} => ballots'[m] \subseteq ballots[m]
              /\ Cardinality(ballots'[m]) + Cardinality(Casting(m)') <= Cardinality(MemberTabs)]_pollVars
  BY <1>1 DEF PollsInv
<1>3. QED BY <1>2, PollsInvariant, PTL DEF PollsSpec, VotesStayCast
------------------------------------------------------------------------------
(* The redirects of the browser window. *)

Dashboard(p) == p \in PROTECTED_PREFIXES

(* What is left of the two hops: the entry page may still send on twice; a
   dashboard or a sign-in page once, unless the middleware leaves the request
   as it is and, for a dashboard, the session is valid. *)
NavInv ==
    /\ NavTypeOK
    /\ hops <= 2
    /\ heading = "/onboarding" => hops = 0
    /\ AtRest /\ page = "/onboarding" => hops = 0
    /\ heading \in PROTECTED_PREFIXES \union AUTH_ROUTES =>
          hops <= 1 \/ (Middleware(heading) = heading /\ (Dashboard(heading) => session = "valid"))
    /\ AtRest /\ Dashboard(page) /\ session # "valid" => hops <= 1
    /\ AtRest /\ Dashboard(page) /\ settled => session = "valid"

(* Where a role is at home, the middleware lets it stay. *)
LEMMA HomeIs ==
  ASSUME role \in ROLES
  PROVE  /\ RoleHome \in PROTECTED_PREFIXES \union {"/mentors/bookings"}
         /\ RoleHome \in Page \ {"none", "/onboarding", "/login"}
         /\ RoleHome \in PROTECTED_PREFIXES => role \in PREFIX_ROLES(RoleHome)
BY DEF ROLES, RoleHome, Page, PROTECTED_PREFIXES, AUTH_ROUTES, PREFIX_ROLES

(* What the middleware answers with, it answers with again. *)
LEMMA MiddlewareIs ==
  ASSUME NEW to \in Page, role \in ROLES
  PROVE  /\ Middleware(to) \in Page
         /\ Middleware(to) # to =>
               /\ to \in PROTECTED_PREFIXES \union AUTH_ROUTES
               /\ Middleware(to) \in PROTECTED_PREFIXES \union {"/login", "/mentors/bookings"}
               /\ Middleware(Middleware(to)) = Middleware(to)
               /\ Dashboard(Middleware(to)) => session = "valid"
<1>1. "/login" \in Page /\ "/login" \in AUTH_ROUTES /\ "/login" \notin PROTECTED_PREFIXES
  BY DEF Page, AUTH_ROUTES, PROTECTED_PREFIXES
<1>2. CASE to \in PROTECTED_PREFIXES /\ ~ ReadSession /\ refresh = "none"
  <2>1. Middleware(to) = "/login" /\ Middleware("/login") = "/login"
    BY <1>1, <1>2 DEF Middleware
  <2>2. QED BY <1>1, <1>2, <2>1 DEF Dashboard
<1>3. CASE ReadSession /\ ((to \in PROTECTED_PREFIXES /\ role \notin PREFIX_ROLES(to)) \/ to \in AUTH_ROUTES)
  <2>1. Middleware(to) = RoleHome
    BY <1>3 DEF Middleware
  <2>2. RoleHome \notin AUTH_ROUTES /\ Middleware(RoleHome) = RoleHome
    BY <1>3, HomeIs DEF Middleware, AUTH_ROUTES, PROTECTED_PREFIXES
  <2>3. QED BY <1>3, <2>1, <2>2, HomeIs DEF ReadSession
<1>4. CASE ~ (to \in PROTECTED_PREFIXES /\ ~ ReadSession /\ refresh = "none")
           /\ ~ (ReadSession /\ ((to \in PROTECTED_PREFIXES /\ role \notin PREFIX_ROLES(to)) \/ to \in AUTH_ROUTES))
  BY <1>4 DEF Middleware
<1>5. QED BY <1>2, <1>3, <1>4

(* The user goes somewhere, and nothing was redirected yet. *)
LEMMA GoesFor ==
  ASSUME NEW to \in Page, GoFor(to), NavTypeOK'
  PROVE  NavInv'
<1>1. heading' = to /\ hops' = 0 /\ to # "none"
  BY DEF GoFor, Page, PROTECTED_PREFIXES, AUTH_ROUTES
<1>2. QED BY <1>1 DEF NavInv, AtRest

(* The variables keep their types. *)
LEMMA NavTyped == NavTypeOK /\ [NavNext]_navVars => NavTypeOK'
<1> SUFFICES ASSUME NavTypeOK, [NavNext]_navVars PROVE NavTypeOK'
  OBVIOUS
<1>1. /\ RoleHome \in Page
      /\ {"/login", "/register", "/verify-email", "/onboarding", "wizard", "/mentors/bookings", "/"} \subseteq Page
      /\ PROTECTED_PREFIXES \subseteq Page
  BY HomeIs DEF NavTypeOK, Page, AUTH_ROUTES
<1>2. ASSUME NEW to \in Page, Redirect(to) PROVE heading' \in Page /\ hops' \in 0..MaxHops + 1
  BY <1>2 DEF Redirect, NavTypeOK, MaxHops
<1>3. ASSUME NEW to \in Page, GoFor(to) PROVE heading' \in Page /\ hops' \in 0..MaxHops + 1
  BY <1>3 DEF GoFor, MaxHops
<1>4. CASE Arrive
  <2>1. heading \in Page
    BY <1>4 DEF Arrive, AtRest, NavTypeOK
  <2>2. Middleware(heading) \in Page
    BY <2>1, MiddlewareIs DEF NavTypeOK
  <2>3. CASE Middleware(heading) # heading
    BY <1>2, <1>4, <2>2, <2>3 DEF Arrive, NavTypeOK
  <2>4. CASE Middleware(heading) = heading
    BY <1>4, <2>1, <2>4 DEF Arrive, NavTypeOK
  <2>5. QED BY <2>3, <2>4
<1>5. CASE CallSucceeds
  BY <1>5 DEF CallSucceeds, NavTypeOK
<1>6. CASE Renew
  BY <1>6 DEF Renew, NavTypeOK
<1>7. CASE RenewalRefused \/ RenewalFails
  <2>1. /\ UNCHANGED <<role, account, page>> /\ SessionExpired
        /\ cooling' \in BOOLEAN \/ (Dashboard(page) /\ SessionExpired)
        /\ session' \in {"none", session} /\ refresh' \in {"none", refresh} /\ settled' = TRUE
    BY <1>7 DEF RenewalRefused, RenewalFails, Dashboard, NavTypeOK
  <2>2. CASE Dashboard(page)
    BY <1>1, <1>2, <2>1, <2>2 DEF SessionExpired, Reload, Dashboard, NavTypeOK
  <2>3. CASE ~ Dashboard(page)
    BY <2>1, <2>3 DEF SessionExpired, MeFailed, Dashboard, NavTypeOK
  <2>4. QED BY <2>2, <2>3
<1>8. CASE EnterOnboarding
  <2>1. \E to \in Page : Redirect(to)
    BY <1>1, <1>8, Zenon DEF EnterOnboarding
  <2>2. QED BY <1>2, <1>8, <2>1 DEF EnterOnboarding, NavTypeOK
<1>9. ASSUME NEW to \in Page, Browse(to) PROVE NavTypeOK'
  BY <1>3, <1>9 DEF Browse, Reload, NavTypeOK
<1>10. ASSUME NEW to \in Page, LoginSucceeds(to) PROVE NavTypeOK'
  BY <1>3, <1>10 DEF LoginSucceeds, SignIn, NavTypeOK
<1>11. CASE Register
  BY <1>1, <1>3, <1>11 DEF Register, SignIn, NavTypeOK
<1>12. CASE OAuth
  BY <1>1, <1>3, <1>12 DEF OAuth, Reload, NavTypeOK
<1>13. CASE Publish
  <2>1. \E to \in Page : GoFor(to)
    BY <1>1, <1>13 DEF Publish
  <2>2. QED BY <1>3, <1>13, <2>1 DEF Publish, NavTypeOK
<1>14. CASE LogoutSucceeds
  BY <1>1, <1>3, <1>14 DEF LogoutSucceeds, NavTypeOK
<1>15. CASE DeleteAccount \/ SessionLapses \/ RefreshDies \/ CooldownOver
  <2>1. hops' \in 0..MaxHops + 1
    BY <1>15 DEF DeleteAccount, SessionLapses, RefreshDies, CooldownOver, NavTypeOK, MaxHops
  <2>2. refresh' \in {"none", "live", "dead"} /\ session' \in {"none", "valid", "expired"}
    BY <1>15 DEF DeleteAccount, SessionLapses, RefreshDies, CooldownOver, NavTypeOK
  <2>3. settled' \in BOOLEAN /\ cooling' \in BOOLEAN /\ account' \in {"none", "started", "finished", "gone"}
    BY <1>15 DEF DeleteAccount, SessionLapses, RefreshDies, CooldownOver, NavTypeOK
  <2>4. UNCHANGED <<role, page, heading, me, status>>
    BY <1>15 DEF DeleteAccount, SessionLapses, RefreshDies, CooldownOver
  <2>5. QED BY <2>1, <2>2, <2>3, <2>4 DEF NavTypeOK
<1>16. CASE UNCHANGED navVars
  BY <1>16 DEF navVars, NavTypeOK
<1>17. QED
  BY <1>1, <1>4, <1>5, <1>6, <1>7, <1>8, <1>9, <1>10, <1>11, <1>12, <1>13, <1>14, <1>15, <1>16
  DEF NavNext

LEMMA NavInvNext == NavInv /\ [NavNext]_navVars => NavInv'
<1> SUFFICES ASSUME NavInv, [NavNext]_navVars PROVE NavInv'
  OBVIOUS
<1>1. NavTypeOK /\ NavTypeOK' /\ hops \in Nat
  BY NavTyped DEF NavInv, NavTypeOK
<1>2. ASSUME NEW to, Redirect(to) PROVE heading' = to /\ (hops <= 2 => hops' = hops + 1)
  BY <1>2, <1>1 DEF Redirect, MaxHops
<1>3. CASE Arrive
  <2>1. heading \in Page /\ role \in ROLES
    BY <1>1, <1>3 DEF Arrive, AtRest, NavTypeOK
  <2>2. UNCHANGED <<role, session, refresh>>
    BY <1>3 DEF Arrive
  <2>3. CASE Middleware(heading) # heading
    <3>1. /\ heading' = Middleware(heading) /\ hops' = hops + 1 /\ hops <= 1
      BY <1>2, <1>3, <2>1, <2>3, MiddlewareIs DEF Arrive, NavInv
    <3>2. /\ heading' \in PROTECTED_PREFIXES \union {"/login", "/mentors/bookings"}
          /\ Middleware(heading') = heading'
          /\ Dashboard(heading') => session = "valid"
      BY <2>1, <2>3, <3>1, MiddlewareIs
    <3>3. Middleware(heading)' = Middleware(heading')
      BY <2>2 DEF Middleware, ReadSession, RoleHome
    <3>4. ~ AtRest' /\ heading' # "/onboarding"
      BY <3>2 DEF AtRest, PROTECTED_PREFIXES
    <3>5. QED BY <1>1, <2>2, <3>1, <3>2, <3>3, <3>4 DEF NavInv, Dashboard
  <2>4. CASE Middleware(heading) = heading
    <3>1. page' = heading /\ heading' = "none" /\ settled' = FALSE /\ hops' = hops
      BY <1>3, <2>4 DEF Arrive
    <3>2. "none" \notin PROTECTED_PREFIXES \union AUTH_ROUTES
      BY DEF PROTECTED_PREFIXES, AUTH_ROUTES
    <3>3. QED BY <1>1, <2>2, <3>1, <3>2 DEF NavInv, Dashboard
  <2>5. QED BY <2>3, <2>4
<1>4. CASE CallSucceeds \/ Renew \/ CooldownOver \/ DeleteAccount \/ RefreshDies
  <2>1. /\ UNCHANGED <<role, page, heading, hops>>
        /\ session' = session \/ session' = "valid"
        /\ settled' = settled \/ session' = "valid"
    BY <1>4 DEF CallSucceeds, Renew, CooldownOver, DeleteAccount, RefreshDies
  <2>2. CASE AtRest
    <3>1. heading' \notin PROTECTED_PREFIXES \union AUTH_ROUTES
      BY <2>1, <2>2 DEF AtRest, PROTECTED_PREFIXES, AUTH_ROUTES
    <3>2. QED BY <1>1, <2>1, <2>2, <3>1 DEF NavInv, AtRest, Dashboard
  <2>3. CASE ~ AtRest
    <3>1. UNCHANGED <<session, refresh>>
      BY <1>4, <2>3 DEF CallSucceeds, Renew, CooldownOver, DeleteAccount, RefreshDies
    <3>2. Middleware(heading)' = Middleware(heading)
      BY <2>1, <3>1 DEF Middleware, ReadSession, RoleHome
    <3>3. QED BY <1>1, <2>1, <2>3, <3>1, <3>2 DEF NavInv, AtRest, Dashboard
  <2>4. QED BY <2>2, <2>3
<1>5. CASE RenewalRefused \/ RenewalFails
  <2>1. /\ AtRest /\ UNCHANGED <<role, page>> /\ SessionExpired
        /\ session # "valid" /\ session' # "valid"
    BY <1>5 DEF RenewalRefused, RenewalFails
  <2>2. CASE Dashboard(page)
    <3>1. heading' = "/login" /\ hops' = hops + 1 /\ hops <= 1
      BY <1>2, <2>1, <2>2 DEF SessionExpired, Dashboard, NavInv
    <3>2. Middleware(heading)' = heading'
      BY <2>1, <3>1 DEF Middleware, ReadSession, PROTECTED_PREFIXES
    <3>3. QED BY <1>1, <3>1, <3>2 DEF NavInv, AtRest, Dashboard, PROTECTED_PREFIXES
  <2>3. CASE ~ Dashboard(page)
    <3>1. heading' = "none" /\ hops' = hops
      BY <2>1, <2>3 DEF SessionExpired, Dashboard, AtRest
    <3>2. QED BY <1>1, <2>1, <2>3, <3>1 DEF NavInv, AtRest, Dashboard, PROTECTED_PREFIXES, AUTH_ROUTES
  <2>4. QED BY <2>2, <2>3
<1>6. CASE EnterOnboarding
  <2>1. AtRest /\ page = "/onboarding" /\ hops = 0
    BY <1>6 DEF EnterOnboarding, NavInv
  <2>2. PICK to \in {"/login", "wizard", RoleHome} : Redirect(to)
    BY <1>6, Zenon DEF EnterOnboarding
  <2>3. heading' = to /\ hops' = 1 /\ to # "none" /\ to # "/onboarding"
    BY <1>1, <1>2, <2>1, <2>2, HomeIs DEF NavTypeOK
  <2>4. QED BY <1>1, <2>3 DEF NavInv, AtRest
<1>7. CASE SessionLapses
  BY <1>1, <1>7 DEF SessionLapses, NavInv, AtRest, PROTECTED_PREFIXES, AUTH_ROUTES
<1>8. CASE \E to \in Page : GoFor(to)
  BY <1>1, <1>8, GoesFor
<1>9. CASE UNCHANGED navVars
  <2>1. UNCHANGED <<role, page, heading, hops, session, refresh, settled>>
    BY <1>9 DEF navVars
  <2>2. Middleware(heading)' = Middleware(heading)
    BY <2>1 DEF Middleware, ReadSession, RoleHome
  <2>3. QED BY <1>1, <2>1, <2>2 DEF NavInv, AtRest, Dashboard
<1>10. ASSUME \/ \E to \in Page \ {"wizard", "/verify-email"} : Browse(to)
              \/ \E to \in PROTECTED_PREFIXES \union {"/onboarding"} : LoginSucceeds(to)
              \/ Register \/ OAuth \/ Publish \/ LogoutSucceeds
       PROVE  \E to \in Page : GoFor(to)
  <2>1. /\ RoleHome \in Page /\ PROTECTED_PREFIXES \union {"/onboarding"} \subseteq Page
        /\ {"/login", "/verify-email", "/onboarding", "/"} \subseteq Page
    BY <1>1, HomeIs DEF NavTypeOK, Page, AUTH_ROUTES
  <2>2. QED
    BY <1>10, <2>1 DEF Browse, LoginSucceeds, Register, OAuth, Publish, LogoutSucceeds
<1>11. QED BY <1>3, <1>4, <1>5, <1>6, <1>7, <1>8, <1>9, <1>10 DEF NavNext

LEMMA NavInvariant == NavSpec => []NavInv
<1>1. NavInit => NavInv
  <2> SUFFICES ASSUME NavInit PROVE NavInv
    OBVIOUS
  <2>1. NavTypeOK
    <3>1. "/" \in Page /\ 0 \in 0..MaxHops + 1
      BY DEF Page, MaxHops
    <3>2. QED BY <3>1 DEF NavInit, NavTypeOK
  <2>2. QED BY <2>1 DEF NavInit, NavInv, Dashboard, PROTECTED_PREFIXES, AUTH_ROUTES
<1>2. QED BY <1>1, NavInvNext, PTL DEF NavSpec

(* Whatever the cookies, the caches and the API say, a reader is redirected at
   most twice, and a dashboard at rest has a session. *)
THEOREM NoRedirectLoop == NavSpec => []RedirectsSettle
<1>1. NavInv => RedirectsSettle
  BY DEF NavInv, RedirectsSettle, MaxHops, Dashboard
<1>2. QED BY <1>1, NavInvariant, PTL
------------------------------------------------------------------------------
(* The query cache of the browser. *)

(* Of the last success on, no answer from before it is under way or passes for
   fresh, and a page that is not loading shows one from after it. *)
CacheInv ==
    /\ CacheTypeOK
    /\ ~ overtaken =>
          /\ fetch = "answered" => brings >= acked
          /\ fresh => shown >= acked
          /\ open /\ fetch = "none" /\ ~ failed => shown >= acked

LEMMA NoAnswerIsOlder == NoAnswer \in Int /\ NoAnswer < 0
BY DEF NoAnswer

LEMMA CacheInvariant == CacheSpec => []CacheInv
<1> USE CacheAssumption, NoAnswerIsOlder
<1>1. CacheInit => CacheInv
  <2>1. CacheInit => CacheTypeOK
    <3>1. CacheInit => shown \in NoAnswer..writes /\ brings \in 0..writes /\ acked \in 0..writes
      BY DEF CacheInit
    <3>2. CacheInit => writes \in 0..MaxWrites /\ sent \in Nat /\ written \in Nat /\ sent + written <= MaxPresses
      BY DEF CacheInit
    <3>3. QED BY <3>1, <3>2 DEF CacheInit, CacheTypeOK
  <2>2. QED BY <2>1 DEF CacheInit, CacheInv
<1>2. CacheInv /\ [CacheNext]_cacheVars => CacheInv'
  <2> SUFFICES ASSUME CacheInv, [CacheNext]_cacheVars PROVE CacheInv'
    OBVIOUS
  <2> DEFINE Numbered == shown \in NoAnswer..writes /\ brings \in 0..writes /\ acked \in 0..writes
  <2> USE DEF Numbered
  <2>1. CASE OpenPage
    BY <2>1 DEF CacheInv, CacheTypeOK, OpenPage
  <2>2. CASE ClosePage
    BY <2>2 DEF CacheInv, CacheTypeOK, ClosePage
  <2>3. CASE Collect
    <3>1. Numbered'
      BY <2>3 DEF CacheInv, CacheTypeOK, Collect
    <3>2. CacheTypeOK'
      BY <2>3, <3>1 DEF CacheInv, CacheTypeOK, Collect
    <3>3. QED BY <2>3, <3>2 DEF CacheInv, CacheTypeOK, Collect
  <2>4. CASE GoStale
    BY <2>4 DEF CacheInv, CacheTypeOK, GoStale
  <2>5. CASE Refetch
    BY <2>5 DEF CacheInv, CacheTypeOK, Refetch
  <2>6. CASE ServerReads
    BY <2>6 DEF CacheInv, CacheTypeOK, ServerReads
  <2>7. CASE Land
    <3>1. (pair.query.staleTime # 0) \in BOOLEAN
      OBVIOUS
    <3>2. Numbered'
      BY <2>7 DEF CacheInv, CacheTypeOK, Land
    <3>3. CacheTypeOK'
      BY <2>7, <3>1, <3>2 DEF CacheInv, CacheTypeOK, Land
    <3>4. QED BY <2>7, <3>3 DEF CacheInv, CacheTypeOK, Land
  <2>8. CASE FetchFails
    BY <2>8 DEF CacheInv, CacheTypeOK, FetchFails
  <2>9. CASE Press
    BY <2>9 DEF CacheInv, CacheTypeOK, Press
  <2>10. CASE ServerWrites
    BY <2>10 DEF CacheInv, CacheTypeOK, ServerWrites
  <2>11. CASE PressFails
    BY <2>11 DEF CacheInv, CacheTypeOK, PressFails
  <2>12. CASE Succeed
    <3>1. /\ written > 0 /\ written' = written - 1 /\ acked' = writes
          /\ UNCHANGED <<pair, writes, open, sent, failed>>
          /\ \/ SetData
             \/ Invalidate
      BY <2>12 DEF Succeed
    <3>2. CASE SetData
      <4>1. Numbered'
        BY <3>1, <3>2 DEF CacheInv, CacheTypeOK, SetData
      <4>2. CacheTypeOK'
        BY <3>1, <3>2, <4>1 DEF CacheInv, CacheTypeOK, SetData
      <4>3. overtaken' \/ fetch' = "none"
        BY <3>1, <3>2 DEF CacheInv, CacheTypeOK, SetData
      <4>4. shown' = writes /\ acked' = writes
        BY <3>1, <3>2 DEF SetData
      <4>5. shown' >= acked'
        BY <4>4 DEF CacheInv, CacheTypeOK
      <4>6. QED BY <4>2, <4>3, <4>5 DEF CacheInv
    <3>3. CASE Invalidate
      <4>1. Numbered'
        BY <3>1, <3>3 DEF CacheInv, CacheTypeOK, Invalidate
      <4>2. sent' \in Nat /\ written' \in Nat /\ sent' + written' <= MaxPresses
        BY <3>1 DEF CacheInv, CacheTypeOK
      <4>3. fetch' \in {"none", "asked", "answered"} /\ overtaken' \in BOOLEAN
        BY <3>3 DEF CacheInv, CacheTypeOK, Invalidate
      <4>4. CacheTypeOK'
        BY <3>1, <3>3, <4>1, <4>2, <4>3 DEF CacheInv, CacheTypeOK, Invalidate
      <4>5. QED BY <3>1, <3>3, <4>4 DEF CacheInv, CacheTypeOK, Invalidate
    <3>4. QED BY <3>1, <3>2, <3>3
  <2>13. CASE UNCHANGED cacheVars
    BY <2>13 DEF CacheInv, CacheTypeOK, cacheVars
  <2>14. QED
    BY <2>1, <2>2, <2>3, <2>4, <2>5, <2>6, <2>7, <2>8, <2>9, <2>10, <2>11, <2>12, <2>13
       DEF CacheNext
<1>3. QED BY <1>1, <1>2, PTL DEF CacheSpec

(* What a mutation refreshes is refreshed, whatever was in flight, mounted or
   cached when it succeeded and however often it is repeated: for every pair of
   the tables and any number of overlapping mutations. *)
THEOREM RefreshReaches == CacheSpec => []RefreshTakesHold
<1>1. CacheInv => RefreshTakesHold
  BY DEF CacheInv, RefreshTakesHold
<1>2. QED BY <1>1, CacheInvariant, PTL
------------------------------------------------------------------------------
(* The web app in use. *)

LEMMA HomesAreThere == \A who \in Public : ROLE_HOME(who) \in Paths
<1>1. \A who \in Public :
         ROLE_HOME(who) \in {"/founder", "/investor", "/admin", "/mentors/bookings", "/jobs", "/community"}
  BY DEF ROLE_HOME
<1>2. {"/founder", "/investor", "/admin", "/mentors/bookings", "/jobs", "/community"} \subseteq Paths
  BY DEF Paths, FounderArea, InvestorArea, AdminArea, SharedPages
<1>3. QED BY <1>1, <1>2

LEMMA EntriesAreThere == {"/", "/login", "/verify-email", "/onboarding"} \subseteq Paths
  BY DEF Paths, EntryPages

(* The middleware sends nobody to a page there is not. *)
LEMMA SentToAPage ==
  ASSUME NEW who \in Public, NEW path \in Paths
  PROVE  SentTo(who, path) \in Paths
  BY HomesAreThere, EntriesAreThere DEF SentTo

(* Whoever is at the browser sees a page there is, and the rows of other topics
   stay as they are. *)
LEMMA WebTyped == WebSpec => []WebTypeOK
<1>1. WebInit => WebTypeOK
  <2> SUFFICES ASSUME WebInit PROVE WebTypeOK
    OBVIOUS
  <2>1. topic \in Topics /\ reader \in Public /\ openPage \in Paths
    BY EntriesAreThere DEF WebInit, Public
  <2>2. DOMAIN Unmade = Kinds /\ DOMAIN [Unmade EXCEPT !.startup = "published"] = Kinds
    BY DEF Kinds
  <2>3. \A row \in Kinds :
           [Unmade EXCEPT !.startup = "published"][row] =
              IF row = "startup" THEN "published" ELSE Unmade[row]
    BY DEF Kinds
  <2>4. QED BY <2>1, <2>2, <2>3 DEF WebInit, WebTypeOK
<1>2. WebTypeOK /\ [WebNext]_webVars => WebTypeOK'
  <2> SUFFICES ASSUME WebTypeOK, [WebNext]_webVars PROVE WebTypeOK'
    OBVIOUS
  <2>1. CASE SignInAs
    BY <2>1, EntriesAreThere DEF WebTypeOK, SignInAs, Public
  <2>2. CASE FollowLink
    BY <2>2, SentToAPage DEF WebTypeOK, FollowLink
  <2>3. CASE TakeOffer
    <3>1. /\ DOMAIN siteRows' = Kinds
          /\ \A row \in Kinds \ topic : siteRows'[row] = siteRows[row]
      BY <2>3 DEF TakeOffer
    <3>2. UNCHANGED <<topic, reader, openPage>>
      BY <2>3 DEF TakeOffer
    <3>3. QED BY <3>1, <3>2 DEF WebTypeOK
  <2>4. CASE SignOut
    BY <2>4, EntriesAreThere DEF WebTypeOK, SignOut, Public
  <2>5. CASE UNCHANGED webVars
    BY <2>5 DEF WebTypeOK, webVars
  <2>6. QED BY <2>1, <2>2, <2>3, <2>4, <2>5 DEF WebNext
<1>3. QED BY <1>1, <1>2, PTL DEF WebSpec

LEMMA HomesAreOpen == \A who \in Roles : who \in ProtectedFor(ROLE_HOME(who))
  BY DEF Roles, ROLE_HOME, ProtectedFor, FounderArea, InvestorArea, AdminArea, Public

LEMMA EntriesAreOpen ==
  /\ \A who \in Public : who \in ProtectedFor("/onboarding") /\ who \in ProtectedFor("/verify-email")
                          /\ who \in ProtectedFor("/")
  /\ Visitor \in ProtectedFor("/login")
  BY DEF ProtectedFor, FounderArea, InvestorArea, AdminArea, Public

LEMMA SentWhereAllowed ==
  ASSUME NEW who \in Public, NEW path
  PROVE  who \in ProtectedFor(SentTo(who, path))
  BY HomesAreOpen, EntriesAreOpen DEF SentTo, Public

LEMMA TabulatedIs == \A f : Tabulated(f) = f
  BY DEF Tabulated

LEMMA AnswersAreServices ==
  ASSUME NEW where \in Paths, NEW who \in Public,
         NEW offer \in Parts[where][who].offers, NEW s \in offer.answers
  PROVE  s \in Services /\ who \in s.by
<1> DEFINE routed == Routed
           Asked(call) == [call |-> call, passes |-> who \in routed[call].callers,
                           readable |-> routed[call].readable]
           Offered(o) ==
            [asked   |-> Asked(o.call), does |-> o.does, when |-> o.when,
             decided |-> routed[o.call].entries # {},
             answers |-> {a \in routed[o.call].entries : a.does = o.does /\ who \in a.by}]
<1>1. Parts[where][who].offers = {Offered(o) : o \in {x \in Pages[where].offers : who \in x.who}}
  <2>1. Parts = SiteParts
    BY PartsAssumption DEF Parts
  <2>2. SiteParts[where][who] =
          Part({[call |-> r.call, passes |-> who \in Routed[r.call].callers,
                 readable |-> Routed[r.call].readable] : r \in {x \in Pages[where].reads : who \in x.who}},
               {Offered(o) : o \in {x \in Pages[where].offers : who \in x.who}},
               {l \in Pages[where].links : who \in l.who})
    BY SMTT(20) DEF SiteParts, Tabulated
  <2>3. QED BY <2>1, <2>2 DEF Part
<1>2. PICK o \in Pages[where].offers : offer = Offered(o)
  BY <1>1
<1>3. o.call \in Calls
  BY <1>2 DEF Calls
<1>4. s \in routed[o.call].entries /\ who \in s.by
  BY <1>2
<1>5. routed[o.call].entries = {a \in Services : a.request = o.call}
  BY <1>3, SMTT(20) DEF Routed, Tabulated
<1>6. QED BY <1>4, <1>5

LEMMA UnmadeAre ==
  /\ Unmade["connection"] = "none" /\ Unmade["info"] = "no" /\ Unmade["meeting"] = "none"
  /\ Unmade["message"] = "none" /\ Unmade["job"] = "none" /\ Unmade["application"] = "none"
  /\ Unmade["booking"] = "none" /\ Unmade["founderReview"] = "none"
  /\ Unmade["mentorReview"] = "none" /\ Unmade["document"] = "none" /\ Unmade["grant"] = "none"
  /\ Unmade["post"] = "none" /\ Unmade["voted"] = "no" /\ Unmade["rsvp"] = "no"
  /\ Unmade["comment"] = "none" /\ Unmade["watched"] = "no" /\ Unmade["trigger"] = "none"
  /\ Unmade["deal"] = "none" /\ Unmade["holding"] = "none" /\ Unmade["startup"] = "none"
  BY DEF Unmade

(* What an entry of the services asks of other rows before it makes one, and
   which it resets when it takes one away. *)
Needs(s, row, states) == <<row, states>> \in s.needs
Resets(s, row) == <<row, Unmade[row]>> \in s.sets
Requests == {"PENDING", "ACCEPTED", "DECLINED", "IGNORED"}
Answered == {"SUBMITTED", "SHORTLISTED", "REJECTED", "HIRED"}
OfARequest(s, ch) ==
    /\ ch[1] = "connection" =>
          \/ /\ ch[2] = "PENDING" /\ s.by = FounderOnly
             /\ Needs(s, "connection", {"none"}) /\ Needs(s, "startup", {"published"})
          \/ ch[2] \in {"ACCEPTED", "DECLINED", "IGNORED"} /\ Needs(s, "connection", {"PENDING"})
    /\ ch[1] \in {"info", "meeting"} => Needs(s, "connection", Requests)
    /\ ch[1] = "message" => Needs(s, "connection", {"ACCEPTED"})
OfAStartup(s, ch) ==
    /\ ch[1] = "startup" => ch[2] = "published"
    /\ ch[1] \in {"job", "watched", "trigger"} =>
          (ch[2] = Unmade[ch[1]] /\ ch[1] # "job") \/ Needs(s, "startup", {"published"})
    /\ ch[1] = "job" => ch[2] # "none"
    /\ ch[1] = "application" => Needs(s, "job", {"OPEN"}) \/ Needs(s, "application", Answered)
    /\ ch[1] = "deal" =>
          ch[2] # "none" /\ (Needs(s, "startup", {"published"}) \/ Needs(s, "deal", {"open", "closed"}))
    /\ ch[1] = "holding" =>
          Needs(s, "deal", {"open", "closed"}) \/ Needs(s, "holding", {"held", "exited"})
OfASession(s, ch) ==
    /\ ch[1] = "booking" =>
          \/ s.by = FounderOnly /\ Needs(s, "booking", {"none"})
          \/ Needs(s, "booking", {"PENDING"})
    /\ ch[1] \in {"founderReview", "mentorReview"} => Needs(s, "booking", {"ACCEPTED"})
OfADocument(s, ch) ==
    /\ ch[1] = "document" => ch[2] # "none" \/ Resets(s, "grant")
    /\ ch[1] = "grant" =>
          ch[2] = "none" \/ Needs(s, "document", {"kept"})
          \/ Needs(s, "grant", {"open", "nda", "revoked"}) \/ Needs(s, "grant", {"nda"})
OfAPost(s, ch) ==
    /\ ch[1] = "post" =>
          ch[2] # "none" \/ (Resets(s, "voted") /\ Resets(s, "rsvp") /\ Resets(s, "comment"))
    /\ ch[1] \in {"voted", "rsvp", "comment"} =>
          ch[2] = Unmade[ch[1]] \/ Needs(s, "post", {"own", "others"})
OncePerRow(s) == \A ch, other \in s.sets : ch[1] = other[1] => ch = other
Kept(s) ==
    /\ OncePerRow(s)
    /\ \A ch \in s.sets : OfARequest(s, ch) /\ OfAStartup(s, ch) /\ OfASession(s, ch)
                          /\ OfADocument(s, ch) /\ OfAPost(s, ch)

LEMMA ConnectionsKept == \A s \in ConnectionsService : Kept(s)
<1> SUFFICES ASSUME NEW s \in ConnectionsService PROVE Kept(s)
  OBVIOUS
<1>1. \A ch \in s.sets : OfARequest(s, ch)
  BY UnmadeAre DEF ConnectionsService, On, OnEach, Row, In, Published, Needs, OfARequest, Requests
<1>2. \A ch \in s.sets : ch[1] \in {"connection", "info", "meeting", "message"}
  BY DEF ConnectionsService, On, OnEach, Row
<1>3. \A ch \in s.sets : OfAStartup(s, ch) /\ OfASession(s, ch) /\ OfADocument(s, ch) /\ OfAPost(s, ch)
  BY <1>2 DEF OfAStartup, OfASession, OfADocument, OfAPost
<1>4. OncePerRow(s)
  BY DEF ConnectionsService, On, OnEach, Row, OncePerRow
<1>5. QED BY <1>1, <1>3, <1>4 DEF Kept

LEMMA DocumentsKept == \A s \in DocumentsService : Kept(s)
  BY UnmadeAre, SMTT(20) DEF DocumentsService, On, OnEach, Of, APost, Row, In, Nothing, Published, Kept, OncePerRow, OfARequest, OfAStartup,
         OfASession, OfADocument, OfAPost, Needs, Resets, Requests, Answered

LEMMA DocumentAccessKept == \A s \in DocumentAccessService : Kept(s)
  BY UnmadeAre, SMTT(20) DEF DocumentAccessService, On, OnEach, Of, APost, Row, In, Nothing, Published, Kept, OncePerRow, OfARequest, OfAStartup,
         OfASession, OfADocument, OfAPost, Needs, Resets, Requests, Answered

LEMMA HiringKept == \A s \in HiringService : Kept(s)
  BY UnmadeAre, SMTT(20) DEF HiringService, On, OnEach, Of, APost, Row, In, Nothing, Published, Kept, OncePerRow, OfARequest, OfAStartup,
         OfASession, OfADocument, OfAPost, Needs, Resets, Requests, Answered

LEMMA MentorBookingKept == \A s \in MentorBookingService : Kept(s)
  BY UnmadeAre DEF MentorBookingService, On, OnEach, Of, APost, Row, In, Nothing, Published, Kept, OncePerRow, OfARequest, OfAStartup,
         OfASession, OfADocument, OfAPost, Needs, Resets, Requests, Answered

LEMMA FounderReviewsKept == \A s \in FounderReviewsService : Kept(s)
  BY UnmadeAre DEF FounderReviewsService, On, OnEach, Of, APost, Row, In, Nothing, Published, Kept, OncePerRow, OfARequest, OfAStartup,
         OfASession, OfADocument, OfAPost, Needs, Resets, Requests, Answered

LEMMA MentorReviewsKept == \A s \in MentorReviewsService : Kept(s)
  BY UnmadeAre, SMTT(20) DEF MentorReviewsService, On, OnEach, Of, APost, Row, In, Nothing, Published, Kept, OncePerRow, OfARequest, OfAStartup,
         OfASession, OfADocument, OfAPost, Needs, Resets, Requests, Answered

LEMMA PostsKept == \A s \in PostsService : Kept(s)
  BY UnmadeAre, SMTT(20) DEF PostsService, On, OnEach, Of, APost, Row, In, Nothing, Published, Kept, OncePerRow, OfARequest, OfAStartup,
         OfASession, OfADocument, OfAPost, Needs, Resets, Requests, Answered

LEMMA CommentsKept == \A s \in CommentsService : Kept(s)
  BY UnmadeAre DEF CommentsService, On, OnEach, Of, APost, Row, In, Nothing, Published, Kept, OncePerRow, OfARequest, OfAStartup,
         OfASession, OfADocument, OfAPost, Needs, Resets, Requests, Answered

LEMMA LikesKept == \A s \in LikesService : Kept(s)
  BY UnmadeAre DEF LikesService, On, OnEach, Of, APost, Row, In, Nothing, Published, Kept, OncePerRow, OfARequest, OfAStartup,
         OfASession, OfADocument, OfAPost, Needs, Resets, Requests, Answered

LEMMA BookmarksKept == \A s \in BookmarksService : Kept(s)
  BY UnmadeAre DEF BookmarksService, On, OnEach, Of, APost, Row, In, Nothing, Published, Kept, OncePerRow, OfARequest, OfAStartup,
         OfASession, OfADocument, OfAPost, Needs, Resets, Requests, Answered

LEMMA PollsKept == \A s \in PollsService : Kept(s)
  BY UnmadeAre, SMTT(20) DEF PollsService, On, OnEach, Of, APost, Row, In, Nothing, Published, Kept, OncePerRow, OfARequest, OfAStartup,
         OfASession, OfADocument, OfAPost, Needs, Resets, Requests, Answered

LEMMA EventsKept == \A s \in EventsService : Kept(s)
  BY UnmadeAre, SMTT(20) DEF EventsService, On, OnEach, Of, APost, Row, In, Nothing, Published, Kept, OncePerRow, OfARequest, OfAStartup,
         OfASession, OfADocument, OfAPost, Needs, Resets, Requests, Answered

LEMMA FollowsKept == \A s \in FollowsService : Kept(s)
  BY UnmadeAre, SMTT(20) DEF FollowsService, On, OnEach, Of, APost, Row, In, Nothing, Published, Kept, OncePerRow, OfARequest, OfAStartup,
         OfASession, OfADocument, OfAPost, Needs, Resets, Requests, Answered

LEMMA WatchlistKept == \A s \in WatchlistService : Kept(s)
  BY UnmadeAre DEF WatchlistService, On, OnEach, Of, APost, Row, In, Nothing, Published, Kept, OncePerRow, OfARequest, OfAStartup,
         OfASession, OfADocument, OfAPost, Needs, Resets, Requests, Answered

LEMMA WatchlistTriggersKept == \A s \in WatchlistTriggersService : Kept(s)
  BY UnmadeAre DEF WatchlistTriggersService, On, OnEach, Of, APost, Row, In, Nothing, Published, Kept, OncePerRow, OfARequest, OfAStartup,
         OfASession, OfADocument, OfAPost, Needs, Resets, Requests, Answered

LEMMA PipelineKept == \A s \in PipelineService : Kept(s)
  BY UnmadeAre DEF PipelineService, On, OnEach, Of, APost, Row, In, Nothing, Published, Kept, OncePerRow, OfARequest, OfAStartup,
         OfASession, OfADocument, OfAPost, Needs, Resets, Requests, Answered

LEMMA PortfolioKept == \A s \in PortfolioService : Kept(s)
  BY UnmadeAre DEF PortfolioService, On, OnEach, Of, APost, Row, In, Nothing, Published, Kept, OncePerRow, OfARequest, OfAStartup,
         OfASession, OfADocument, OfAPost, Needs, Resets, Requests, Answered

LEMMA MandatesKept == \A s \in MandatesService : Kept(s)
  BY UnmadeAre, SMTT(20) DEF MandatesService, On, OnEach, Of, APost, Row, In, Nothing, Published, Kept, OncePerRow, OfARequest, OfAStartup,
         OfASession, OfADocument, OfAPost, Needs, Resets, Requests, Answered

LEMMA SavedSearchesKept == \A s \in SavedSearchesService : Kept(s)
  BY UnmadeAre, SMTT(20) DEF SavedSearchesService, On, OnEach, Of, APost, Row, In, Nothing, Published, Kept, OncePerRow, OfARequest, OfAStartup,
         OfASession, OfADocument, OfAPost, Needs, Resets, Requests, Answered

LEMMA InvestorsKept == \A s \in InvestorsService : Kept(s)
  BY UnmadeAre DEF InvestorsService, On, OnEach, Of, APost, Row, In, Nothing, Published, Kept, OncePerRow, OfARequest, OfAStartup,
         OfASession, OfADocument, OfAPost, Needs, Resets, Requests, Answered

LEMMA StartupsKept == \A s \in StartupsService : Kept(s)
  BY UnmadeAre, SMTT(20) DEF StartupsService, On, OnEach, Of, APost, Row, In, Nothing, Published, Kept, OncePerRow, OfARequest, OfAStartup,
         OfASession, OfADocument, OfAPost, Needs, Resets, Requests, Answered

LEMMA MilestonesKept == \A s \in MilestonesService : Kept(s)
  BY UnmadeAre DEF MilestonesService, On, OnEach, Of, APost, Row, In, Nothing, Published, Kept, OncePerRow, OfARequest, OfAStartup,
         OfASession, OfADocument, OfAPost, Needs, Resets, Requests, Answered

LEMMA OnboardingKept == \A s \in OnboardingService : Kept(s)
  BY UnmadeAre DEF OnboardingService, On, OnEach, Of, APost, Row, In, Nothing, Published, Kept, OncePerRow, OfARequest, OfAStartup,
         OfASession, OfADocument, OfAPost, Needs, Resets, Requests, Answered

LEMMA ServicesKept == \A s \in Services : Kept(s)
  BY ConnectionsKept, DocumentsKept, DocumentAccessKept, HiringKept, MentorBookingKept, FounderReviewsKept, MentorReviewsKept, PostsKept, CommentsKept, LikesKept, BookmarksKept, PollsKept, EventsKept, FollowsKept, WatchlistKept, WatchlistTriggersKept, PipelineKept, PortfolioKept, MandatesKept, SavedSearchesKept, InvestorsKept, StartupsKept, MilestonesKept, OnboardingKept
     DEF Services

(* What a reader finds of a row says what the row is. *)
LEMMA RowFound ==
  ASSUME NEW who \in Public, NEW s, Meets(Seen(who), s.needs),
         NEW row \in Kinds, NEW states, Needs(s, row, states)
  PROVE  /\ Unmade[row] \notin states => Made(row)
         /\ Unmade[row] \notin states \/ who \in Readers(row) => row = "post" \/ siteRows[row] \in states
<1>1. Seen(who)[row] \in states
  BY DEF Meets, Needs
<1>2. CASE row = "post"
  BY <1>1, <1>2, UnmadeAre DEF Seen, Made
<1>3. CASE row # "post"
  BY <1>1, <1>3 DEF Seen, Made
<1>4. QED BY <1>2, <1>3

LEMMA KindsAre ==
  {"startup", "connection", "info", "meeting", "message", "document", "grant", "job", "application",
   "booking", "founderReview", "mentorReview", "post", "voted", "rsvp", "comment", "watched",
   "trigger", "deal", "holding"} \subseteq Kinds
  BY DEF Kinds, Unmade

LEMMA TopicsAreWhole ==
  \A t \in Topics : /\ "document" \in t => "grant" \in t
                    /\ "post" \in t => "voted" \in t /\ "rsvp" \in t /\ "comment" \in t
  BY DEF Topics

LEMMA FoundersRead == "FOUNDER" \in Readers("connection") /\ "FOUNDER" \in Readers("booking")
  BY DEF Readers, Public, SignedIn, Roles

(* The rows after an offer was taken. *)
LEMMA RowsTaken ==
  ASSUME WebTypeOK, TakeOffer
  PROVE  \E s \in Services :
           /\ Kept(s) /\ reader \in s.by /\ Meets(Seen(reader), s.needs)
           /\ \A row \in Kinds :
                 \/ siteRows'[row] = siteRows[row] /\ (row \in topic => \A ch \in s.sets : ch[1] # row)
                 \/ \E ch \in s.sets : ch[1] = row /\ row \in topic /\ siteRows'[row] = ch[2]
<1>1. PICK offer \in OffersTo(reader, openPage) : \E s \in Serving(reader, offer) :
         siteRows' = [row \in Kinds |->
                IF row \in topic /\ \E change \in s.sets : change[1] = row
                THEN (CHOOSE change \in s.sets : change[1] = row)[2]
                ELSE siteRows[row]]
  BY DEF TakeOffer
<1>0. PICK s \in Serving(reader, offer) : siteRows' = [row \in Kinds |->
                IF row \in topic /\ \E change \in s.sets : change[1] = row
                THEN (CHOOSE change \in s.sets : change[1] = row)[2]
                ELSE siteRows[row]]
  BY <1>1
<1>2. offer \in Parts[openPage][reader].offers /\ s \in offer.answers /\ Meets(Seen(reader), s.needs)
  BY <1>0 DEF OffersTo, Serving
<1>3. s \in Services /\ reader \in s.by
  BY <1>2, AnswersAreServices DEF WebTypeOK
<1>4. Kept(s)
  BY <1>3, ServicesKept
<1>5. ASSUME NEW row \in Kinds
      PROVE  \/ siteRows'[row] = siteRows[row] /\ (row \in topic => \A ch \in s.sets : ch[1] # row)
             \/ \E ch \in s.sets : ch[1] = row /\ row \in topic /\ siteRows'[row] = ch[2]
  <2>1. CASE row \in topic /\ \E change \in s.sets : change[1] = row
    <3>1. PICK ch \in s.sets : ch[1] = row /\ ch = CHOOSE change \in s.sets : change[1] = row
      BY <2>1
    <3>2. siteRows'[row] = ch[2]
      BY <1>0, <2>1, <3>1
    <3>3. QED BY <2>1, <3>1, <3>2
  <2>2. CASE ~ (row \in topic /\ \E change \in s.sets : change[1] = row)
    BY <1>0, <2>2
  <2>3. QED BY <2>1, <2>2
<1>6. QED BY <1>2, <1>3, <1>4, <1>5

(* Made and not so before. *)
LEMMA OrphansStayAway ==
  ASSUME WebTypeOK, NoOrphans, TakeOffer
  PROVE  NoOrphans'
<1>1. PICK s \in Services :
           /\ Kept(s) /\ reader \in s.by /\ Meets(Seen(reader), s.needs)
           /\ \A row \in Kinds :
                 \/ siteRows'[row] = siteRows[row] /\ (row \in topic => \A ch \in s.sets : ch[1] # row)
                 \/ \E ch \in s.sets : ch[1] = row /\ row \in topic /\ siteRows'[row] = ch[2]
  BY RowsTaken
<1> DEFINE New(row) == \E ch \in s.sets : ch[1] = row /\ row \in topic /\ siteRows'[row] = ch[2]
           Same(row) == siteRows'[row] = siteRows[row]
<1>2. \A row \in Kinds : Same(row) \/ New(row)
  BY <1>1
<1>3. \A ch \in s.sets : OfARequest(s, ch) /\ OfAStartup(s, ch) /\ OfASession(s, ch)
                          /\ OfADocument(s, ch) /\ OfAPost(s, ch)
  BY <1>1 DEF Kept
<1>4. reader \in Public
  BY DEF WebTypeOK
<1>5. ASSUME NEW row \in Kinds, NEW states, Needs(s, row, states)
      PROVE  /\ Unmade[row] \notin states => Made(row)
             /\ Unmade[row] \notin states \/ reader \in Readers(row) => row = "post" \/ siteRows[row] \in states
  BY <1>1, <1>4, <1>5, RowFound
<1>6. s.by = FounderOnly => reader \in Readers("connection") /\ reader \in Readers("booking")
  BY <1>1, FoundersRead DEF FounderOnly
<1>7. Needs(s, "startup", {"published"}) => siteRows["startup"] = "published"
  BY <1>5, KindsAre, UnmadeAre
<1>8. siteRows["startup"] = "published" => siteRows'["startup"] = "published"
  <2>1. New("startup") => siteRows'["startup"] = "published"
    BY <1>3 DEF OfAStartup
  <2>2. QED BY <1>2, <2>1, KindsAre
<1>9. ASSUME NEW row \in {"connection", "job", "watched", "trigger", "deal"}, Made(row)'
      PROVE  siteRows'["startup"] = "published"
  <2>1. CASE Same(row)
    BY <1>8, <1>9, <2>1 DEF NoOrphans, Made
  <2>2. CASE New(row)
    <3>1. PICK ch \in s.sets : ch[1] = row /\ siteRows'[row] = ch[2] /\ OfARequest(s, ch) /\ OfAStartup(s, ch)
      BY <1>3, <2>2
    <3>2. CASE row = "connection"
      <4>1. Needs(s, "startup", {"published"}) \/ Needs(s, "connection", {"PENDING"})
        BY <3>1, <3>2 DEF OfARequest
      <4>2. Needs(s, "connection", {"PENDING"}) => Made("connection")
        BY <1>5, KindsAre, UnmadeAre
      <4>3. QED BY <1>7, <1>8, <4>1, <4>2 DEF NoOrphans
    <3>3. CASE row = "deal"
      <4>1. Needs(s, "startup", {"published"}) \/ Needs(s, "deal", {"open", "closed"})
        BY <3>1, <3>3 DEF OfAStartup
      <4>2. Needs(s, "deal", {"open", "closed"}) => Made("deal")
        BY <1>5, KindsAre, UnmadeAre
      <4>3. QED BY <1>7, <1>8, <4>1, <4>2 DEF NoOrphans
    <3>4. CASE row \in {"job", "watched", "trigger"}
      <4>1. Needs(s, "startup", {"published"})
        BY <1>9, <3>1, <3>4, UnmadeAre DEF OfAStartup, Made
      <4>2. QED BY <1>7, <1>8, <4>1
    <3>5. QED BY <3>2, <3>3, <3>4
  <2>3. QED BY <1>2, <2>1, <2>2, KindsAre
<1>10. Made("message")' => siteRows'["connection"] = "ACCEPTED"
  <2> SUFFICES ASSUME Made("message")' PROVE siteRows'["connection"] = "ACCEPTED"
    OBVIOUS
  <2>1. siteRows["connection"] = "ACCEPTED"
    <3>1. CASE Same("message")
      BY <3>1 DEF NoOrphans, Made
    <3>2. CASE New("message")
      <4>1. Needs(s, "connection", {"ACCEPTED"})
        BY <1>3, <3>2 DEF OfARequest
      <4>2. QED BY <1>5, <4>1, KindsAre, UnmadeAre
    <3>3. QED BY <1>2, <3>1, <3>2, KindsAre
  <2>2. ~ New("connection")
    <3> SUFFICES ASSUME New("connection") PROVE FALSE
      OBVIOUS
    <3>1. \/ s.by = FounderOnly /\ Needs(s, "connection", {"none"})
          \/ Needs(s, "connection", {"PENDING"})
      BY <1>3 DEF OfARequest
    <3>2. siteRows["connection"] \in {"none"} \/ siteRows["connection"] \in {"PENDING"}
      BY <1>5, <1>6, <3>1, KindsAre, UnmadeAre
    <3>3. QED BY <2>1, <3>2
  <2>3. QED BY <1>2, <2>1, <2>2, KindsAre
<1>11. Made("info")' \/ Made("meeting")' => Made("connection")'
  <2> SUFFICES ASSUME NEW row \in {"info", "meeting"}, Made(row)' PROVE Made("connection")'
    OBVIOUS
  <2>1. Made("connection")
    <3>1. CASE Same(row)
      BY <3>1 DEF NoOrphans, Made
    <3>2. CASE New(row)
      <4>1. Needs(s, "connection", Requests)
        BY <1>3, <3>2 DEF OfARequest
      <4>2. Unmade["connection"] \notin Requests
        BY UnmadeAre DEF Requests
      <4>3. QED BY <1>5, <4>1, <4>2, KindsAre
    <3>3. QED BY <1>2, <3>1, <3>2, KindsAre
  <2>2. New("connection") => siteRows'["connection"] # "none"
    BY <1>3 DEF OfARequest
  <2>3. QED BY <1>2, <2>1, <2>2, KindsAre, UnmadeAre DEF Made
<1>12. Made("application")' => Made("job")'
  <2> SUFFICES ASSUME Made("application")' PROVE Made("job")'
    OBVIOUS
  <2>1. Made("job")
    <3>1. CASE Same("application")
      BY <3>1 DEF NoOrphans, Made
    <3>2. CASE New("application")
      <4>1. Needs(s, "job", {"OPEN"}) \/ Needs(s, "application", Answered)
        BY <1>3, <3>2 DEF OfAStartup
      <4>2. Needs(s, "job", {"OPEN"}) => Made("job")
        BY <1>5, KindsAre, UnmadeAre
      <4>3. Needs(s, "application", Answered) => Made("application")
        <5>1. Unmade["application"] \notin Answered
          BY UnmadeAre DEF Answered
        <5>2. QED BY <1>5, <5>1, KindsAre
      <4>4. QED BY <4>1, <4>2, <4>3 DEF NoOrphans
    <3>3. QED BY <1>2, <3>1, <3>2, KindsAre
  <2>2. New("job") => siteRows'["job"] # "none"
    BY <1>3 DEF OfAStartup
  <2>3. QED BY <1>2, <2>1, <2>2, KindsAre, UnmadeAre DEF Made
<1>13. Made("founderReview")' \/ Made("mentorReview")' => siteRows'["booking"] = "ACCEPTED"
  <2> SUFFICES ASSUME NEW row \in {"founderReview", "mentorReview"}, Made(row)'
               PROVE  siteRows'["booking"] = "ACCEPTED"
    OBVIOUS
  <2>1. siteRows["booking"] = "ACCEPTED"
    <3>1. CASE Same(row)
      BY <3>1 DEF NoOrphans, Made
    <3>2. CASE New(row)
      <4>1. Needs(s, "booking", {"ACCEPTED"})
        BY <1>3, <3>2 DEF OfASession
      <4>2. QED BY <1>5, <4>1, KindsAre, UnmadeAre
    <3>3. QED BY <1>2, <3>1, <3>2, KindsAre
  <2>2. ~ New("booking")
    <3> SUFFICES ASSUME New("booking") PROVE FALSE
      OBVIOUS
    <3>1. \/ s.by = FounderOnly /\ Needs(s, "booking", {"none"})
          \/ Needs(s, "booking", {"PENDING"})
      BY <1>3 DEF OfASession
    <3>2. siteRows["booking"] \in {"none"} \/ siteRows["booking"] \in {"PENDING"}
      BY <1>5, <1>6, <3>1, KindsAre, UnmadeAre
    <3>3. QED BY <2>1, <3>2
  <2>3. QED BY <1>2, <2>1, <2>2, KindsAre
(* Who resets a row writes that it is not made. *)
<1>14. ASSUME NEW row \in Kinds, row \in topic, Resets(s, row)
       PROVE  ~ Made(row)'
  <2>1. PICK ch \in s.sets : ch[1] = row /\ ch[2] = Unmade[row]
    BY <1>14 DEF Resets
  <2>2. PICK other \in s.sets : other[1] = row /\ siteRows'[row] = other[2]
    BY <1>1, <1>14, <2>1
  <2>3. ch = other
    BY <1>1, <2>1, <2>2 DEF Kept, OncePerRow
  <2>4. QED BY <2>1, <2>2, <2>3 DEF Made
<1>15. Made("grant")' => Made("document")'
  <2> SUFFICES ASSUME Made("grant")', ~ Made("document")' PROVE FALSE
    OBVIOUS
  <2>1. Made("document")
    <3>1. CASE Same("grant")
      BY <3>1 DEF NoOrphans, Made
    <3>2. CASE New("grant")
      <4>1. \/ Needs(s, "document", {"kept"})
            \/ Needs(s, "grant", {"open", "nda", "revoked"})
            \/ Needs(s, "grant", {"nda"})
        BY <1>3, <3>2, UnmadeAre DEF OfADocument, Made
      <4>2. Made("document") \/ Made("grant")
        BY <1>5, <4>1, KindsAre, UnmadeAre
      <4>3. QED BY <4>2 DEF NoOrphans
    <3>3. QED BY <1>2, <3>1, <3>2, KindsAre
  <2>2. New("document")
    BY <1>2, <2>1, KindsAre DEF Made
  <2>3. Resets(s, "grant") /\ "grant" \in topic
    BY <1>3, <2>2, TopicsAreWhole, UnmadeAre DEF OfADocument, Made, WebTypeOK
  <2>4. QED BY <1>14, <2>3, KindsAre
<1>16. Made("voted")' \/ Made("rsvp")' \/ Made("comment")' => Made("post")'
  <2> SUFFICES ASSUME NEW row \in {"voted", "rsvp", "comment"}, Made(row)', ~ Made("post")'
               PROVE  FALSE
    OBVIOUS
  <2>1. Made("post")
    <3>1. CASE Same(row)
      BY <3>1 DEF NoOrphans, Made
    <3>2. CASE New(row)
      <4>1. Needs(s, "post", {"own", "others"})
        BY <1>3, <3>2 DEF OfAPost, Made
      <4>2. QED BY <1>5, <4>1, KindsAre, UnmadeAre
    <3>3. QED BY <1>2, <3>1, <3>2, KindsAre
  <2>2. New("post")
    BY <1>2, <2>1, KindsAre DEF Made
  <2>3. Resets(s, row) /\ row \in topic
    BY <1>3, <2>2, TopicsAreWhole, UnmadeAre DEF OfAPost, Made, WebTypeOK
  <2>4. QED BY <1>14, <2>3, KindsAre
<1>17. Made("holding")' => Made("deal")'
  <2> SUFFICES ASSUME Made("holding")' PROVE Made("deal")'
    OBVIOUS
  <2>1. Made("deal")
    <3>1. CASE Same("holding")
      BY <3>1 DEF NoOrphans, Made
    <3>2. CASE New("holding")
      <4>1. Needs(s, "deal", {"open", "closed"}) \/ Needs(s, "holding", {"held", "exited"})
        BY <1>3, <3>2 DEF OfAStartup
      <4>2. Made("deal") \/ Made("holding")
        BY <1>5, <4>1, KindsAre, UnmadeAre
      <4>3. QED BY <4>2 DEF NoOrphans
    <3>3. QED BY <1>2, <3>1, <3>2, KindsAre
  <2>2. New("deal") => siteRows'["deal"] # "none"
    BY <1>3 DEF OfAStartup
  <2>3. QED BY <1>2, <2>1, <2>2, KindsAre, UnmadeAre DEF Made
<1>18. QED
  BY <1>9, <1>10, <1>11, <1>12, <1>13, <1>15, <1>16, <1>17 DEF NoOrphans

(* Nobody is on a page of an area the middleware keeps for others: whoever is
   sent somewhere may be there, and who signs in or out is sent to a page that
   is open to all. *)
THEOREM AreasClosed == WebSpec => []AreasAreClosed
<1>1. WebInit => AreasAreClosed
  BY EntriesAreOpen DEF WebInit, AreasAreClosed, Public
<1>2. WebTypeOK /\ WebTypeOK' /\ AreasAreClosed /\ [WebNext]_webVars => AreasAreClosed'
  <2> SUFFICES ASSUME WebTypeOK, WebTypeOK', AreasAreClosed, [WebNext]_webVars PROVE AreasAreClosed'
    OBVIOUS
  <2>0. reader \in Public /\ reader' \in Public
    BY DEF WebTypeOK
  <2>1. CASE SignInAs
    BY <2>0, <2>1, EntriesAreOpen DEF SignInAs, AreasAreClosed
  <2>2. CASE FollowLink
    <3>1. PICK l \in LinksOf(reader, openPage) : openPage' = SentTo(reader, l.to) /\ reader' = reader
      BY <2>2 DEF FollowLink
    <3>2. QED BY <2>0, <3>1, SentWhereAllowed DEF AreasAreClosed
  <2>3. CASE TakeOffer
    BY <2>3 DEF TakeOffer, AreasAreClosed
  <2>4. CASE SignOut
    BY <2>4, EntriesAreOpen DEF SignOut, AreasAreClosed
  <2>5. CASE UNCHANGED webVars
    BY <2>5 DEF AreasAreClosed, webVars
  <2>6. QED BY <2>1, <2>2, <2>3, <2>4, <2>5 DEF WebNext
<1>3. QED BY <1>1, <1>2, WebTyped, PTL DEF WebSpec

(* No row outlives the row it is about, whatever the readers of all roles press
   on all the pages in any order: every entry of the services asks for the row
   it builds on, and takes what hangs on a row away with it. *)
THEOREM NothingOrphaned == WebSpec => []NoOrphans
<1>1. WebInit => NoOrphans
  <2> SUFFICES ASSUME WebInit PROVE NoOrphans
    OBVIOUS
  <2>1. \A row \in Kinds \ {"startup"} : siteRows[row] = Unmade[row]
    BY DEF WebInit, Kinds
  <2>2. \A row \in Kinds \ {"startup"} : ~ Made(row)
    BY <2>1 DEF Made
  <2>3. QED BY <2>2, KindsAre DEF NoOrphans
<1>2. WebTypeOK /\ NoOrphans /\ [WebNext]_webVars => NoOrphans'
  <2>1. ASSUME NoOrphans, UNCHANGED siteRows PROVE NoOrphans'
    BY <2>1 DEF NoOrphans, Made
  <2>2. [WebNext]_webVars => TakeOffer \/ UNCHANGED siteRows
    BY DEF WebNext, SignInAs, FollowLink, SignOut, webVars
  <2>3. QED BY <2>1, <2>2, OrphansStayAway
<1>3. QED BY <1>1, <1>2, WebTyped, PTL DEF WebSpec
------------------------------------------------------------------------------
(* The composition. *)
LEMMA ServicesAreAll ==
  ServicesSpec => /\ PipelineSpec /\ MentoringSpec /\ HiringSpec /\ VerificationSpec /\ CodesSpec
                  /\ MfaSpec /\ NavSpec /\ CacheSpec /\ WebSpec /\ PollsSpec
<1>1. ServicesInit =>
        /\ PipelineInit /\ MentoringInit /\ HiringInit /\ VerificationInit /\ CodesInit
        /\ MfaInit /\ NavInit /\ CacheInit /\ WebInit /\ PollsInit
  BY DEF ServicesInit
<1>2. [ServicesNext]_<<turn, pipelineVars, mentoringVars, hiringVars, verificationVars, codeVars,
                       mfaVars, navVars, cacheVars, webVars, pollVars>> =>
        /\ [PipelineNext]_pipelineVars /\ [MentoringNext]_mentoringVars /\ [HiringNext]_hiringVars
        /\ [VerificationNext]_verificationVars /\ [CodesNext]_codeVars /\ [MfaNext]_mfaVars
        /\ [NavNext]_navVars /\ [CacheNext]_cacheVars /\ [WebNext]_webVars /\ [PollsNext]_pollVars
  BY DEF ServicesNext
<1>3. QED
  BY <1>1, <1>2, PTL
     DEF ServicesSpec, PipelineSpec, MentoringSpec, HiringSpec, VerificationSpec, CodesSpec,
         MfaSpec, NavSpec, CacheSpec, WebSpec, PollsSpec

(* Whichever component a behaviour is about, its variables have their types,
   and what the pages show is of one piece. *)
THEOREM ServicesTyped == ServicesSpec => []ServicesTypeOK
<1>1. /\ MentoringInv => MentoringTypeOK
      /\ HiringInv => HiringTypeOK
      /\ PollsInv => PollsTypeOK
  BY DEF MentoringInv, HiringInv, PollsInv
<1>2. /\ MfaInv => MfaTypeOK
      /\ NavInv => NavTypeOK
      /\ CacheInv => CacheTypeOK
  BY DEF MfaInv, NavInv, CacheInv
<1>3. PipelineTypeOK /\ MentoringTypeOK /\ HiringTypeOK /\ VerificationTypeOK /\ CodesTypeOK
      /\ MfaTypeOK /\ NavTypeOK /\ CacheTypeOK /\ PollsTypeOK
      /\ WebTypeOK /\ AreasAreClosed /\ NoOrphans => ServicesTypeOK
  BY DEF ServicesTypeOK
<1>4. QED
  BY <1>1, <1>2, <1>3, ServicesAreAll, PipelineTypeCorrect, MentoringInvariant, HiringInvariant,
     VerificationTypeCorrect, CodesTypeCorrect, MfaInvariant, NavInvariant, CacheInvariant,
     WebTyped, AreasClosed, NothingOrphaned, PollsInvariant, PTL

(* What was answered, closed or used up stays so, in the composition. *)
THEOREM DoneStays == ServicesSpec => DoneStaysDone
  BY ServicesAreAll, BookingsStay, ClosedTakesNoOne, CodesRunOut, VotesStay DEF DoneStaysDone
==============================================================================

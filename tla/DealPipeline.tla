----------------------------- MODULE DealPipeline -----------------------------
(***************************************************************************)
(* One investor's Kanban board and portfolio: PipelineService and          *)
(* PortfolioService.  Every handler reads the card by id and writes it by  *)
(* the same id later; the card may have moved or gone meanwhile, and a     *)
(* startup that is added again gets a card with a new id.                  *)
(***************************************************************************)
EXTENDS Naturals

CONSTANTS
    Deals,      \* the startups on the board
    DealTabs,   \* bound: requests in flight
    MaxCards    \* bound: cards ever made for one startup

ASSUME DealAssumption == MaxCards \in Nat

VARIABLES
    card,       \* card[s]: the PipelineEntry row; id 0 when there is none
    holding,    \* holding[s]: the Investment row
    made,       \* made[s]: cards made so far, the source of ids
    planted,    \* history: addToPipeline put the card where it stands
    dealReq     \* dealReq[t]: the request of tab t

pipelineVars == <<card, holding, made, planted, dealReq>>

(* "SOURCED" stands for the five open stages, which no code tells apart. *)
Stage == {"SOURCED", "CLOSED", "PASSED"}
Edit == {"drag", "pass", "remove"}
Card == [id : 0..MaxCards, stage : Stage]
NoCard == [id |-> 0, stage |-> "SOURCED"]
DealRequest == [edit : Edit \union {"none"}, deal : Deals, id : 0..MaxCards]

PipelineTypeOK ==
    /\ card \in [Deals -> Card]
    /\ holding \in [Deals -> {"none", "active", "exited"}]
    /\ made \in [Deals -> 0..MaxCards]
    /\ planted \in [Deals -> BOOLEAN]
    /\ dealReq \in [DealTabs -> DealRequest]

PipelineInit ==
    /\ card = [s \in Deals |-> NoCard]
    /\ holding = [s \in Deals |-> "none"]
    /\ made = [s \in Deals |-> 0]
    /\ planted = [s \in Deals |-> FALSE]
    /\ \E s \in Deals :
         dealReq = [t \in DealTabs |-> [edit |-> "none", deal |-> s, id |-> 0]]

OnBoard(s) == card[s].id # 0
Busy(t) == dealReq[t].edit # "none"
Finish(t) == dealReq' = [dealReq EXCEPT ![t] = [@ EXCEPT !.edit = "none", !.id = 0]]
------------------------------------------------------------------------------
(* addToPipeline: one upsert by the pair.  The input may name any stage, and
   no holding is made whatever it is. *)
AddToPipeline(s, stage) ==
    /\ IF OnBoard(s)
         THEN card' = [card EXCEPT ![s].stage = stage] /\ UNCHANGED made
         ELSE /\ made[s] < MaxCards
              /\ made' = [made EXCEPT ![s] = @ + 1]
              /\ card' = [card EXCEPT ![s] = [id |-> made[s] + 1, stage |-> stage]]
    /\ planted' = [planted EXCEPT ![s] = TRUE]
    /\ UNCHANGED <<holding, dealReq>>

(* updateEntry, pass and removeEntry look the card up first. *)
ReadEntry(t, s, edit) ==
    /\ ~ Busy(t)
    /\ OnBoard(s)
    /\ dealReq' = [dealReq EXCEPT ![t] = [edit |-> edit, deal |-> s, id |-> card[s].id]]
    /\ UNCHANGED <<card, holding, made, planted>>

(* The write is by id: it needs the row that was read. *)
Found(t, edit) ==
    /\ dealReq[t].edit = edit
    /\ card[dealReq[t].deal].id = dealReq[t].id

(* Variants carrying a bug: the holding is left out of the transaction; the
   upsert overwrites the row it finds. *)
HoldingNotMade(s, stage) == holding
HoldingAfterReset(s, stage) ==
    IF stage = "CLOSED" THEN [holding EXCEPT ![s] = "active"] ELSE holding

(* The upsert of the Investment row: it exists already, or it is new. *)
HoldingAfter(s, stage) ==
    IF stage = "CLOSED" /\ holding[s] = "none"
    THEN [holding EXCEPT ![s] = "active"]
    ELSE holding

(* updateEntry's transaction: the card and the holding, together.  An edit of
   the notes leaves the stage out. *)
UpdateEntry(t, stage) ==
    LET s == dealReq[t].deal IN
    /\ Found(t, "drag")
    /\ card' = [card EXCEPT ![s].stage = stage]
    /\ holding' = HoldingAfter(s, stage)
    /\ planted' = [planted EXCEPT ![s] = FALSE]
    /\ Finish(t)
    /\ UNCHANGED made
UpdateNotes(t) ==
    /\ Found(t, "drag")
    /\ Finish(t)
    /\ UNCHANGED <<card, holding, made, planted>>

Pass(t) ==
    LET s == dealReq[t].deal IN
    /\ Found(t, "pass")
    /\ card' = [card EXCEPT ![s].stage = "PASSED"]
    /\ planted' = [planted EXCEPT ![s] = FALSE]
    /\ Finish(t)
    /\ UNCHANGED <<holding, made>>

RemoveEntry(t) ==
    LET s == dealReq[t].deal IN
    /\ Found(t, "remove")
    /\ card' = [card EXCEPT ![s] = NoCard]
    /\ planted' = [planted EXCEPT ![s] = FALSE]
    /\ Finish(t)
    /\ UNCHANGED <<holding, made>>

(* The row has gone, or an await fails. *)
Fails(t) ==
    /\ Busy(t)
    /\ Finish(t)
    /\ UNCHANGED <<card, holding, made, planted>>

(* recordExit and setFollowUp: an update by the pair, which needs the row; of
   the two only the exit is told apart here. *)
RecordExit(s) ==
    /\ holding[s] # "none"
    /\ holding' = [holding EXCEPT ![s] = "exited"]
    /\ UNCHANGED <<card, made, planted, dealReq>>

PipelineNext ==
    \/ \E s \in Deals, stage \in Stage : AddToPipeline(s, stage)
    \/ \E s \in Deals : RecordExit(s)
    \/ \E t \in DealTabs :
         \/ \E s \in Deals, edit \in Edit : ReadEntry(t, s, edit)
         \/ \E stage \in Stage : UpdateEntry(t, stage)
         \/ UpdateNotes(t) \/ Pass(t) \/ RemoveEntry(t) \/ Fails(t)

PipelineSpec == PipelineInit /\ [][PipelineNext]_pipelineVars
------------------------------------------------------------------------------
(***************************************************************************)
(* "Reaching CLOSED atomically creates the matching Investment": a card    *)
(* that was moved to CLOSED has its holding whatever ran in between.  One  *)
(* that addToPipeline put there directly is the code's exception.          *)
(***************************************************************************)
ClosedDealsAreHeld ==
    \A s \in Deals :
        card[s].stage = "CLOSED" /\ ~ planted[s] => holding[s] # "none"

(***************************************************************************)
(* The portfolio is a record of what happened: a holding never goes away,  *)
(* and an exit is not undone by closing the deal again or by a request     *)
(* that was under way when it was recorded.  A card that was removed and   *)
(* added again is not touched by requests that read the old one.           *)
(***************************************************************************)
StaleEdit(t, s) == Busy(t) /\ dealReq[t].deal = s /\ dealReq[t].id # card[s].id

HistoryIsKept ==
    [][\A s \in Deals :
          /\ holding[s] # "none" => holding'[s] # "none"
          /\ holding[s] = "exited" => holding'[s] = "exited"
          /\ \A t \in DealTabs :
               StaleEdit(t, s) /\ dealReq'[t] # dealReq[t]
                   => card'[s] = card[s] /\ holding'[s] = holding[s]]_pipelineVars
==============================================================================

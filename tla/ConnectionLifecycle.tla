------------------------- MODULE ConnectionLifecycle -------------------------
(***************************************************************************)
(* What happens to a Connection row once it exists: respond,               *)
(* requestMoreInfo, scheduleMeeting and sendMessage of ConnectionsService, *)
(* called by the two parties (and by strangers) from several tabs at once. *)
(* Each handler reads the row, decides, and only then writes, so a         *)
(* decision may rest on a status another request has replaced.             *)
(***************************************************************************)
EXTENDS Naturals, FiniteSets

CONSTANTS
    Conns,          \* Connection rows
    RecipientTabs,  \* requests the recipients (investors) can have in flight
    RequesterTabs,  \* requests the requesters (founders) can have in flight
    StrangerTabs    \* requests of users that are on neither side

ASSUME CLAssumption ==
    /\ IsFiniteSet(RecipientTabs)
    /\ RecipientTabs \intersect RequesterTabs = {}
    /\ RecipientTabs \intersect StrangerTabs = {}
    /\ RequesterTabs \intersect StrangerTabs = {}

VARIABLES
    status,     \* Connection.status
    info,       \* Connection.infoRequestedAt is set
    messages,   \* messages[c]: the parties that have a Message row in c
    meetings,   \* meetings[c]: the parties that have proposed a Meeting
    notices,    \* notices[c]: <<kind, party>> of every event emitted about c
    audit,      \* audit[c]: statuses with an audit-log row for c
    written,    \* history: how often each answer was written to status
    tab         \* tab[t]: the request running in tab t

rowVars == <<status, info, messages, meetings>>
vars == <<status, info, messages, meetings, notices, audit, written, tab>>

Tabs == RecipientTabs \union RequesterTabs \union StrangerTabs
Party == {"requester", "recipient"}
Answer == {"ACCEPTED", "DECLINED", "IGNORED"}
Status == Answer \union {"PENDING"}
Kind == {"accepted", "info", "meeting", "message"}
Op == {"none", "respond", "info", "meeting", "message"}
Step == {"idle", "write", "lookup", "audit"}

(* answer is what a respond request is about to write. *)
Request == [op : Op, step : Step, conn : Conns, answer : Answer]

TypeOK ==
    /\ status \in [Conns -> Status]
    /\ info \in [Conns -> BOOLEAN]
    /\ messages \in [Conns -> SUBSET Party]
    /\ meetings \in [Conns -> SUBSET Party]
    /\ notices \in [Conns -> SUBSET (Kind \X Party)]
    /\ audit \in [Conns -> SUBSET Answer]
    /\ written \in [Conns -> [Answer -> Nat]]
    /\ tab \in [Tabs -> Request]

Idle(c) == [op |-> "none", step |-> "idle", conn |-> c, answer |-> "IGNORED"]

Init ==
    /\ status = [c \in Conns |-> "PENDING"]
    /\ info = [c \in Conns |-> FALSE]
    /\ messages = [c \in Conns |-> {}]
    /\ meetings = [c \in Conns |-> {}]
    /\ notices = [c \in Conns |-> {}]
    /\ audit = [c \in Conns |-> {}]
    /\ written = [c \in Conns |-> [a \in Answer |-> 0]]
    /\ \E c \in Conns :
          tab = [t \in Tabs |-> Idle(c)]

(* The side of the connection the caller of tab t is on. *)
Side(t) ==
    CASE t \in RecipientTabs -> "recipient"
      [] t \in RequesterTabs -> "requester"
      [] OTHER -> "stranger"
Other(p) == IF p = "requester" THEN "recipient" ELSE "requester"
Member(t) == t \notin StrangerTabs

Goto(t, step) == tab' = [tab EXCEPT ![t].step = step]
Finish(t) == tab' = [tab EXCEPT ![t] = Idle(@.conn)]

Begin(t, op, c, a) ==
    tab' = [tab EXCEPT ![t] =
              [op |-> op, step |-> "write", conn |-> c, answer |-> a]]

------------------------------------------------------------------------------
(* Variant carrying a bug: the status is not looked at. *)
CheckRespondAnytime(t, c, a) ==
    /\ tab[t].step = "idle"
    /\ t \in RecipientTabs
    /\ Begin(t, "respond", c, a)
    /\ UNCHANGED <<rowVars, notices, audit, written>>

(***************************************************************************)
(* The first step of each handler reads the row and checks it; a request   *)
(* that fails its check answers 403 or 409 and changes nothing.            *)
(***************************************************************************)
CheckRespond(t, c, a) ==
    /\ tab[t].step = "idle"
    /\ t \in RecipientTabs
    /\ status[c] = "PENDING"
    /\ Begin(t, "respond", c, a)
    /\ UNCHANGED <<rowVars, notices, audit, written>>

CheckMoreInfo(t, c) ==
    /\ tab[t].step = "idle"
    /\ t \in RecipientTabs
    /\ Begin(t, "info", c, "IGNORED")
    /\ UNCHANGED <<rowVars, notices, audit, written>>

(* assertConnectionMember: the status is deliberately not looked at. *)
CheckMember(t, c) ==
    /\ tab[t].step = "idle"
    /\ Member(t)
    /\ Begin(t, "meeting", c, "IGNORED")
    /\ UNCHANGED <<rowVars, notices, audit, written>>

(* assertCanMessage *)
CanMessage(t, c) == Member(t) /\ status[c] = "ACCEPTED"

CheckCanMessage(t, c) ==
    /\ tab[t].step = "idle"
    /\ CanMessage(t, c)
    /\ Begin(t, "message", c, "IGNORED")
    /\ UNCHANGED <<rowVars, notices, audit, written>>

------------------------------------------------------------------------------
Writing(t, op) == tab[t].step = "write" /\ tab[t].op = op

(* connection.update by id alone: the status read before is not re-checked. *)
WriteAnswer(t) ==
    LET c == tab[t].conn
        a == tab[t].answer IN
    /\ Writing(t, "respond")
    /\ status' = [status EXCEPT ![c] = a]
    /\ written' = [written EXCEPT ![c][a] = @ + 1]
    /\ Goto(t, IF a = "ACCEPTED" THEN "lookup" ELSE "audit")
    /\ UNCHANGED <<info, messages, meetings, notices, audit>>

WriteMoreInfo(t) ==
    /\ Writing(t, "info")
    /\ info' = [info EXCEPT ![tab[t].conn] = TRUE]
    /\ Goto(t, "lookup")
    /\ UNCHANGED <<status, messages, meetings, notices, audit, written>>

WriteMeeting(t) ==
    /\ Writing(t, "meeting")
    /\ meetings' = [meetings EXCEPT ![tab[t].conn] = @ \union {Side(t)}]
    /\ Goto(t, "lookup")
    /\ UNCHANGED <<status, info, messages, notices, audit, written>>

WriteMessage(t) ==
    /\ Writing(t, "message")
    /\ messages' = [messages EXCEPT ![tab[t].conn] = @ \union {Side(t)}]
    /\ Goto(t, "lookup")
    /\ UNCHANGED <<status, info, meetings, notices, audit, written>>

NoticeKind(op) == IF op = "respond" THEN "accepted" ELSE op

(* findUniqueOrThrow of the caller's name, then the event to the other side;
   respond goes on to its audit row, the others return. *)
LookupAndEmit(t) ==
    LET c == tab[t].conn
        op == tab[t].op IN
    /\ tab[t].step = "lookup"
    /\ notices' = [notices EXCEPT ![c] = @ \union {<<NoticeKind(op), Other(Side(t))>>}]
    /\ IF op = "respond" THEN Goto(t, "audit") ELSE Finish(t)
    /\ UNCHANGED <<rowVars, audit, written>>

RecordAudit(t) ==
    /\ tab[t].step = "audit"
    /\ audit' = [audit EXCEPT ![tab[t].conn] = @ \union {tab[t].answer}]
    /\ Finish(t)
    /\ UNCHANGED <<rowVars, notices, written>>

(* Any await may fail, or the process stop: the rest of the handler is lost. *)
Abort(t) ==
    /\ tab[t].step # "idle"
    /\ Finish(t)
    /\ UNCHANGED <<rowVars, notices, audit, written>>

Handler(t) ==
    \/ \E c \in Conns, a \in Answer : CheckRespond(t, c, a)
    \/ \E c \in Conns : CheckMoreInfo(t, c)
    \/ \E c \in Conns : CheckMember(t, c)
    \/ \E c \in Conns : CheckCanMessage(t, c)
    \/ WriteAnswer(t)
    \/ WriteMoreInfo(t)
    \/ WriteMeeting(t)
    \/ WriteMessage(t)
    \/ LookupAndEmit(t)
    \/ RecordAudit(t)
    \/ Abort(t)

Next == \E t \in Tabs : Handler(t)

Spec == Init /\ [][Next]_vars
------------------------------------------------------------------------------
(* Requests that have read c as PENDING and have not written yet. *)
Deciding(c) ==
    {t \in RecipientTabs : Writing(t, "respond") /\ tab[t].conn = c}

Written(c) == {a \in Answer : written[c][a] > 0}

(***************************************************************************)
(* Two answers sent at once may both be written, but no more answers take  *)
(* effect than the investor had requests in flight, and while the status   *)
(* is PENDING none has.                                                    *)
(***************************************************************************)
Writes(c) == written[c]["ACCEPTED"] + written[c]["DECLINED"] + written[c]["IGNORED"]

AnswersBounded ==
    \A c \in Conns :
        /\ Writes(c) <= Cardinality(RecipientTabs)
        /\ status[c] = "PENDING" <=> Writes(c) = 0

(***************************************************************************)
(* Nobody talks over a connection the investor has never accepted, and     *)
(* nobody is told of something the other side did not do: the event goes   *)
(* to the other party, after the write it announces.  The audit log never  *)
(* claims an answer that was not written.                                  *)
(***************************************************************************)
NoticesJustified ==
    \A c \in Conns :
        /\ messages[c] # {} => "ACCEPTED" \in Written(c)
        /\ audit[c] \subseteq Written(c)
        /\ \A n \in notices[c] :
              CASE n[1] = "accepted" -> n[2] = "requester" /\ "ACCEPTED" \in Written(c)
                [] n[1] = "info"     -> n[2] = "requester" /\ info[c]
                [] n[1] = "meeting"  -> Other(n[2]) \in meetings[c]
                [] n[1] = "message"  -> Other(n[2]) \in messages[c]

(* What every state of a conversation is: well formed, with no answer too
   many and no notice, message or audit row without its cause. *)
LifecycleIsSound == TypeOK /\ AnswersBounded /\ NoticesJustified

(***************************************************************************)
(* The handlers implement the promise made to the two parties, although    *)
(* none of them checks again what it has read: an answer can change only   *)
(* until the last request that read PENDING is over, and only parties of a *)
(* connection that was accepted have messages in it.                       *)
(***************************************************************************)
Promise == INSTANCE ConnectionPromise WITH
    open <- [c \in Conns |-> status[c] = "PENDING" \/ Deciding(c) # {}],
    accepted <- [c \in Conns |-> "ACCEPTED" \in Written(c)]

ImplementsPromise == Promise!Spec
==============================================================================

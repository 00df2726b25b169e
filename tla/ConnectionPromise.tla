-------------------------- MODULE ConnectionPromise --------------------------
(***************************************************************************)
(* What a connection promises its two parties, after                       *)
(* docs/12-connect-requests.md: the investor answers, the answer is final  *)
(* once nothing the investor sent is under way any more, and nobody writes *)
(* a message over a connection that was never accepted.                    *)
(***************************************************************************)
CONSTANT Conns

VARIABLES
    status,     \* the answer, or PENDING
    open,       \* the answer can still change
    accepted,   \* the connection was accepted at some time
    messages    \* the parties that have written

vars == <<status, open, accepted, messages>>

Answer == {"ACCEPTED", "DECLINED", "IGNORED"}

Init ==
    /\ status = [c \in Conns |-> "PENDING"]
    /\ open = [c \in Conns |-> TRUE]
    /\ accepted = [c \in Conns |-> FALSE]
    /\ messages = [c \in Conns |-> {}]

(* The investor answers; stillOpen: another answer is under way. *)
Respond(c, a, stillOpen) ==
    /\ open[c]
    /\ status' = [status EXCEPT ![c] = a]
    /\ accepted' = [accepted EXCEPT ![c] = @ \/ a = "ACCEPTED"]
    /\ open' = [open EXCEPT ![c] = stillOpen]
    /\ UNCHANGED messages

(* An answer that was under way fails. *)
Settle(c) ==
    /\ open[c]
    /\ status[c] # "PENDING"
    /\ open' = [open EXCEPT ![c] = FALSE]
    /\ UNCHANGED <<status, accepted, messages>>

Talk(c, p) ==
    /\ accepted[c]
    /\ messages' = [messages EXCEPT ![c] = @ \union {p}]
    /\ UNCHANGED <<status, open, accepted>>

Next == \E c \in Conns :
    \/ \E a \in Answer, stillOpen \in BOOLEAN : Respond(c, a, stillOpen)
    \/ Settle(c)
    \/ \E p \in {"requester", "recipient"} : Talk(c, p)

Spec == Init /\ [][Next]_vars
==============================================================================

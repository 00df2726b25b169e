---------------------------- MODULE AccessPromise ----------------------------
(***************************************************************************)
(* What the data room promises the owner of a document, after the comment  *)
(* on DocumentAccessService: "a revoked/expired grant actually stops       *)
(* access".  A viewer is let in only while the owner's grant stands and    *)
(* its terms are met, once for every link, and nobody is let in from the   *)
(* moment the grant falls.                                                 *)
(***************************************************************************)
EXTENDS Naturals

CONSTANTS
    Docs,
    Viewers,
    Tickets    \* what a viewer can be let in with

VARIABLES
    standing,  \* of the grant: none, waiting for the viewer's consent, open
    inside,    \* inside[d][v]: the tickets v has been let in with
    links      \* links[d][v]: how many links v took

vars == <<standing, inside, links>>

PerViewer(x) == [d \in Docs |-> [v \in Viewers |-> x]]

Init == standing = PerViewer("none") /\ inside = PerViewer({}) /\ links = PerViewer(0)

(* The owner grants, again or for the first time. *)
Grant(d, v) == \E terms \in {"terms", "open"} : standing' = [standing EXCEPT ![d][v] = terms]

(* Whether v had read these terms or those of an earlier grant is not part of
   the promise. *)
AcceptTerms(d, v) ==
    /\ standing[d][v] = "terms"
    /\ standing' = [standing EXCEPT ![d][v] = "open"]

(* Grants are revoked, expire, or go with their document. *)
Fall ==
    \E fallen \in SUBSET (Docs \X Viewers) :
        standing' = [d \in Docs |-> [v \in Viewers |->
            IF <<d, v>> \in fallen THEN "none" ELSE standing[d][v]]]

Enter(d, v, ticket) ==
    /\ standing[d][v] = "open"
    /\ ticket \notin inside[d][v]
    /\ inside' = [inside EXCEPT ![d][v] = @ \union {ticket}]
    /\ UNCHANGED links

(* With the link that v came for, or without it. *)
Leave(d, v, ticket) ==
    /\ ticket \in inside[d][v]
    /\ inside' = [inside EXCEPT ![d][v] = @ \ {ticket}]
    /\ links' = links \/ links' = [links EXCEPT ![d][v] = @ + 1]

Next ==
    \/ /\ UNCHANGED <<inside, links>>
       /\ Fall \/ \E d \in Docs, v \in Viewers : Grant(d, v) \/ AcceptTerms(d, v)
    \/ /\ UNCHANGED standing
       /\ \E d \in Docs, v \in Viewers, ticket \in Tickets : Enter(d, v, ticket) \/ Leave(d, v, ticket)

Spec == Init /\ [][Next]_vars
==============================================================================

--------------------------------- MODULE Polls ---------------------------------
(***************************************************************************)
(* One poll on the community board: members vote, each from several tabs,  *)
(* and its author may remove it.  The key of PollVote allows a member one  *)
(* vote per option; one vote per poll is left to PollsService.             *)
(***************************************************************************)
EXTENDS Naturals, FiniteSets

CONSTANTS
    Members,        \* users that vote
    MemberTabs,     \* bound: requests a member has in flight
    Options         \* the options of the poll

ASSUME PollsAssumption == IsFiniteSet(MemberTabs)

VARIABLES
    poll,           \* the post is "up" or "gone", with its options and votes
    ballots,        \* ballots[m]: the options m has a PollVote row for
    voting          \* voting[m][t]: where a request is, and its option

pollVars == <<poll, ballots, voting>>

Rests == <<"free">>
AtVote == {Rests} \union ({"check", "cast"} \X Options)

PollsTypeOK ==
    /\ poll \in {"up", "gone"}
    /\ ballots \in [Members -> SUBSET Options]
    /\ voting \in [Members -> [MemberTabs -> AtVote]]

PollsInit ==
    /\ poll = "up"
    /\ ballots = [m \in Members |-> {}]
    /\ voting = [m \in Members |-> [t \in MemberTabs |-> Rests]]

MovesOn(m, t, from, to) ==
    /\ voting[m][t] = from
    /\ voting' = [voting EXCEPT ![m][t] = to]
------------------------------------------------------------------------------
(* vote: the option is read ... *)
FindOption(m, t, o) ==
    /\ poll = "up"
    /\ MovesOn(m, t, Rests, <<"check", o>>)
    /\ UNCHANGED <<poll, ballots>>

(* Variant carrying a bug: only a vote for the same option counts. *)
NotVotedForIt(m, o) == o \notin ballots[m]

NotVoted(m, o) == ballots[m] = {}

(* ... then the member's votes in its poll ... *)
CheckVoted(m, t, o) ==
    /\ NotVoted(m, o)
    /\ MovesOn(m, t, <<"check", o>>, <<"cast", o>>)
    /\ UNCHANGED <<poll, ballots>>

(* ... and the row is inserted, if the option is still there. *)
CastVote(m, t, o) ==
    /\ poll = "up"
    /\ o \notin ballots[m]
    /\ ballots' = [ballots EXCEPT ![m] = @ \union {o}]
    /\ MovesOn(m, t, <<"cast", o>>, Rests)
    /\ UNCHANGED poll

(* The check refuses, or a statement fails. *)
VoteFails(m, t, o) ==
    /\ \E at \in {"check", "cast"} : MovesOn(m, t, <<at, o>>, Rests)
    /\ UNCHANGED <<poll, ballots>>

(* PostsService.remove: the options go with the post, the votes with them. *)
RemovePoll ==
    /\ poll = "up"
    /\ poll' = "gone"
    /\ ballots' = [m \in Members |-> {}]
    /\ UNCHANGED voting

PollsNext ==
    \/ RemovePoll
    \/ \E m \in Members, t \in MemberTabs, o \in Options :
          FindOption(m, t, o) \/ CheckVoted(m, t, o) \/ CastVote(m, t, o) \/ VoteFails(m, t, o)

PollsSpec == PollsInit /\ [][PollsNext]_pollVars
------------------------------------------------------------------------------
Casting(m) == {t \in MemberTabs : voting[m][t][1] = "cast"}

(***************************************************************************)
(* "One vote per user per poll", as far as PollsService.vote keeps it: who *)
(* has voted gets no further vote but from a request that was past its     *)
(* check by then, so never more votes than requests he had at work.        *)
(***************************************************************************)
VotesStayCast ==
    [][\A m \in Members :
          /\ ballots[m] # {} /\ Casting(m) = {}
                => ballots'[m] \subseteq ballots[m]
          /\ Cardinality(ballots'[m]) + Cardinality(Casting(m)') <= Cardinality(MemberTabs)]_pollVars
==============================================================================

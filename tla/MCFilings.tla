------------------------------ MODULE MCFilings -------------------------------
(***************************************************************************)
(* Small instances, for TLC, of the two components in which one user files *)
(* something with another: connect requests and relationship claims.  They *)
(* share no state: each behaviour is about one of them, and the other      *)
(* rests in an initial state.                                              *)
(***************************************************************************)
EXTENDS ConnectRequests, RelationshipClaims, TLC

VARIABLE turn    \* the component this behaviour is about

FilingsInit ==
    /\ turn \in {"requests", "claims"}
    /\ Init /\ ClaimsInit
    /\ turn = "claims" =>
          startups = {} /\ plan = CHOOSE p \in [Founders -> Plans] : TRUE

FilingsNext ==
    /\ IF turn = "claims" THEN ClaimsNext ELSE UNCHANGED claimsVars
    /\ IF turn = "requests" THEN Next ELSE UNCHANGED vars
    /\ UNCHANGED turn

FilingsSpec == FilingsInit /\ [][FilingsNext]_<<turn, vars, claimsVars>>

(* The component that moves is in a sound state. *)
FilingsAreSound ==
    /\ turn = "requests" => TypeOK
    /\ turn = "claims" => ClaimsAreTrue

(* The investors are also the profiles of the claims. *)
Symmetry == Permutations(Tabs) \union Permutations(Investors) \union Permutations(Claims)
==============================================================================

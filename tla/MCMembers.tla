------------------------------- MODULE MCMembers -------------------------------
(***************************************************************************)
(* Small instances, for TLC, of what the API keeps of one member: the      *)
(* draft of the onboarding wizard, the refresh tokens, and the scores.     *)
(* They share no state: each behaviour is about one of them, and the       *)
(* others rest in an initial state.                                        *)
(***************************************************************************)
EXTENDS OnboardingDraft, Sessions, Scores, TLC

VARIABLE turn    \* the part this behaviour is about

MembersInit ==
    /\ turn \in {"draft", "sessions", "scores"}
    /\ Init /\ SessionsInit
    /\ ScoresInit /\ (turn # "scores" => scored = CHOOSE k \in ScoreKinds : TRUE)

MembersNext ==
    /\ IF turn = "scores" THEN ScoresNext ELSE UNCHANGED scoreVars
    /\ IF turn = "sessions" THEN SessionsNext ELSE UNCHANGED serverVars
    /\ IF turn = "draft" THEN Next ELSE UNCHANGED vars
    /\ UNCHANGED turn

MembersSpec ==
    MembersInit /\ [][MembersNext]_<<turn, vars, serverVars, scoreVars>>

(* The part that moves is in a sound state. *)
MembersAreSound ==
    /\ turn = "draft" => WizardIsSound
    /\ turn = "sessions" => SessionsTypeOK
    /\ turn = "scores" => ScoresTypeOK

Symmetry == Permutations(Slots)
==============================================================================

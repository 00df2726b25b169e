--------------------------- MODULE OnboardingResume ----------------------------
(***************************************************************************)
(* From the first step of an onboarding wizard to the published profile,   *)
(* with the page reloaded and other devices used on the way.  The store of *)
(* the browser keeps what a step's schema accepted; the server keeps what  *)
(* the form held, saved after an edit and when the step unmounts.  A       *)
(* schema judges field by field, so a behaviour watches one field of one   *)
(* step, any one; the user fills in the others.  Requests are atomic here: *)
(* OnboardingDraft is about their order.                                   *)
(***************************************************************************)
EXTENDS OnboardingForms, Sequences

CONSTANTS
    OnboardingRoles,    \* the roles whose wizard is looked at
    MaxLoads            \* bound: reloads, returns and changes of device

ASSUME ResumeAssumption == OnboardingRoles \subseteq DOMAIN Page /\ MaxLoads \in Nat

VARIABLES
    wizard,     \* the role of the user
    question,   \* the step and the name of the watched field
    shown,      \* the step shown; the founder's review follows the last form
    answer,     \* what the field holds, on the step that has it
    stored,     \* what the store of this browser holds for it
    begun,      \* the store of this browser holds some section
    unsaved,    \* an edit waits for the autosave
    hydrated,   \* the page has seen the server's state since it was loaded
    saved,      \* what the draft on the server holds
    savedStep,  \* UserProfile.onboardingStep; 0 while there is no draft
    live,       \* what was published
    verdict,    \* the last answer to publish
    blanked,    \* history: a reload saved an empty form over the watched section
    behind,     \* history: publish was pressed when the server held less than the forms
    elsewhere,  \* history: another device was used
    loads,      \* history: loads so far
    atLoad      \* history: what the server held when a device was taken up, until the user acts

resumeVars == <<wizard, question, shown, answer, stored, begun, unsaved, hydrated, saved,
                savedStep, live, verdict, blanked, behind, elsewhere, loads, atLoad>>
asked == <<wizard, question>>
outcome == <<live, verdict, behind>>

Pages == Page[wizard]
Home == question[1]
Field == Pages[Home].widgets[question[2]]
Rule == Pages[Home].schema[question[2]]
Final == Len(Pages) + (IF wizard = "FOUNDER" THEN 1 ELSE 0)
OnForm == shown <= Len(Pages)
Here == shown = Home

(* Fields of one step with the same widget and the same rules behave alike:
   one of each kind is watched. *)
Kind(r, i, f) ==
    <<Page[r][i].widgets[f], Page[r][i].schema[f], PublisherOf[r].schema[i][f]>>
Questions(r) ==
    UNION {{ <<i, CHOOSE f \in DOMAIN Page[r][i].widgets : Kind(r, i, f) = kind>> :
                kind \in {Kind(r, i, f) : f \in DOMAIN Page[r][i].widgets} } :
              i \in DOMAIN Page[r]}

(* A form mounts with what the store has, and its own defaults for the rest. *)
Mounted(step, store) ==
    IF step # Home THEN None
    ELSE IF store \in {None, "unset"} THEN Field.start
    ELSE store

ResumeTypeOK ==
    /\ wizard \in OnboardingRoles
    /\ question \in Questions(wizard)
    /\ shown \in 1..Final
    /\ {answer, stored, saved, live} \subseteq Raw \union {None}
    /\ answer = None <=> ~ Here
    /\ atLoad \in Raw \union {None, "gone"}
    /\ savedStep \in 0..Len(Pages)
    /\ verdict \in {None, "accepted", "refused"}
    /\ loads \in 0..MaxLoads
    /\ {begun, unsaved, hydrated, blanked, behind, elsewhere} \subseteq BOOLEAN

ResumeInit ==
    /\ wizard \in OnboardingRoles
    /\ question \in Questions(wizard)
    /\ shown = 1
    /\ stored = None
    /\ begun = FALSE
    /\ answer = Mounted(1, stored)
    /\ unsaved = FALSE
    /\ hydrated = TRUE
    /\ saved = None
    /\ savedStep = 0
    /\ live = None
    /\ verdict = None
    /\ blanked = FALSE
    /\ behind = FALSE
    /\ elsewhere = FALSE
    /\ loads = 0
    /\ atLoad = "gone"

------------------------------------------------------------------------------
(* The user, at the form that is shown, in the watched field or another. *)
Enter ==
    /\ verdict # "accepted"
    /\ OnForm
    /\ answer' \in {answer} \union (IF Here THEN Field.entries ELSE {})
    /\ unsaved' = TRUE
    /\ atLoad' = "gone"
    /\ UNCHANGED <<asked, shown, stored, begun, hydrated, saved, savedStep, outcome, blanked,
                   elsewhere, loads>>

(* Variant carrying a bug: the section replaces the draft. *)
ReplacedBy(filled) == filled

(* saveDraft: the section of the form that is shown is merged into the draft. *)
MergedWith(filled) == IF Here THEN filled ELSE saved

SaveForm ==
    /\ saved' = MergedWith(answer)
    /\ savedStep' = shown
    /\ blanked' = (blanked /\ ~ Here)

Autosave ==
    /\ unsaved
    /\ unsaved' = FALSE
    /\ SaveForm
    /\ UNCHANGED <<asked, shown, answer, stored, begun, hydrated, outcome, elsewhere, loads, atLoad>>

(* Another step is shown: the form that unmounts saves, whatever it holds. *)
ShowStep(step, store) ==
    /\ shown' = step
    /\ stored' = store
    /\ answer' = Mounted(step, store)
    /\ unsaved' = FALSE
    /\ IF OnForm THEN SaveForm ELSE UNCHANGED <<saved, savedStep, blanked>>

Valid == Here => answer \in DOMAIN Rule
Accepted == IF Here THEN Rule[answer] ELSE stored

NextStep ==
    /\ verdict # "accepted"
    /\ shown < Final
    /\ Valid
    /\ ShowStep(shown + 1, Accepted)
    /\ begun' = TRUE
    /\ atLoad' = "gone"
    /\ UNCHANGED <<asked, hydrated, outcome, elsewhere, loads>>

EarlierStep ==
    /\ verdict # "accepted"
    /\ \E step \in 1..(shown - 1) : ShowStep(step, stored)
    /\ atLoad' = "gone"
    /\ UNCHANGED <<asked, begun, hydrated, outcome, elsewhere, loads>>

(* The wizard is mounted again: nothing typed since survives, and the page asks
   for the server's state. *)
MountAgain ==
    /\ verdict # "accepted"
    /\ loads < MaxLoads
    /\ loads' = loads + 1
    /\ unsaved' = FALSE
    /\ hydrated' = FALSE
    /\ UNCHANGED <<asked, outcome>>

(* The browser reloads the page.  The server rendered it, so what mounts first is
   what an empty store shows: the first form, blank.  The step of the store then
   takes its place, and the form that unmounts saves; if it is the first step,
   the blank form stays, and nothing is saved. *)
ReloadPage ==
    /\ MountAgain
    /\ IF shown = 1
       THEN /\ answer' = Mounted(1, None)
            /\ UNCHANGED <<saved, savedStep, blanked>>
       ELSE /\ answer' = Mounted(shown, stored)
            /\ saved' = IF Home = 1 THEN Mounted(1, None) ELSE saved
            /\ savedStep' = 1
            /\ blanked' = (blanked \/ Home = 1)
    /\ atLoad' = "gone"
    /\ UNCHANGED <<shown, stored, begun, elsewhere>>

(* The user signs in again and the app leads back to the wizard: a page of the
   running app mounts with the store, at its step, and saves nothing. *)
ReturnToWizard ==
    /\ MountAgain
    /\ answer' = Mounted(shown, stored)
    /\ atLoad' = "gone"
    /\ UNCHANGED <<shown, stored, begun, saved, savedStep, blanked, elsewhere>>

(* The wizard is opened on another device, whose store is empty. *)
ChangeDevice ==
    /\ MountAgain
    /\ shown' = 1
    /\ stored' = None
    /\ begun' = FALSE
    /\ answer' = Mounted(1, None)
    /\ elsewhere' = TRUE
    /\ atLoad' = saved
    /\ UNCHANGED <<saved, savedStep, blanked>>

(* The server's state arrives.  An empty store takes the draft and its step;
   if that is another step than the first, the first form unmounts, and saves. *)
Hydrate ==
    /\ ~ hydrated
    /\ hydrated' = TRUE
    /\ IF ~ begun /\ savedStep # 0
       THEN /\ begun' = TRUE
            /\ IF savedStep = shown
               THEN /\ stored' = saved
                    /\ UNCHANGED <<shown, answer, unsaved, saved, savedStep, blanked>>
               ELSE ShowStep(savedStep, saved)
       ELSE UNCHANGED <<shown, answer, stored, begun, unsaved, saved, savedStep, blanked>>
    /\ UNCHANGED <<asked, outcome, elsewhere, loads, atLoad>>

------------------------------------------------------------------------------
(* publish: the publisher judges the draft the server has.  The watched field
   may be missing there, because its section is or because it was left out. *)
Judge == PublisherOf[wizard]
PublishRule == Judge.schema[Home][question[2]]
Offered == IF saved = None THEN "unset" ELSE saved
Passes ==
    \/ Home \in Judge.lenient
    \/ /\ Offered \in DOMAIN PublishRule
       /\ saved = None => Home \in Judge.optional
Written ==
    IF Offered \in DOMAIN PublishRule THEN PublishRule[Offered] ELSE PublishRule["unset"]

PublishProfile ==
    /\ verdict # "accepted"
    /\ shown = Final
    /\ Valid
    /\ stored' = Accepted
    /\ begun' = TRUE
    /\ behind' = ((Here /\ saved # answer) \/ blanked)
    /\ IF Passes
       THEN verdict' = "accepted" /\ live' = Written
       ELSE verdict' = "refused" /\ UNCHANGED live
    /\ atLoad' = "gone"
    /\ UNCHANGED <<asked, shown, answer, unsaved, hydrated, saved, savedStep, blanked, elsewhere,
                   loads>>

ResumeNext ==
    \/ Enter
    \/ Autosave
    \/ NextStep
    \/ EarlierStep
    \/ ReloadPage
    \/ ReturnToWizard
    \/ ChangeDevice
    \/ Hydrate
    \/ PublishProfile

ResumeSpec == ResumeInit /\ [][ResumeNext]_resumeVars
------------------------------------------------------------------------------
(***************************************************************************)
(* What the wizard let pass is what gets published: a profile is not       *)
(* refused for an answer once every step was passed, and it goes live with *)
(* the answer as the step's own schema understood it.  Three things are    *)
(* excepted.  Publish may be pressed before the form it is on was saved; a *)
(* reload past the first step may have saved a blank first form, which     *)
(* costs the fields of that form, and no others, until it is passed again; *)
(* and another device may have been used.                                  *)
(***************************************************************************)
PublishFollowsForm ==
    ~ behind /\ ~ elsewhere =>
        /\ verdict # "refused"
        /\ verdict = "accepted" => live = stored

(***************************************************************************)
(* What a reload costs is not lost: however often the page is reloaded,    *)
(* the store of the browser holds, past a step, an answer of the watched   *)
(* field that the publisher takes as it is, so that passing the step again *)
(* repairs the draft.                                                      *)
(***************************************************************************)
StoreKeepsAnswers ==
    ~ elsewhere /\ Home < shown => \E raw \in DOMAIN Rule : stored = Rule[raw]

(* The wizards are in a sound state, publish follows their forms, and a reload
   leaves the store what the forms accepted. *)
FormsAreSound == ResumeTypeOK /\ PublishFollowsForm /\ StoreKeepsAnswers

(***************************************************************************)
(* "The server ... remains the source of truth for resuming on a different *)
(* device": opening the wizard there, and doing nothing, leaves the draft  *)
(* as it was.                                                              *)
(***************************************************************************)
ResumeKeepsAnswers == atLoad # "gone" => saved = atLoad
==============================================================================

---------------------------- MODULE OnboardingDraft ----------------------------
(***************************************************************************)
(* The onboarding wizard: useAutosave and the step components on the       *)
(* client, OnboardingService.saveDraft and publish (with the publishers)   *)
(* on the server.  Each step's answers are saved 800 ms after an edit and  *)
(* once more when the step unmounts; the server merges one section into    *)
(* the JSON draft by reading it and writing it back.                       *)
(***************************************************************************)
EXTENDS Naturals, FiniteSets

CONSTANTS
    LastStep,    \* the last step with answers; the founder's review comes after it
    Required,    \* the sections publish insists on
    Founder,     \* founder flow: a review step, and a check for publishedAt
    Slots,       \* bound: requests the browser has in flight
    MaxEdits,    \* bound: edits of one section
    MaxPublish,  \* bound: times the user presses publish
    Lossy        \* whether a request can fail

ASSUME ODAssumption ==
    /\ IsFiniteSet(Slots)
    /\ LastStep \in Nat /\ Required \subseteq 0..LastStep
    /\ Founder \in BOOLEAN /\ Lossy \in BOOLEAN
    /\ MaxEdits \in Nat /\ MaxPublish \in Nat

VARIABLES
    at,         \* the step shown
    leaving,    \* the wizard was published: "no", "reset" (the store), "gone"
    form,       \* form[s]: the answers of s as last shown (an edit number)
    kept,       \* kept[s]: those in the browser's store, set by a valid submit
    typed,      \* edits of s so far
    visited,    \* steps that have been left
    armed,      \* the debounce timer of the mounted step runs
    presses,    \* publish requests so far
    draft,      \* UserProfile.onboardingDraft: a function on the sections it has
    status,     \* UserProfile.onboardingStatus
    published,  \* the draft the profile tables were written from
    publishes,  \* history: how often they were written
    req,        \* req[r]: the request in slot r
    disturbed   \* history: requests overlapped, or one of them failed

answers == <<form, kept, typed>>
client == <<at, leaving, answers, visited, armed, presses>>
server == <<draft, status, published, publishes>>
vars == <<client, server, req, disturbed>>

Sections == 0..LastStep
Review == LastStep + 1
Last == IF Founder THEN Review ELSE LastStep    \* where publish is pressed
Answers == 0..MaxEdits
Empty == [s \in {} |-> 0]
Drafts == UNION {[D -> Answers] : D \in SUBSET Sections}
Step == {"idle", "sent", "write", "check", "commit", "ok", "failed"}
Idle == [op |-> "none", step |-> "idle", own |-> FALSE, section |-> 0, value |-> 0,
         seen |-> Empty, reviewed |-> Empty]

TypeOK ==
    /\ at \in 0..Last
    /\ leaving \in {"no", "reset", "gone"}
    /\ form \in [Sections -> Answers]
    /\ kept \in [Sections -> Answers]
    /\ typed \in [Sections -> Answers]
    /\ visited \subseteq Sections
    /\ armed \in BOOLEAN
    /\ presses \in 0..MaxPublish
    /\ draft \in Drafts /\ published \in Drafts
    /\ status \in {"NOT_STARTED", "IN_PROGRESS", "COMPLETED"}
    /\ publishes \in 0..MaxPublish
    /\ req \in [Slots -> [op : {"none", "save", "publish"}, step : Step, own : BOOLEAN,
                          section : Sections, value : Answers,
                          seen : Drafts, reviewed : Drafts]]
    /\ disturbed \in BOOLEAN

Init ==
    /\ at = 0
    /\ leaving = "no"
    /\ form = [s \in Sections |-> 0]
    /\ kept = [s \in Sections |-> 0]
    /\ typed = [s \in Sections |-> 0]
    /\ visited = {}
    /\ armed = FALSE
    /\ presses = 0
    /\ draft = Empty
    /\ status = "NOT_STARTED"
    /\ published = Empty
    /\ publishes = 0
    /\ req = [r \in Slots |-> Idle]
    /\ disturbed = FALSE

Free(r) == req[r].step = "idle"
Become(r, q) == req' = [req EXCEPT ![r] = q] /\ UNCHANGED disturbed
(* A request is sent, perhaps while another one is under way. *)
Sending(r, q, others) ==
    /\ Free(r)
    /\ req' = [others EXCEPT ![r] = q]
    /\ disturbed' = (disturbed \/ \E x \in Slots : ~ Free(x))
Send(r, q) == Sending(r, q, req)
Goto(r, step) == Become(r, [req[r] EXCEPT !.step = step])

Save(s, v) == [Idle EXCEPT !.op = "save", !.step = "sent", !.section = s, !.value = v]

(* What the mounted step sent itself shows as pending; a request outlives the
   step, but nothing waits for it then. *)
Pending == \E x \in Slots : req[x].own /\ req[x].step \notin {"ok", "failed"}
Orphaned == [x \in Slots |-> [req[x] EXCEPT !.own = (@ /\ req[x].op = "publish")]]

------------------------------------------------------------------------------
(* The client: an edit arms the timer anew. *)
Edit ==
    /\ leaving = "no"
    /\ at \in Sections
    /\ typed[at] < MaxEdits
    /\ typed' = [typed EXCEPT ![at] = @ + 1]
    /\ form' = [form EXCEPT ![at] = typed[at] + 1]
    /\ armed' = TRUE
    /\ UNCHANGED <<at, leaving, kept, visited, presses, server, req, disturbed>>

Debounced(r) ==
    /\ armed
    /\ leaving # "gone"
    /\ Send(r, [Save(at, form[at]) EXCEPT !.own = TRUE])
    /\ armed' = FALSE
    /\ UNCHANGED <<at, leaving, answers, visited, presses, server>>

(* A step mounts with what the store has of it. *)
Show(step, store) ==
    /\ at' = step
    /\ kept' = store
    /\ form' = IF step \in Sections THEN [form EXCEPT ![step] = store[step]] ELSE form
    /\ visited' = visited \union ({at} \intersect Sections)
    /\ armed' = FALSE
    /\ UNCHANGED <<leaving, typed>>

(* Variant carrying a bug: unmounting clears the timer and nothing else. *)
LeaveUnsaved(r, next, store) ==
    /\ Show(next, store)
    /\ req' = Orphaned
    /\ UNCHANGED <<presses, server, disturbed>>

(* Unmounting clears the timer and always saves. *)
Leave(r, next, store) ==
    /\ Show(next, store)
    /\ Sending(r, Save(at, form[at]), Orphaned)
    /\ UNCHANGED <<presses, server>>

(* "Continue" keeps the answers the schema accepted and goes on; it is
   disabled while the step's own save runs. *)
Continue(r) ==
    /\ leaving = "no"
    /\ at \in Sections
    /\ at < Last
    /\ ~ Pending
    /\ Leave(r, at + 1, [kept EXCEPT ![at] = form[at]])

(* "Back" and the list of steps lead to any earlier step, and keep nothing. *)
GoBack(r) ==
    /\ leaving = "no"
    /\ at \in Sections
    /\ \E s \in Sections : s < at /\ Leave(r, s, kept)

BackFromReview ==
    /\ leaving = "no"
    /\ at = Review
    /\ \E s \in Sections : Show(s, kept)
    /\ UNCHANGED <<presses, server, req, disturbed>>

(* Publish is pressed on the review step, which shows the store, or on the
   short flows' last step, which keeps its answers first; there the button
   waits for the step's own requests and the timer keeps running.  The server
   ignores the answers in the body; reviewed is history: what was shown. *)
PressPublish(r) ==
    /\ leaving = "no"
    /\ at = Last
    /\ Founder \/ ~ Pending
    /\ presses < MaxPublish
    /\ presses' = presses + 1
    /\ kept' = IF Founder THEN kept ELSE [kept EXCEPT ![at] = form[at]]
    /\ Send(r, [Idle EXCEPT !.op = "publish", !.step = "sent", !.own = TRUE,
                           !.reviewed = kept'])
    /\ UNCHANGED <<at, leaving, form, typed, visited, armed, server>>

(* On success, wherever the user has gone meanwhile, reset() empties the store
   and shows step 0, so any other mounted step unmounts and saves. *)
PublishResolved(r) ==
    /\ req[r].step = "ok"
    /\ leaving = "no"
    /\ leaving' = "reset"
    /\ at' = 0
    /\ kept' = [s \in Sections |-> 0]
    /\ form' = IF at = 0 THEN form ELSE [form EXCEPT ![0] = 0]
    /\ armed' = (armed /\ at = 0)
    /\ Become(r, IF at \in Sections \ {0} THEN Save(at, form[at]) ELSE Idle)
    /\ UNCHANGED <<typed, visited, presses, server>>

(* Then the router leaves the wizard, and step 0 unmounts. *)
LeaveWizard(r) ==
    /\ leaving = "reset"
    /\ leaving' = "gone"
    /\ armed' = FALSE
    /\ Send(r, Save(0, form[0]))
    /\ UNCHANGED <<at, answers, visited, presses, server>>

Discard(r) ==
    /\ \/ req[r].step = "failed"
       \/ req[r].step = "ok" /\ leaving # "no"
    /\ Become(r, Idle)
    /\ UNCHANGED <<client, server>>

------------------------------------------------------------------------------
(* The server.  saveDraft reads the whole draft ... *)
ReadDraft(r) ==
    /\ req[r].step = "sent"
    /\ req[r].op = "save"
    /\ Become(r, [req[r] EXCEPT !.step = "write", !.seen = draft])
    /\ UNCHANGED <<client, server>>

(* Variant carrying a bug: the section replaces the draft. *)
Replace(seen, s, v) == [x \in {s} |-> v]

(* ... and writes back what it has read, with its own section replaced. *)
Merge(seen, s, v) ==
    [x \in DOMAIN seen \union {s} |-> IF x = s THEN v ELSE seen[x]]

WriteDraft(r) ==
    /\ req[r].step = "write"
    /\ draft' = Merge(req[r].seen, req[r].section, req[r].value)
    /\ status' = "IN_PROGRESS"
    /\ Become(r, Idle)
    /\ UNCHANGED <<client, published, publishes>>

(* A request fails on its way or at a read; the transaction takes effect
   entirely or not at all. *)
RequestFails(r) ==
    /\ Lossy
    /\ req[r].step \in {"sent", "write", "check", "commit"}
    /\ req' = [req EXCEPT ![r] = Idle]
    /\ disturbed' = TRUE
    /\ UNCHANGED <<client, server>>

(* publish parses the draft it reads, then looks for publishedAt, and only
   then opens the transaction. *)
ReadForPublish(r) ==
    /\ req[r].step = "sent"
    /\ req[r].op = "publish"
    /\ Become(r, [req[r] EXCEPT !.seen = draft,
                                !.step = IF Required \subseteq DOMAIN draft THEN "check" ELSE "failed"])
    /\ UNCHANGED <<client, server>>

CheckUnpublished(r) ==
    /\ req[r].step = "check"
    /\ Goto(r, IF Founder /\ publishes > 0 THEN "failed" ELSE "commit")
    /\ UNCHANGED <<client, server>>

CommitPublish(r) ==
    /\ req[r].step = "commit"
    /\ published' = req[r].seen
    /\ publishes' = publishes + 1
    /\ status' = "COMPLETED"
    /\ draft' = Empty
    /\ Goto(r, "ok")
    /\ UNCHANGED client

Next ==
    \/ Edit
    \/ BackFromReview
    \/ \E r \in Slots :
          \/ Debounced(r)
          \/ Continue(r)
          \/ GoBack(r)
          \/ PressPublish(r)
          \/ PublishResolved(r)
          \/ LeaveWizard(r)
          \/ Discard(r)
          \/ ReadDraft(r)
          \/ WriteDraft(r)
          \/ RequestFails(r)
          \/ ReadForPublish(r)
          \/ CheckUnpublished(r)
          \/ CommitPublish(r)

Spec == Init /\ [][Next]_vars
------------------------------------------------------------------------------
Quiet == ~ armed /\ \A r \in Slots : Free(r)

(***************************************************************************)
(* As long as saves do not overlap and none fails, every step that was     *)
(* left is in the draft as it was last shown, whether or not it was        *)
(* edited: no answer is lost on the way to publish.                        *)
(***************************************************************************)
NothingLost ==
    Quiet /\ ~ disturbed /\ publishes = 0 =>
        \A s \in visited \ {at} : s \in DOMAIN draft /\ draft[s] = form[s]

(***************************************************************************)
(* Under the same condition a profile goes live with the answers the user  *)
(* was looking at when they pressed publish.                               *)
(***************************************************************************)
PublishedIsLatest ==
    [][\A r \in Slots :
          ~ disturbed /\ publishes' # publishes /\ req[r].step = "commit" /\ req'[r].step = "ok"
              => published' = req[r].reviewed]_vars

(***************************************************************************)
(* However requests overlap and fail, the server holds no answer that was  *)
(* never typed, COMPLETED means that the profile exists and no draft is    *)
(* left, and no profile lacks a required section.                          *)
(***************************************************************************)
DraftIsSound ==
    /\ \A s \in DOMAIN draft : draft[s] <= typed[s]
    /\ status = "COMPLETED" => publishes > 0 /\ draft = Empty
    /\ publishes > 0 => Required \subseteq DOMAIN published
    /\ status = "NOT_STARTED" => draft = Empty

(* What every state of the wizard is: well formed, with nothing lost that the
   user typed and nothing on the server that they did not. *)
WizardIsSound == TypeOK /\ DraftIsSound /\ NothingLost

(* "someone who already finished onboarding goes to their dashboard": the
   comment of the page that looks at the status. *)
FinishedStaysFinished == leaving = "gone" /\ Quiet => status = "COMPLETED"
==============================================================================

----------------------------- MODULE MembersProofs -----------------------------
(***************************************************************************)
(* What is proved of one member's onboarding draft, for any sections,      *)
(* edits and overlaps, and of the instance that puts it beside the         *)
(* member's sessions and scores.                                           *)
(***************************************************************************)
EXTENDS MCMembers, SessionsProofs

------------------------------------------------------------------------------
(* The onboarding draft. *)
(* Requests that may still publish, and requests that are under way. *)
Publishing == {r \in Slots : req[r].op = "publish" /\ req[r].step \in {"sent", "check", "commit"}}
Busy == {r \in Slots : ~ Free(r)}

(* What a request carries was typed, and a publish that goes on has read all
   it needs. *)
WizardRequestOK(q) ==
    /\ q.op = "none" => q.step \in {"idle", "failed"}
    /\ q.op = "save" => q.step \in {"sent", "write"}
    /\ q.op = "publish" => q.step \in {"sent", "check", "commit", "ok", "failed"}
    /\ q.op = "save" => q.value <= typed[q.section]
    /\ \A s \in DOMAIN q.seen : q.seen[s] <= typed[s]
    /\ q.step \in {"check", "commit"} => Required \subseteq DOMAIN q.seen
    /\ q.step = "ok" => publishes > 0

(* Nobody has more answers than were typed, and no profile is published more
   often than asked for. *)
ClientOK ==
    /\ \A s \in Sections : form[s] <= typed[s] /\ kept[s] <= typed[s]
    /\ publishes + Cardinality(Publishing) <= presses
    /\ leaving # "no" => publishes > 0
    /\ armed => at \in Sections

(* While nothing overlaps, one request is under way, the first profile is
   still to be published, or its answer is about to close the wizard. *)
OneAtATime ==
    /\ \A r, x \in Busy : r = x
    /\ leaving = "no" /\ publishes > 0 => \E r \in Slots : req[r].step = "ok"
    /\ \A r \in Publishing : publishes = 0

(* A step that was left is in the draft, or its save is under way; a save of
   it, whenever sent, has its last answers, and writes back the draft that is
   there. *)
Written(s) == s \in DOMAIN draft /\ draft[s] = form[s]
UnderWay(s) == \E r \in Slots : req[r].op = "save" /\ req[r].section = s /\ req[r].value = form[s]
NothingDrops ==
    /\ \A s \in visited \ {at} : Written(s) \/ UnderWay(s)
    /\ \A r \in Slots : req[r].op = "save" /\ req[r].section \in visited \ {at}
                           => req[r].value = form[req[r].section]
    /\ \A r \in Slots : req[r].step = "write" => req[r].seen = draft

(* The steps before the one shown were left with "Continue". *)
StepsBefore ==
    leaving = "no" => \A s \in Sections : s < at => s \in visited /\ kept[s] = form[s]

WizardInv ==
    /\ TypeOK
    /\ DraftIsSound
    /\ \A r \in Slots : WizardRequestOK(req[r])
    /\ ClientOK
    /\ StepsBefore
    /\ ~ disturbed => OneAtATime
    /\ ~ disturbed /\ publishes = 0 => NothingDrops

(* What the review step shows is what a publish will read, or has read. *)
ReviewedIsRead ==
    ~ disturbed => \A r \in Publishing :
        IF req[r].step = "sent" THEN draft = req[r].reviewed ELSE req[r].seen = req[r].reviewed

WizardRequests ==
    [op : {"none", "save", "publish"}, step : Step, own : BOOLEAN,
     section : Sections, value : Answers, seen : Drafts, reviewed : Drafts]

LEMMA SomeSlots ==
  ASSUME NEW A \in SUBSET Slots
  PROVE  /\ Cardinality(A) \in Nat
         /\ \A r \in A : Cardinality(A \ {r}) = Cardinality(A) - 1
         /\ \A r \in Slots : Cardinality(A \ {r}) <= Cardinality(A) /\ Cardinality(A \ {r}) \in Nat
         /\ \A r \in Slots : r \notin A => Cardinality(A \union {r}) = Cardinality(A) + 1
<1>1. IsFiniteSet(A)
  BY ODAssumption, FS_Subset
<1>2. /\ Cardinality(A) \in Nat
      /\ \A r \in A : Cardinality(A \ {r}) = Cardinality(A) - 1
  BY <1>1, FS_CardinalityType, FS_RemoveElement
<1>3. ASSUME NEW r \in Slots
      PROVE  Cardinality(A \ {r}) <= Cardinality(A) /\ Cardinality(A \ {r}) \in Nat
  BY <1>1, FS_Subset, FS_CardinalityType
<1>4. ASSUME NEW r \in Slots, r \notin A
      PROVE  Cardinality(A \union {r}) = Cardinality(A) + 1
  BY <1>1, <1>4, FS_AddElement
<1>5. QED BY <1>2, <1>3, <1>4

LEMMA DraftIs ==
  ASSUME NEW d \in Drafts
  PROVE  DOMAIN d \subseteq Sections /\ \A s \in DOMAIN d : d[s] \in Answers
  BY DEF Drafts

LEMMA EmptyIs == Empty \in Drafts /\ DOMAIN Empty = {}
<1>1. DOMAIN Empty = {}
  BY DEF Empty
<1>2. Empty \in [{} -> Answers]
  BY DEF Empty
<1>3. {} \in SUBSET Sections
  OBVIOUS
<1>4. QED BY <1>1, <1>2, <1>3 DEF Drafts

(* What one section's save makes of the draft it has read. *)
LEMMA MergeIs ==
  ASSUME NEW d \in Drafts, NEW s \in Sections, NEW v \in Answers
  PROVE  /\ Merge(d, s, v) \in Drafts
         /\ DOMAIN Merge(d, s, v) = DOMAIN d \union {s}
         /\ Merge(d, s, v)[s] = v
         /\ \A t \in DOMAIN d \ {s} : Merge(d, s, v)[t] = d[t]
<1>1. DOMAIN Merge(d, s, v) = DOMAIN d \union {s}
  BY DEF Merge
<1>2. \A t \in DOMAIN d \union {s} : Merge(d, s, v)[t] = IF t = s THEN v ELSE d[t]
  BY DEF Merge
<1>3. Merge(d, s, v) \in [DOMAIN d \union {s} -> Answers]
  BY <1>2, DraftIs DEF Merge
<1>4. DOMAIN d \union {s} \in SUBSET Sections
  BY DraftIs
<1>5. Merge(d, s, v) \in Drafts
  BY <1>3, <1>4 DEF Drafts
<1>6. QED BY <1>1, <1>2, <1>5

LEMMA Numbers ==
  /\ Sections \subseteq Nat /\ 0 \in Sections /\ Answers \subseteq Nat /\ 0 \in Answers
  /\ Review \notin Sections /\ Last \in Nat /\ Last \in Sections \union {Review}
  /\ Sections \subseteq 0..Last
  /\ (\A n \in 0..Last : n \in Sections \/ (n = Review /\ Last = Review))
  /\ (\A n \in 0..Last : n < Last => n \in Sections)
  /\ (Founder => Last = Review) /\ (~ Founder => Last \in Sections) /\ (\A s \in Sections : s < Review)
<1> USE ODAssumption DEF Sections, Answers, Review
<1>1. /\ Sections \subseteq Nat /\ 0 \in Sections /\ Answers \subseteq Nat /\ 0 \in Answers
      /\ Review \notin Sections
  OBVIOUS
<1>2. CASE Founder
  <2>1. Last = LastStep + 1
    BY <1>2 DEF Last
  <2>2. QED BY <1>1, <1>2, <2>1
<1>3. CASE ~ Founder
  <2>1. Last = LastStep
    BY <1>3 DEF Last
  <2>2. QED BY <1>1, <1>3, <2>1
<1>4. QED BY <1>2, <1>3

LEMMA IdleIs == /\ Idle \in WizardRequests /\ Idle.op = "none" /\ Idle.step = "idle"
                /\ Idle.own = FALSE /\ DOMAIN Idle.seen = {}
<1>1. Idle \in WizardRequests
  BY EmptyIs, Numbers DEF Idle, WizardRequests, Step
<1>2. QED BY <1>1, EmptyIs DEF Idle

LEMMA SaveIs ==
  ASSUME NEW s \in Sections, NEW v \in Answers
  PROVE  /\ Save(s, v) \in WizardRequests
         /\ Save(s, v).op = "save" /\ Save(s, v).step = "sent"
         /\ Save(s, v).section = s /\ Save(s, v).value = v /\ DOMAIN Save(s, v).seen = {}
<1>1. Save(s, v) = [op |-> "save", step |-> "sent", own |-> FALSE, section |-> s, value |-> v,
                    seen |-> Empty, reviewed |-> Empty]
  <2> DEFINE i == Idle
  <2>1. i = [op |-> "none", step |-> "idle", own |-> FALSE, section |-> 0, value |-> 0,
             seen |-> Empty, reviewed |-> Empty]
    BY DEF Idle
  <2>2. Save(s, v) = [i EXCEPT !.op = "save", !.step = "sent", !.section = s, !.value = v]
    BY DEF Save
  <2> HIDE DEF i
  <2>3. QED BY <2>1, <2>2
<1>2. QED BY <1>1, EmptyIs DEF WizardRequests, Step

(* The fields of a request that orphaning leaves alone. *)
Same(p, q) == /\ p.op = q.op /\ p.step = q.step /\ p.section = q.section
              /\ p.value = q.value /\ p.seen = q.seen /\ p.reviewed = q.reviewed

LEMMA OrphanedIs ==
  ASSUME TypeOK
  PROVE  Orphaned \in [Slots -> WizardRequests] /\ \A x \in Slots : Same(Orphaned[x], req[x])
<1>1. ASSUME NEW x \in Slots
      PROVE  Orphaned[x] \in WizardRequests /\ Same(Orphaned[x], req[x])
  <2>1. req[x] \in WizardRequests
    BY DEF TypeOK, WizardRequests
  <2>2. Orphaned[x] = [req[x] EXCEPT !.own = (@ /\ req[x].op = "publish")]
    BY DEF Orphaned
  <2>3. req[x] = [op |-> req[x].op, step |-> req[x].step, own |-> req[x].own,
                  section |-> req[x].section, value |-> req[x].value,
                  seen |-> req[x].seen, reviewed |-> req[x].reviewed]
    BY <2>1 DEF WizardRequests
  <2>4. Orphaned[x] = [op |-> req[x].op, step |-> req[x].step,
                       own |-> (req[x].own /\ req[x].op = "publish"),
                       section |-> req[x].section, value |-> req[x].value,
                       seen |-> req[x].seen, reviewed |-> req[x].reviewed]
    BY <2>2, <2>3
  <2>5. (req[x].own /\ req[x].op = "publish") \in BOOLEAN
    OBVIOUS
  <2>6. QED BY <2>1, <2>4, <2>5 DEF WizardRequests, Same
<1>2. Orphaned \in [Slots -> WizardRequests]
  BY <1>1 DEF Orphaned
<1>3. QED BY <1>1, <1>2

LEMMA WizardTyped ==
  ASSUME TypeOK
  PROVE  req \in [Slots -> WizardRequests] /\ \A r \in Slots : req[r] \in WizardRequests
  BY DEF TypeOK, WizardRequests

(* One request moves on: the others stay, though they may be orphaned. *)
OthersStay(r) == \A x \in Slots \ {r} : Same(req'[x], req[x])

LEMMA Becoming ==
  ASSUME TypeOK, NEW r \in Slots, NEW q \in WizardRequests, Become(r, q)
  PROVE  /\ req' \in [Slots -> WizardRequests] /\ req'[r] = q
         /\ OthersStay(r) /\ disturbed' = disturbed
  BY WizardTyped DEF Become, OthersStay, Same

LEMMA Overlapping ==
  ASSUME TypeOK, NEW r \in Slots, NEW q \in WizardRequests,
         Sending(r, q, req) \/ Sending(r, q, Orphaned)
  PROVE  /\ req' \in [Slots -> WizardRequests] /\ req'[r] = q
         /\ OthersStay(r) /\ Free(r) /\ disturbed' \in BOOLEAN
         /\ ~ disturbed' => ~ disturbed /\ \A x \in Slots : req[x].step = "idle"
<1>1. PICK others \in [Slots -> WizardRequests] :
          Sending(r, q, others) /\ \A x \in Slots : Same(others[x], req[x])
  BY WizardTyped, OrphanedIs DEF Same
<1>2. /\ req[r].step = "idle" /\ req' = [others EXCEPT ![r] = q]
      /\ disturbed' = (disturbed \/ \E x \in Slots : req[x].step # "idle")
  BY <1>1 DEF Sending, Free
<1>3. req' \in [Slots -> WizardRequests] /\ req'[r] = q /\ OthersStay(r)
  BY <1>1, <1>2 DEF OthersStay
<1>4. disturbed \in BOOLEAN
  BY DEF TypeOK
<1>5. QED BY <1>2, <1>3, <1>4 DEF Free

(* The requests that stay are as good as they were: edits and profiles only
   add up. *)
LEMMA OthersOK ==
  ASSUME WizardInv, NEW r \in Slots, OthersStay(r), req' \in [Slots -> WizardRequests],
         WizardRequestOK(req[r])', typed' \in [Sections -> Answers],
         \A s \in Sections : typed[s] <= typed'[s],
         publishes' \in Nat, publishes <= publishes'
  PROVE  \A x \in Slots : WizardRequestOK(req[x])'
<1> SUFFICES ASSUME NEW x \in Slots, x # r
             PROVE  WizardRequestOK(req[x])'
  OBVIOUS
<1>1. Same(req'[x], req[x]) /\ WizardRequestOK(req[x])
  BY DEF WizardInv, OthersStay
<1>2. /\ req[x] \in WizardRequests /\ typed \in [Sections -> Answers] /\ publishes \in Nat
      /\ req[x].section \in Sections /\ req[x].value \in Answers /\ req[x].seen \in Drafts
  BY WizardTyped DEF WizardInv, TypeOK, WizardRequests
<1>3. \A s \in Sections : typed[s] \in Nat /\ typed'[s] \in Nat
  BY <1>2, Numbers
<1>4. \A s \in DOMAIN req[x].seen : s \in Sections /\ req[x].seen[s] \in Nat
  BY <1>2, DraftIs, Numbers
<1>5. req[x].value \in Nat
  BY <1>2, Numbers
<1>6. /\ (req[x].op = "save" => req[x].value <= typed'[req[x].section])
      /\ \A s \in DOMAIN req[x].seen : req[x].seen[s] <= typed'[s]
  BY <1>1, <1>2, <1>3, <1>4, <1>5 DEF WizardRequestOK
<1>7. QED BY <1>1, <1>2, <1>6 DEF WizardRequestOK, Same

(* Whether the one request that moves may publish decides how many may. *)
LEMMA PublishingMoves ==
  ASSUME TypeOK, NEW r \in Slots, OthersStay(r), req' \in [Slots -> WizardRequests]
  PROVE  /\ Cardinality(Publishing) \in Nat
         /\ r \in Publishing /\ r \in Publishing' => Cardinality(Publishing') = Cardinality(Publishing)
         /\ r \notin Publishing /\ r \notin Publishing' => Cardinality(Publishing') = Cardinality(Publishing)
         /\ r \in Publishing /\ r \notin Publishing' => Cardinality(Publishing') = Cardinality(Publishing) - 1
         /\ r \notin Publishing /\ r \in Publishing' => Cardinality(Publishing') = Cardinality(Publishing) + 1
<1>1. \A x \in Slots \ {r} : x \in Publishing' <=> x \in Publishing
  BY DEF OthersStay, Same, Publishing
<1>2. Publishing \in SUBSET Slots /\ Publishing' \in SUBSET Slots
  BY DEF Publishing
<1>3. /\ r \in Publishing /\ r \in Publishing' => Publishing' = Publishing
      /\ r \notin Publishing /\ r \notin Publishing' => Publishing' = Publishing
      /\ r \in Publishing /\ r \notin Publishing' => Publishing' = Publishing \ {r}
      /\ r \notin Publishing /\ r \in Publishing' => Publishing' = Publishing \union {r}
  BY <1>1, <1>2
<1>4. QED BY <1>2, <1>3, SomeSlots

(* Steps of one request that change nothing but that request. *)
LEMMA RequestStep ==
  ASSUME WizardInv, NEW r \in Slots, UNCHANGED <<client, server>>,
         req' \in [Slots -> WizardRequests], OthersStay(r), WizardRequestOK(req[r])',
         r \in Publishing' => r \in Publishing,
         disturbed' \in BOOLEAN,
         ~ disturbed' =>
            /\ ~ disturbed
            /\ req'[r].step # "idle" => req[r].step # "idle"
            /\ leaving = "no" /\ req[r].step = "ok" => req'[r].step = "ok"
            /\ req'[r].op = "save" \/ req[r].op = "save" =>
                  req'[r].op = req[r].op /\ req'[r].section = req[r].section
                  /\ req'[r].value = req[r].value
            /\ req'[r].step = "write" => req'[r].seen = draft
  PROVE  WizardInv'
<1> USE DEF client, server, answers
<1>0. TypeOK
  BY DEF WizardInv
<1>1. TypeOK'
  BY <1>0 DEF TypeOK, WizardRequests
<1>2. DraftIsSound'
  BY DEF WizardInv, DraftIsSound
<1>3. \A x \in Slots : WizardRequestOK(req[x])'
  <2>1. \A s \in Sections : typed[s] \in Nat
    BY <1>0, Numbers DEF TypeOK
  <2>2. publishes \in Nat /\ typed \in [Sections -> Answers]
    BY <1>0 DEF TypeOK
  <2>3. QED BY <2>1, <2>2, OthersOK
<1>4. ClientOK'
  <2>1. ClientOK /\ publishes \in Nat /\ presses \in Nat
    BY <1>0 DEF WizardInv, TypeOK
  <2>2. Cardinality(Publishing) \in Nat /\ Cardinality(Publishing)' <= Cardinality(Publishing)
        /\ Cardinality(Publishing)' \in Nat
    <3>1. Cardinality(Publishing)' \in Nat
      BY SomeSlots DEF Publishing
    <3>2. QED BY <1>0, <3>1, PublishingMoves
  <2>3. publishes + Cardinality(Publishing)' <= presses
    BY <2>1, <2>2 DEF ClientOK
  <2>4. QED BY <2>1, <2>3 DEF ClientOK
<1>5. StepsBefore'
  BY DEF WizardInv, StepsBefore
<1>6. ASSUME ~ disturbed' PROVE OneAtATime'
  <2>1. OneAtATime /\ Busy' \subseteq Busy /\ Publishing' \subseteq Publishing
    BY <1>6 DEF WizardInv, OthersStay, Same, Busy, Free, Publishing
  <2>2. leaving' = "no" /\ publishes' > 0 => \E x \in Slots : req'[x].step = "ok"
    BY <1>6, <2>1 DEF OneAtATime, OthersStay, Same
  <2>3. QED BY <2>1, <2>2 DEF OneAtATime
<1>7. ASSUME ~ disturbed', publishes' = 0 PROVE NothingDrops'
  <2>1. NothingDrops
    BY <1>7 DEF WizardInv
  <2>2. \A x \in Slots : req'[x].op = "save" \/ req[x].op = "save" =>
            req'[x].op = req[x].op /\ req'[x].section = req[x].section /\ req'[x].value = req[x].value
    BY <1>7 DEF OthersStay, Same
  <2>3. \A x \in Slots : req'[x].step = "write" => req'[x].seen = draft
    BY <1>7, <2>1 DEF OthersStay, Same, NothingDrops
  <2>4. ASSUME NEW s PROVE (Written(s) \/ UnderWay(s)) => (Written(s) \/ UnderWay(s))'
    BY <2>2 DEF Written, UnderWay
  <2>5. QED BY <2>1, <2>2, <2>3, <2>4 DEF NothingDrops
<1>8. QED BY <1>1, <1>2, <1>3, <1>4, <1>5, <1>6, <1>7 DEF WizardInv

LEMMA ReadDraftStep ==
  ASSUME WizardInv, NEW r \in Slots, ReadDraft(r)
  PROVE  WizardInv'
<1> DEFINE q == [req[r] EXCEPT !.step = "write", !.seen = draft]
<1>0. TypeOK /\ req[r] \in WizardRequests /\ draft \in Drafts /\ WizardRequestOK(req[r])
  BY WizardTyped DEF WizardInv, TypeOK
<1>1. /\ q \in WizardRequests /\ q.step = "write" /\ q.seen = draft /\ q.op = req[r].op
      /\ q.section = req[r].section /\ q.value = req[r].value
  BY <1>0 DEF WizardRequests, Step
<1>2. /\ req[r].step = "sent" /\ req[r].op = "save" /\ Become(r, q) /\ UNCHANGED <<client, server>>
  BY DEF ReadDraft
<1> HIDE DEF q
<1>3. /\ req' \in [Slots -> WizardRequests] /\ req'[r] = q
      /\ OthersStay(r) /\ disturbed' = disturbed
  BY <1>0, <1>1, <1>2, Becoming
<1>4. UNCHANGED <<typed, publishes>>
  BY <1>2 DEF client, server, answers
<1>5. \A s \in DOMAIN draft : draft[s] <= typed[s]
  BY DEF WizardInv, DraftIsSound
<1>6. WizardRequestOK(req[r])'
  BY <1>0, <1>1, <1>2, <1>3, <1>4, <1>5 DEF WizardRequestOK
<1>7. r \notin Publishing' /\ disturbed' \in BOOLEAN
  BY <1>0, <1>1, <1>2, <1>3 DEF Publishing, TypeOK
<1>8. QED BY <1>1, <1>2, <1>3, <1>6, <1>7, RequestStep

LEMMA ReadForPublishStep ==
  ASSUME WizardInv, NEW r \in Slots, ReadForPublish(r)
  PROVE  WizardInv'
<1> DEFINE q == [req[r] EXCEPT !.seen = draft,
                               !.step = IF Required \subseteq DOMAIN draft THEN "check" ELSE "failed"]
<1>0. TypeOK /\ req[r] \in WizardRequests /\ draft \in Drafts /\ WizardRequestOK(req[r])
  BY WizardTyped DEF WizardInv, TypeOK
<1>1. /\ q \in WizardRequests /\ q.step \in {"check", "failed"}
      /\ q.step = "check" => Required \subseteq DOMAIN draft
      /\ q.seen = draft /\ q.op = req[r].op
  BY <1>0 DEF WizardRequests, Step
<1>2. /\ req[r].step = "sent" /\ req[r].op = "publish" /\ Become(r, q) /\ UNCHANGED <<client, server>>
  BY DEF ReadForPublish
<1> HIDE DEF q
<1>3. /\ req' \in [Slots -> WizardRequests] /\ req'[r] = q
      /\ OthersStay(r) /\ disturbed' = disturbed
  BY <1>0, <1>1, <1>2, Becoming
<1>4. UNCHANGED <<typed, publishes>>
  BY <1>2 DEF client, server, answers
<1>5. \A s \in DOMAIN draft : draft[s] <= typed[s]
  BY DEF WizardInv, DraftIsSound
<1>6. WizardRequestOK(req[r])'
  BY <1>0, <1>1, <1>2, <1>3, <1>4, <1>5 DEF WizardRequestOK
<1>7. r \in Publishing /\ disturbed' \in BOOLEAN
  BY <1>0, <1>2, <1>3 DEF Publishing, TypeOK
<1>8. QED BY <1>1, <1>2, <1>3, <1>6, <1>7, RequestStep

LEMMA CheckUnpublishedStep ==
  ASSUME WizardInv, NEW r \in Slots, CheckUnpublished(r)
  PROVE  WizardInv'
<1> DEFINE q == [req[r] EXCEPT !.step = IF Founder /\ publishes > 0 THEN "failed" ELSE "commit"]
<1>0. TypeOK /\ req[r] \in WizardRequests /\ WizardRequestOK(req[r])
  BY WizardTyped DEF WizardInv, TypeOK
<1>1. /\ q \in WizardRequests /\ q.step \in {"commit", "failed"}
      /\ q.seen = req[r].seen /\ q.op = req[r].op
  BY <1>0 DEF WizardRequests, Step
<1>2. /\ req[r].step = "check" /\ Become(r, q) /\ UNCHANGED <<client, server>>
  BY DEF CheckUnpublished, Goto
<1> HIDE DEF q
<1>3. /\ req' \in [Slots -> WizardRequests] /\ req'[r] = q
      /\ OthersStay(r) /\ disturbed' = disturbed
  BY <1>0, <1>1, <1>2, Becoming
<1>4. UNCHANGED <<typed, publishes>> /\ req[r].op = "publish"
  BY <1>0, <1>2 DEF client, server, answers, WizardRequestOK, WizardRequests
<1>5. WizardRequestOK(req[r])'
  BY <1>0, <1>1, <1>2, <1>3, <1>4 DEF WizardRequestOK
<1>6. r \in Publishing /\ disturbed' \in BOOLEAN
  BY <1>0, <1>2, <1>3, <1>4 DEF Publishing, TypeOK
<1>7. QED BY <1>1, <1>2, <1>3, <1>4, <1>5, <1>6, RequestStep

LEMMA IdleOK == WizardRequestOK(Idle) /\ WizardRequestOK(Idle)'
  BY IdleIs DEF WizardRequestOK, Idle, Empty

LEMMA DiscardStep ==
  ASSUME WizardInv, NEW r \in Slots, Discard(r)
  PROVE  WizardInv'
<1>0. TypeOK /\ req[r] \in WizardRequests /\ WizardRequestOK(req[r])
  BY WizardTyped DEF WizardInv
<1>1. /\ req[r].step = "failed" \/ (req[r].step = "ok" /\ leaving # "no")
      /\ Become(r, Idle) /\ UNCHANGED <<client, server>>
  BY DEF Discard
<1>2. /\ req' \in [Slots -> WizardRequests] /\ req'[r] = Idle
      /\ OthersStay(r) /\ disturbed' = disturbed
  BY <1>0, <1>1, IdleIs, Becoming
<1>3. req[r].op # "save" /\ r \notin Publishing' /\ disturbed' \in BOOLEAN
  BY <1>0, <1>1, <1>2, IdleIs DEF WizardRequestOK, Publishing, TypeOK
<1>4. WizardRequestOK(req[r])'
  BY <1>2, IdleOK DEF WizardRequestOK
<1>5. QED BY <1>1, <1>2, <1>3, <1>4, IdleIs, RequestStep

LEMMA RequestFailsStep ==
  ASSUME WizardInv, NEW r \in Slots, RequestFails(r)
  PROVE  WizardInv'
<1>0. TypeOK
  BY DEF WizardInv
<1>1. /\ req' = [req EXCEPT ![r] = Idle] /\ disturbed' = TRUE /\ UNCHANGED <<client, server>>
  BY DEF RequestFails
<1>2. req' \in [Slots -> WizardRequests] /\ req'[r] = Idle /\ OthersStay(r)
  BY <1>0, <1>1, IdleIs, WizardTyped DEF OthersStay, Same
<1>3. r \notin Publishing'
  BY <1>2, IdleIs DEF Publishing
<1>4. WizardRequestOK(req[r])'
  BY <1>2, IdleOK DEF WizardRequestOK
<1>5. QED BY <1>1, <1>2, <1>3, <1>4, RequestStep

LEMMA TypedNat == TypeOK => \A s \in Sections : typed[s] \in Nat /\ typed[s] <= typed[s]
<1> SUFFICES ASSUME TypeOK, NEW s \in Sections
             PROVE  typed[s] \in Nat /\ typed[s] <= typed[s]
  OBVIOUS
<1>1. typed[s] \in Answers
  BY DEF TypeOK
<1>2. typed[s] \in Nat
  BY <1>1, Numbers
<1>3. QED BY <1>2

LEMMA WriteDraftStep ==
  ASSUME WizardInv, NEW r \in Slots, WriteDraft(r)
  PROVE  WizardInv'
<1> DEFINE s == req[r].section
           v == req[r].value
           d == req[r].seen
<1>0. /\ TypeOK /\ req[r] \in WizardRequests /\ WizardRequestOK(req[r])
      /\ s \in Sections /\ v \in Answers /\ d \in Drafts
  BY WizardTyped DEF WizardInv, WizardRequests
<1>1. /\ req[r].step = "write" /\ draft' = Merge(d, s, v) /\ status' = "IN_PROGRESS"
      /\ Become(r, Idle) /\ UNCHANGED <<client, published, publishes>>
  BY DEF WriteDraft
<1>2. req[r].op = "save" /\ v <= typed[s] /\ \A t \in DOMAIN d : d[t] <= typed[t]
  BY <1>0, <1>1 DEF WizardRequestOK, WizardRequests
<1> HIDE DEF s, v, d
<1>3. /\ req' \in [Slots -> WizardRequests] /\ req'[r] = Idle
      /\ OthersStay(r) /\ disturbed' = disturbed
  BY <1>0, <1>1, IdleIs, Becoming
<1>4. /\ draft' \in Drafts /\ DOMAIN draft' = DOMAIN d \union {s} /\ draft'[s] = v
      /\ \A t \in DOMAIN d \ {s} : draft'[t] = d[t]
  <2>1. /\ Merge(d, s, v) \in Drafts /\ DOMAIN Merge(d, s, v) = DOMAIN d \union {s}
        /\ Merge(d, s, v)[s] = v /\ \A t \in DOMAIN d \ {s} : Merge(d, s, v)[t] = d[t]
    BY <1>0, MergeIs, ZenonT(40)
  <2>2. QED BY <1>1, <2>1
<1>5. UNCHANGED <<at, leaving, form, kept, typed, visited, armed, presses, published, publishes>>
  BY <1>1 DEF client, answers
<1>6. TypeOK'
  BY <1>0, <1>1, <1>3, <1>4, <1>5 DEF TypeOK, WizardRequests
<1>7. DraftIsSound'
  <2>1. \A t \in DOMAIN draft' : draft'[t] <= typed[t]
    BY <1>2, <1>4
  <2>2. publishes > 0 => Required \subseteq DOMAIN published
    BY DEF WizardInv, DraftIsSound
  <2>3. QED BY <1>1, <1>5, <2>1, <2>2 DEF DraftIsSound
<1>8. \A x \in Slots : WizardRequestOK(req[x])'
  <2>1. WizardRequestOK(req[r])'
    BY <1>3, IdleOK DEF WizardRequestOK
  <2>2. typed' \in [Sections -> Answers] /\ publishes' \in Nat /\ publishes <= publishes'
        /\ \A t \in Sections : typed[t] <= typed'[t]
    BY <1>0, <1>5, TypedNat DEF TypeOK
  <2>3. QED BY <1>3, <2>1, <2>2, OthersOK
<1>9. ClientOK'
  <2>1. r \notin Publishing /\ r \notin Publishing'
    BY <1>2, <1>3, IdleIs DEF Publishing
  <2>2. Cardinality(Publishing)' = Cardinality(Publishing)
    BY <1>0, <1>3, <2>1, PublishingMoves
  <2>3. QED BY <1>5, <2>2 DEF WizardInv, ClientOK
<1>10. StepsBefore'
  BY <1>5 DEF WizardInv, StepsBefore
<1>11. ASSUME ~ disturbed' PROVE OneAtATime'
  <2>1. /\ OneAtATime /\ Busy' \subseteq Busy /\ Publishing' \subseteq Publishing
        /\ req[r].step # "ok"
    BY <1>1, <1>3, <1>11, IdleIs DEF WizardInv, OthersStay, Same, Busy, Free, Publishing
  <2>2. leaving = "no" /\ publishes > 0 => \E x \in Slots : req'[x].step = "ok"
    BY <2>1, <1>3 DEF OneAtATime, OthersStay, Same
  <2>3. QED BY <1>5, <2>1, <2>2 DEF OneAtATime
<1>12. ASSUME ~ disturbed', publishes' = 0 PROVE NothingDrops'
  <2>1. NothingDrops /\ OneAtATime
    BY <1>3, <1>5, <1>12 DEF WizardInv
  <2>2. \A x \in Slots \ {r} : req[x].step = "idle"
    BY <1>1, <2>1 DEF OneAtATime, Busy, Free
  <2>3. \A x \in Slots : req'[x].step = "idle"
    BY <1>3, <2>2, IdleIs DEF OthersStay, Same
  <2>4. \A x \in Slots : req'[x].op # "save" /\ req'[x].step # "write"
    BY <1>8, <2>3 DEF WizardRequestOK
  <2>5. d = draft
    BY <1>1, <2>1 DEF NothingDrops, d
  <2>6. s \in visited \ {at} => v = form[s]
    BY <1>2, <2>1 DEF NothingDrops, s, v
  <2>7. \A x \in Slots \ {r} : req[x].op # "save"
    BY <2>2 DEF WizardInv, WizardRequestOK
  <2>8. ASSUME NEW t \in visited \ {at} PROVE Written(t)'
    <3>1. CASE t = s
      BY <1>4, <1>5, <2>6, <2>8, <3>1 DEF Written
    <3>2. CASE t # s
      <4>1. ~ UnderWay(t)
        BY <2>7, <3>2 DEF UnderWay, s
      <4>2. Written(t)
        BY <2>1, <4>1 DEF NothingDrops
      <4>3. QED BY <1>4, <1>5, <2>5, <3>2, <4>2 DEF Written
    <3>3. QED BY <3>1, <3>2
  <2>9. QED BY <1>5, <2>4, <2>8 DEF NothingDrops
<1>13. QED BY <1>6, <1>7, <1>8, <1>9, <1>10, <1>11, <1>12 DEF WizardInv

LEMMA CommitPublishStep ==
  ASSUME WizardInv, NEW r \in Slots, CommitPublish(r)
  PROVE  WizardInv'
<1> DEFINE q == [req[r] EXCEPT !.step = "ok"]
<1>0. /\ TypeOK /\ req[r] \in WizardRequests /\ WizardRequestOK(req[r])
      /\ req[r].seen \in Drafts /\ publishes \in Nat /\ presses \in 0..MaxPublish
  BY WizardTyped DEF WizardInv, WizardRequests, TypeOK
<1>1. /\ req[r].step = "commit" /\ published' = req[r].seen /\ publishes' = publishes + 1
      /\ status' = "COMPLETED" /\ draft' = Empty /\ Become(r, q) /\ UNCHANGED client
  BY DEF CommitPublish, Goto
<1>2. req[r].op = "publish" /\ Required \subseteq DOMAIN req[r].seen
  BY <1>0, <1>1 DEF WizardRequestOK, WizardRequests
<1>3. /\ q \in WizardRequests /\ q.step = "ok" /\ q.op = "publish" /\ q.seen = req[r].seen
  BY <1>0, <1>2 DEF WizardRequests, Step
<1> HIDE DEF q
<1>4. /\ req' \in [Slots -> WizardRequests] /\ req'[r] = q
      /\ OthersStay(r) /\ disturbed' = disturbed
  BY <1>0, <1>1, <1>3, Becoming
<1>5. UNCHANGED <<at, leaving, form, kept, typed, visited, armed, presses>>
  BY <1>1 DEF client, answers
<1>6. publishes' + Cardinality(Publishing)' <= presses /\ publishes' \in 0..MaxPublish
  <2>1. r \in Publishing /\ r \notin Publishing'
    BY <1>1, <1>2, <1>3, <1>4 DEF Publishing
  <2>2. /\ Cardinality(Publishing)' = Cardinality(Publishing) - 1
        /\ Cardinality(Publishing) \in Nat /\ Cardinality(Publishing)' \in Nat
    BY <1>0, <1>4, <2>1, PublishingMoves, SomeSlots DEF Publishing
  <2>3. publishes + Cardinality(Publishing) <= presses
    BY DEF WizardInv, ClientOK
  <2>4. publishes' + Cardinality(Publishing)' <= presses
    BY <1>0, <1>1, <2>2, <2>3
  <2>5. QED BY <1>0, <1>1, <2>2, <2>4, ODAssumption
<1>7. TypeOK'
  BY <1>0, <1>1, <1>4, <1>5, <1>6, EmptyIs DEF TypeOK, WizardRequests
<1>8. DraftIsSound'
  BY <1>0, <1>1, <1>2, EmptyIs DEF DraftIsSound
<1>9. \A x \in Slots : WizardRequestOK(req[x])'
  <2>1. \A t \in DOMAIN q.seen : q.seen[t] <= typed[t]
    BY <1>0, <1>3 DEF WizardRequestOK
  <2>2. WizardRequestOK(req[r])'
    BY <1>0, <1>1, <1>3, <1>4, <1>5, <2>1 DEF WizardRequestOK
  <2>3. typed' \in [Sections -> Answers] /\ publishes' \in Nat /\ publishes <= publishes'
        /\ \A t \in Sections : typed[t] <= typed'[t]
    BY <1>0, <1>1, <1>5, TypedNat DEF TypeOK
  <2>4. QED BY <1>4, <2>2, <2>3, OthersOK
<1>10. ClientOK'
  BY <1>0, <1>1, <1>5, <1>6 DEF WizardInv, ClientOK
<1>11. StepsBefore'
  BY <1>5 DEF WizardInv, StepsBefore
<1>12. ASSUME ~ disturbed' PROVE OneAtATime'
  <2>1. /\ OneAtATime /\ Busy' \subseteq Busy /\ r \in Busy
    BY <1>1, <1>4, <1>12 DEF WizardInv, OthersStay, Same, Busy, Free
  <2>2. Publishing' = {}
    <3>1. \A x \in Slots \ {r} : req'[x].step = "idle"
      BY <1>4, <2>1 DEF OneAtATime, Busy, Free, OthersStay, Same
    <3>2. QED BY <1>3, <1>4, <3>1 DEF Publishing
  <2>3. \E x \in Slots : req'[x].step = "ok"
    BY <1>3, <1>4
  <2>4. QED BY <2>1, <2>2, <2>3 DEF OneAtATime
<1>13. publishes' # 0
  BY <1>0, <1>1
<1>14. QED BY <1>7, <1>8, <1>9, <1>10, <1>11, <1>12, <1>13 DEF WizardInv

LEMMA EditStep ==
  ASSUME WizardInv, Edit
  PROVE  WizardInv'
<1>0. TypeOK
  BY DEF WizardInv
<1>1. /\ leaving = "no" /\ at \in Sections /\ typed[at] < MaxEdits
      /\ typed' = [typed EXCEPT ![at] = @ + 1] /\ form' = [form EXCEPT ![at] = typed[at] + 1]
      /\ armed' = TRUE
      /\ UNCHANGED <<at, leaving, kept, visited, presses, req, disturbed>>
      /\ UNCHANGED <<draft, status, published, publishes>>
  BY DEF Edit, server
<1>2. /\ typed[at] \in Nat /\ typed[at] + 1 \in Answers
  BY <1>0, <1>1, ODAssumption, Numbers DEF TypeOK, Answers
<1>3. /\ typed' \in [Sections -> Answers] /\ form' \in [Sections -> Answers]
      /\ typed'[at] = typed[at] + 1 /\ form'[at] = typed[at] + 1
      /\ \A s \in Sections \ {at} : typed'[s] = typed[s] /\ form'[s] = form[s]
  BY <1>0, <1>1, <1>2 DEF TypeOK
<1>4. \A s \in Sections : typed[s] \in Nat /\ typed'[s] \in Nat /\ form[s] \in Nat /\ kept[s] \in Nat
  BY <1>0, <1>3, Numbers DEF TypeOK
<1>5. \A s \in Sections : typed[s] <= typed'[s]
  BY <1>2, <1>3, <1>4
<1>6. TypeOK'
  BY <1>0, <1>1, <1>3 DEF TypeOK
<1>7. DraftIsSound'
  <2>1. \A s \in DOMAIN draft : s \in Sections /\ draft[s] \in Nat /\ draft[s] <= typed[s]
    BY <1>0, DraftIs, Numbers DEF WizardInv, DraftIsSound, TypeOK
  <2>2. \A s \in DOMAIN draft : draft[s] <= typed'[s]
    BY <1>4, <1>5, <2>1
  <2>3. QED BY <1>1, <2>2 DEF WizardInv, DraftIsSound
<1>8. ASSUME NEW x \in Slots PROVE WizardRequestOK(req[x])'
  <2>1. OthersStay(x) /\ req' \in [Slots -> WizardRequests]
    BY <1>0, <1>1, WizardTyped DEF OthersStay, Same
  <2>2. /\ req[x] \in WizardRequests /\ req[x].section \in Sections /\ req[x].value \in Nat
        /\ req[x].seen \in Drafts
    BY <1>0, WizardTyped, Numbers DEF WizardRequests
  <2>3. WizardRequestOK(req[x])
    BY DEF WizardInv
  <2>4. \A s \in DOMAIN req[x].seen : s \in Sections /\ req[x].seen[s] \in Nat
    BY <2>2, DraftIs, Numbers
  <2>5. /\ req[x].op = "save" => req[x].value <= typed'[req[x].section]
        /\ \A s \in DOMAIN req[x].seen : req[x].seen[s] <= typed'[s]
    BY <1>4, <1>5, <2>2, <2>3, <2>4 DEF WizardRequestOK
  <2>6. QED BY <1>1, <2>3, <2>5 DEF WizardRequestOK
<1>9. ClientOK'
  <2>1. Publishing' = Publishing
    BY <1>1 DEF Publishing
  <2>2. ClientOK
    BY DEF WizardInv
  <2>3. \A s \in Sections : form'[s] <= typed'[s] /\ kept[s] <= typed'[s]
    BY <1>2, <1>3, <1>4, <1>5, <2>2 DEF ClientOK
  <2>4. QED BY <1>1, <2>1, <2>2, <2>3 DEF ClientOK
<1>10. StepsBefore'
  <2>1. \A s \in Sections : s < at => s # at
    BY <1>1, Numbers
  <2>2. QED BY <1>1, <1>3, <2>1 DEF WizardInv, StepsBefore
<1>11. ~ disturbed' => OneAtATime'
  BY <1>1 DEF WizardInv, OneAtATime, Busy, Free, Publishing
<1>12. ASSUME ~ disturbed', publishes' = 0 PROVE NothingDrops'
  <2>1. NothingDrops /\ visited \subseteq Sections
    BY <1>0, <1>1, <1>12 DEF WizardInv, TypeOK
  <2>2. \A s \in visited \ {at} : form'[s] = form[s]
    BY <1>3, <2>1
  <2>3. ASSUME NEW s \in visited \ {at}, Written(s) \/ UnderWay(s)
        PROVE  Written(s)' \/ UnderWay(s)'
    BY <1>1, <2>2, <2>3 DEF Written, UnderWay
  <2>4. QED BY <1>1, <2>1, <2>2, <2>3 DEF NothingDrops
<1>13. QED BY <1>6, <1>7, <1>8, <1>9, <1>10, <1>11, <1>12 DEF WizardInv

(* The browser sends a request: all are in order, and unless it overlaps
   another one, it is the only one, and the profile is not published yet. *)
LEMMA Sent ==
  ASSUME WizardInv, NEW r \in Slots, NEW q \in WizardRequests,
         Sending(r, q, req) \/ Sending(r, q, Orphaned),
         q.step = "sent", q.op \in {"save", "publish"},
         q.op = "save" => q.value <= typed[q.section], DOMAIN q.seen = {},
         q.op = "publish" => leaving = "no", leaving' = "no" => leaving = "no",
         UNCHANGED <<typed, publishes, draft>>
  PROVE  /\ req' \in [Slots -> WizardRequests] /\ req'[r] = q /\ disturbed' \in BOOLEAN
         /\ \A x \in Slots : WizardRequestOK(req[x])'
         /\ Cardinality(Publishing)' = Cardinality(Publishing) + (IF q.op = "publish" THEN 1 ELSE 0)
         /\ Cardinality(Publishing) \in Nat
         /\ ~ disturbed' =>
               /\ OneAtATime' /\ ~ disturbed
               /\ \A x \in Slots \ {r} : req'[x].op = "none" /\ req'[x].step = "idle"
               /\ publishes = 0 => \A s \in visited \ {at} : Written(s)
<1>0. TypeOK /\ publishes \in Nat /\ typed \in [Sections -> Answers]
  BY DEF WizardInv, TypeOK
<1>1. /\ req' \in [Slots -> WizardRequests] /\ req'[r] = q
      /\ OthersStay(r) /\ Free(r) /\ disturbed' \in BOOLEAN
      /\ ~ disturbed' => ~ disturbed /\ \A x \in Slots : req[x].step = "idle"
  BY <1>0, Overlapping
<1>2. \A x \in Slots : WizardRequestOK(req[x])'
  <2>1. WizardRequestOK(req[r])'
    BY <1>1 DEF WizardRequestOK
  <2>2. typed' \in [Sections -> Answers] /\ publishes' \in Nat /\ publishes <= publishes'
        /\ \A t \in Sections : typed[t] <= typed'[t]
    BY <1>0, TypedNat
  <2>3. QED BY <1>1, <2>1, <2>2, OthersOK
<1>3. /\ Cardinality(Publishing)' = Cardinality(Publishing) + (IF q.op = "publish" THEN 1 ELSE 0)
      /\ Cardinality(Publishing) \in Nat
  <2>1. r \notin Publishing /\ (r \in Publishing' <=> q.op = "publish")
    BY <1>1 DEF Publishing, Free
  <2>2. Cardinality(Publishing) \in Nat
    BY <1>0, <1>1, PublishingMoves
  <2>3. CASE q.op = "publish"
    BY <1>0, <1>1, <2>1, <2>2, <2>3, PublishingMoves
  <2>4. CASE q.op # "publish"
    BY <1>0, <1>1, <2>1, <2>2, <2>4, PublishingMoves
  <2>5. QED BY <2>2, <2>3, <2>4
<1>4. ASSUME ~ disturbed'
      PROVE  /\ OneAtATime' /\ ~ disturbed
             /\ \A x \in Slots \ {r} : req'[x].op = "none" /\ req'[x].step = "idle"
             /\ publishes = 0 => \A s \in visited \ {at} : Written(s)
  <2>1. /\ ~ disturbed /\ OneAtATime
        /\ \A x \in Slots : req[x].step = "idle" /\ WizardRequestOK(req[x]) /\ req[x] \in WizardRequests
    BY <1>0, <1>1, <1>4, WizardTyped DEF WizardInv
  <2>2. \A x \in Slots : req[x].op = "none"
    BY <2>1 DEF WizardRequestOK, WizardRequests
  <2>3. \A x \in Slots \ {r} : req'[x].op = "none" /\ req'[x].step = "idle"
    BY <1>1, <2>1, <2>2 DEF OthersStay, Same
  <2>4. leaving = "no" => publishes = 0
    BY <1>0, <2>1 DEF OneAtATime
  <2>5. OneAtATime'
    <3>1. \A x \in Busy' : x = r
      BY <2>3 DEF Busy, Free
    <3>2. \A x \in Publishing' : x = r
      BY <2>3 DEF Publishing
    <3>3. Publishing' # {} => q.op = "publish"
      BY <1>1, <3>2 DEF Publishing
    <3>4. QED BY <2>4, <3>1, <3>3 DEF OneAtATime
  <2>6. ASSUME publishes = 0, NEW s \in visited \ {at} PROVE Written(s)
    <3>1. ~ UnderWay(s) /\ NothingDrops
      BY <2>1, <2>2, <2>6 DEF UnderWay, WizardInv
    <3>2. QED BY <3>1 DEF NothingDrops
  <2>7. QED BY <2>1, <2>3, <2>5, <2>6
<1>5. QED BY <1>1, <1>2, <1>3, <1>4

LEMMA DebouncedStep ==
  ASSUME WizardInv, NEW r \in Slots, Debounced(r)
  PROVE  WizardInv'
<1> DEFINE q == [Save(at, form[at]) EXCEPT !.own = TRUE]
<1>0. TypeOK /\ ClientOK /\ DraftIsSound /\ StepsBefore
  BY DEF WizardInv
<1>1. /\ armed /\ Sending(r, q, req) /\ armed' = FALSE
      /\ UNCHANGED <<at, leaving, form, kept, typed, visited, presses>>
      /\ UNCHANGED <<draft, status, published, publishes>>
  BY DEF Debounced, Send, answers, server
<1>2. at \in Sections /\ form[at] \in Answers /\ form[at] <= typed[at]
  BY <1>0, <1>1 DEF ClientOK, TypeOK
<1>3. /\ q \in WizardRequests /\ q.op = "save" /\ q.step = "sent"
      /\ q.section = at /\ q.value = form[at] /\ DOMAIN q.seen = {}
  <2> DEFINE p == Save(at, form[at])
  <2>1. /\ p \in WizardRequests /\ p.op = "save" /\ p.step = "sent"
        /\ p.section = at /\ p.value = form[at] /\ DOMAIN p.seen = {}
    BY <1>2, SaveIs
  <2>2. q = [p EXCEPT !.own = TRUE]
    OBVIOUS
  <2> HIDE DEF p, q
  <2>3. QED BY <2>1, <2>2 DEF WizardRequests
<1> HIDE DEF q
<1>4. /\ req' \in [Slots -> WizardRequests] /\ req'[r] = q /\ disturbed' \in BOOLEAN
      /\ \A x \in Slots : WizardRequestOK(req[x])'
      /\ Cardinality(Publishing)' = Cardinality(Publishing)
      /\ ~ disturbed' =>
            /\ OneAtATime' /\ ~ disturbed
            /\ \A x \in Slots \ {r} : req'[x].op = "none" /\ req'[x].step = "idle"
            /\ publishes = 0 => \A s \in visited \ {at} : Written(s)
  BY <1>1, <1>2, <1>3, Sent
<1>5. TypeOK'
  BY <1>0, <1>1, <1>4 DEF TypeOK, WizardRequests
<1>6. DraftIsSound' /\ ClientOK' /\ StepsBefore'
  BY <1>0, <1>1, <1>4 DEF DraftIsSound, ClientOK, StepsBefore
<1>7. ASSUME ~ disturbed', publishes' = 0 PROVE NothingDrops'
  <2>1. \A s \in visited \ {at} : Written(s)'
    BY <1>1, <1>4, <1>7 DEF Written
  <2>2. \A x \in Slots : req'[x].step # "write" /\ (req'[x].op = "save" => req'[x].section = at)
    BY <1>3, <1>4, <1>7
  <2>3. QED BY <1>1, <2>1, <2>2 DEF NothingDrops
<1>8. QED BY <1>4, <1>5, <1>6, <1>7 DEF WizardInv

LEMMA LeaveWizardStep ==
  ASSUME WizardInv, NEW r \in Slots, LeaveWizard(r)
  PROVE  WizardInv'
<1> DEFINE q == Save(0, form[0])
<1>0. TypeOK /\ ClientOK /\ DraftIsSound
  BY DEF WizardInv
<1>1. /\ leaving = "reset" /\ leaving' = "gone" /\ armed' = FALSE /\ Sending(r, q, req)
      /\ UNCHANGED <<at, form, kept, typed, visited, presses>>
      /\ UNCHANGED <<draft, status, published, publishes>>
  BY DEF LeaveWizard, Send, answers, server
<1>2. 0 \in Sections /\ form[0] \in Answers /\ form[0] <= typed[0]
  BY <1>0, Numbers DEF ClientOK, TypeOK
<1>3. /\ q \in WizardRequests /\ q.op = "save" /\ q.step = "sent"
      /\ q.section = 0 /\ q.value = form[0] /\ DOMAIN q.seen = {}
  BY <1>2, SaveIs
<1> HIDE DEF q
<1>4. /\ req' \in [Slots -> WizardRequests] /\ req'[r] = q /\ disturbed' \in BOOLEAN
      /\ \A x \in Slots : WizardRequestOK(req[x])'
      /\ Cardinality(Publishing)' = Cardinality(Publishing)
      /\ ~ disturbed' => OneAtATime'
  BY <1>1, <1>2, <1>3, Sent
<1>5. TypeOK'
  BY <1>0, <1>1, <1>4 DEF TypeOK, WizardRequests
<1>6. DraftIsSound' /\ ClientOK' /\ StepsBefore'
  BY <1>0, <1>1, <1>4 DEF DraftIsSound, ClientOK, StepsBefore
<1>7. publishes' # 0
  BY <1>0, <1>1 DEF ClientOK
<1>8. QED BY <1>4, <1>5, <1>6, <1>7 DEF WizardInv

LEMMA PressPublishStep ==
  ASSUME WizardInv, NEW r \in Slots, PressPublish(r)
  PROVE  WizardInv'
<1> DEFINE q == [Idle EXCEPT !.op = "publish", !.step = "sent", !.own = TRUE, !.reviewed = kept']
<1>0. TypeOK /\ ClientOK /\ DraftIsSound /\ StepsBefore
  BY DEF WizardInv
<1>1. /\ leaving = "no" /\ at = Last /\ presses < MaxPublish /\ presses' = presses + 1
      /\ kept' = (IF Founder THEN kept ELSE [kept EXCEPT ![at] = form[at]])
      /\ Sending(r, q, req)
      /\ UNCHANGED <<at, leaving, form, typed, visited, armed>>
      /\ UNCHANGED <<draft, status, published, publishes>>
  BY DEF PressPublish, Send, server
<1>2. /\ kept' \in [Sections -> Answers]
      /\ \A s \in Sections : kept'[s] \in {kept[s], form[s]} /\ (s < at => kept'[s] = kept[s])
  <2>1. CASE Founder
    BY <1>0, <1>1, <2>1 DEF TypeOK
  <2>2. CASE ~ Founder
    <3>1. at \in Sections
      BY <1>1, <2>2, Numbers
    <3>2. kept' = [kept EXCEPT ![at] = form[at]] /\ ~ (at < at)
      BY <1>1, <2>2, <3>1, Numbers
    <3>3. QED BY <1>0, <3>1, <3>2 DEF TypeOK
  <2>3. QED BY <2>1, <2>2
<1>3. /\ q \in WizardRequests /\ q.op = "publish" /\ q.step = "sent" /\ DOMAIN q.seen = {}
  <2>1. kept' \in Drafts
    <3>1. Sections \in SUBSET Sections
      OBVIOUS
    <3>2. QED BY <1>2, <3>1 DEF Drafts
  <2>2. DOMAIN Idle.seen = {} /\ Idle \in WizardRequests
    BY IdleIs
  <2>3. QED BY <2>1, <2>2 DEF WizardRequests, Step
<1> HIDE DEF q
<1>4. /\ req' \in [Slots -> WizardRequests] /\ req'[r] = q /\ disturbed' \in BOOLEAN
      /\ \A x \in Slots : WizardRequestOK(req[x])'
      /\ Cardinality(Publishing)' = Cardinality(Publishing) + 1 /\ Cardinality(Publishing) \in Nat
      /\ ~ disturbed' =>
            /\ OneAtATime' /\ ~ disturbed
            /\ \A x \in Slots \ {r} : req'[x].op = "none" /\ req'[x].step = "idle"
            /\ publishes = 0 => \A s \in visited \ {at} : Written(s)
  BY <1>1, <1>3, Sent
<1>5. presses' \in 0..MaxPublish /\ presses \in Nat /\ publishes \in Nat
  BY <1>0, <1>1, ODAssumption DEF TypeOK
<1>6. TypeOK'
  BY <1>0, <1>1, <1>2, <1>4, <1>5 DEF TypeOK, WizardRequests
<1>7. DraftIsSound'
  BY <1>0, <1>1 DEF DraftIsSound
<1>8. ClientOK'
  BY <1>0, <1>1, <1>2, <1>4, <1>5 DEF ClientOK
<1>9. StepsBefore'
  BY <1>0, <1>1, <1>2 DEF StepsBefore
<1>10. ASSUME ~ disturbed', publishes' = 0 PROVE NothingDrops'
  <2>1. \A s \in visited \ {at} : Written(s)'
    BY <1>1, <1>4, <1>10 DEF Written
  <2>2. \A x \in Slots : req'[x].step # "write" /\ req'[x].op # "save"
    BY <1>3, <1>4, <1>10
  <2>3. QED BY <1>1, <2>1, <2>2 DEF NothingDrops
<1>11. QED BY <1>4, <1>6, <1>7, <1>8, <1>9, <1>10 DEF WizardInv

LEMMA BackFromReviewStep ==
  ASSUME WizardInv, BackFromReview
  PROVE  WizardInv'
<1>0. TypeOK /\ ClientOK /\ DraftIsSound /\ StepsBefore
  BY DEF WizardInv
<1>1. PICK s \in Sections : Show(s, kept)
  BY DEF BackFromReview
<1>2. /\ leaving = "no" /\ at = Review /\ at' = s /\ kept' = kept
      /\ form' = [form EXCEPT ![s] = kept[s]] /\ visited' = visited /\ armed' = FALSE
      /\ UNCHANGED <<leaving, typed, presses, req, disturbed>>
      /\ UNCHANGED <<draft, status, published, publishes>>
  <2>1. {Review} \intersect Sections = {}
    BY Numbers
  <2>2. QED BY <1>1, <2>1 DEF BackFromReview, Show, server
<1>3. /\ form' \in [Sections -> Answers] /\ form'[s] = kept[s]
      /\ \A t \in Sections \ {s} : form'[t] = form[t]
      /\ s \in 0..Last /\ s < Review /\ s \in Nat
  BY <1>0, <1>2, Numbers DEF TypeOK
<1>4. TypeOK'
  BY <1>0, <1>2, <1>3 DEF TypeOK
<1>5. DraftIsSound'
  BY <1>0, <1>2 DEF DraftIsSound
<1>6. ClientOK'
  <2>1. Publishing' = Publishing
    BY <1>2 DEF Publishing
  <2>2. \A t \in Sections : form'[t] <= typed[t] /\ kept[t] <= typed[t]
    BY <1>0, <1>3 DEF ClientOK
  <2>3. QED BY <1>0, <1>2, <2>1, <2>2 DEF ClientOK
<1>7. StepsBefore'
  <2>1. \A t \in Sections : t < s => t < Review /\ t # s
    BY <1>3, Numbers
  <2>2. QED BY <1>0, <1>2, <1>3, <2>1 DEF StepsBefore
<1>8. \A x \in Slots : WizardRequestOK(req[x])'
  BY <1>2 DEF WizardInv, WizardRequestOK
<1>9. ~ disturbed' => OneAtATime'
  BY <1>2 DEF WizardInv, OneAtATime, Busy, Free, Publishing
<1>10. ASSUME ~ disturbed', publishes' = 0 PROVE NothingDrops'
  <2>1. NothingDrops /\ visited \subseteq Sections
    BY <1>0, <1>2, <1>10 DEF WizardInv, TypeOK
  <2>2. \A t \in visited' \ {at'} : t \in visited \ {at} /\ form'[t] = form[t]
    BY <1>2, <1>3, <2>1, Numbers
  <2>3. ASSUME NEW t \in visited' \ {at'} PROVE Written(t)' \/ UnderWay(t)'
    BY <1>2, <2>1, <2>2 DEF Written, UnderWay, NothingDrops
  <2>4. QED BY <1>2, <2>1, <2>2, <2>3 DEF NothingDrops
<1>11. QED BY <1>4, <1>5, <1>6, <1>7, <1>8, <1>9, <1>10 DEF WizardInv

(* A step is left for another one, which shows what the store has of it. *)
LEMMA LeaveStep ==
  ASSUME WizardInv, NEW r \in Slots, leaving = "no", at \in Sections,
         NEW next \in 0..Last, next # at, NEW store \in [Sections -> Answers],
         \A s \in Sections : store[s] <= typed[s],
         \A s \in Sections : s < next => s \in visited \union {at} /\ store[s] = form[s],
         Leave(r, next, store)
  PROVE  WizardInv'
<1> DEFINE q == Save(at, form[at])
<1>0. TypeOK /\ ClientOK /\ DraftIsSound
  BY DEF WizardInv
<1>1. /\ at' = next /\ kept' = store /\ visited' = visited \union {at} /\ armed' = FALSE
      /\ form' = (IF next \in Sections THEN [form EXCEPT ![next] = store[next]] ELSE form)
      /\ Sending(r, q, Orphaned)
      /\ UNCHANGED <<leaving, typed, presses>>
      /\ UNCHANGED <<draft, status, published, publishes>>
  <2>1. {at} \intersect Sections = {at}
    OBVIOUS
  <2>2. QED BY <2>1 DEF Leave, Show, server
<1>2. form[at] \in Answers /\ form[at] <= typed[at]
  BY <1>0 DEF ClientOK, TypeOK
<1>3. /\ q \in WizardRequests /\ q.op = "save" /\ q.step = "sent"
      /\ q.section = at /\ q.value = form[at] /\ DOMAIN q.seen = {}
  BY <1>2, SaveIs
<1> HIDE DEF q
<1>4. /\ req' \in [Slots -> WizardRequests] /\ req'[r] = q /\ disturbed' \in BOOLEAN
      /\ \A x \in Slots : WizardRequestOK(req[x])'
      /\ Cardinality(Publishing)' = Cardinality(Publishing)
      /\ ~ disturbed' =>
            /\ OneAtATime' /\ ~ disturbed
            /\ \A x \in Slots \ {r} : req'[x].op = "none" /\ req'[x].step = "idle"
            /\ publishes = 0 => \A s \in visited \ {at} : Written(s)
  BY <1>1, <1>2, <1>3, Sent
<1>5. /\ form' \in [Sections -> Answers]
      /\ \A s \in Sections \ {next} : form'[s] = form[s]
      /\ next \in Sections => form'[next] = store[next]
  BY <1>0, <1>1 DEF TypeOK
<1>6. TypeOK'
  BY <1>0, <1>1, <1>4, <1>5 DEF TypeOK, WizardRequests
<1>7. DraftIsSound'
  BY <1>0, <1>1 DEF DraftIsSound
<1>8. ClientOK'
  <2>1. \A s \in Sections : form'[s] <= typed[s] /\ store[s] <= typed[s]
    BY <1>0, <1>5 DEF ClientOK
  <2>2. QED BY <1>0, <1>1, <1>4, <2>1 DEF ClientOK
<1>9. StepsBefore'
  <2>1. \A s \in Sections : s < next => s # next
    BY Numbers
  <2>2. QED BY <1>1, <1>5, <2>1 DEF StepsBefore
<1>10. ASSUME ~ disturbed', publishes' = 0 PROVE NothingDrops'
  <2>1. \A x \in Slots : req'[x].step # "write"
    BY <1>3, <1>4, <1>10
  <2>2. ASSUME NEW x \in Slots, req'[x].op = "save"
        PROVE  req'[x].value = form'[req'[x].section]
    <3>1. x = r
      BY <1>4, <1>10, <2>2
    <3>2. form'[at] = form[at]
      BY <1>5
    <3>3. QED BY <1>3, <1>4, <3>1, <3>2
  <2>3. ASSUME NEW s \in visited' \ {at'} PROVE Written(s)' \/ UnderWay(s)'
    <3>1. s \in Sections /\ form'[s] = form[s]
      BY <1>0, <1>1, <1>5, <2>3 DEF TypeOK
    <3>2. CASE s = at
      <4>1. UnderWay(s)'
        BY <1>3, <1>4, <3>1, <3>2 DEF UnderWay
      <4>2. QED BY <4>1
    <3>3. CASE s # at
      <4>1. s \in visited \ {at}
        BY <1>1, <2>3, <3>3
      <4>2. Written(s)
        BY <1>1, <1>4, <1>10, <4>1
      <4>3. QED BY <1>1, <3>1, <4>2 DEF Written
    <3>4. QED BY <3>2, <3>3
  <2>4. QED BY <2>1, <2>2, <2>3 DEF NothingDrops
<1>11. QED BY <1>4, <1>6, <1>7, <1>8, <1>9, <1>10 DEF WizardInv

LEMMA ContinueStep ==
  ASSUME WizardInv, NEW r \in Slots, Continue(r)
  PROVE  WizardInv'
<1> DEFINE store == [kept EXCEPT ![at] = form[at]]
<1>0. TypeOK /\ ClientOK /\ StepsBefore
  BY DEF WizardInv
<1>1. leaving = "no" /\ at \in Sections /\ at < Last /\ Leave(r, at + 1, store)
  BY DEF Continue
<1>2. at + 1 \in 0..Last /\ at + 1 # at
  BY <1>1, Numbers
<1>3. /\ store \in [Sections -> Answers] /\ store[at] = form[at]
      /\ \A s \in Sections \ {at} : store[s] = kept[s]
  BY <1>0, <1>1 DEF TypeOK
<1> HIDE DEF store
<1>4. \A s \in Sections : store[s] <= typed[s]
  BY <1>0, <1>1, <1>3 DEF ClientOK
<1>5. ASSUME NEW s \in Sections, s < at + 1
      PROVE  s \in visited \union {at} /\ store[s] = form[s]
  <2>1. s < at \/ s = at
    BY <1>1, <1>5, Numbers
  <2>2. QED BY <1>0, <1>1, <1>3, <2>1 DEF StepsBefore
<1>6. QED BY <1>1, <1>2, <1>3, <1>4, <1>5, LeaveStep

LEMMA GoBackStep ==
  ASSUME WizardInv, NEW r \in Slots, GoBack(r)
  PROVE  WizardInv'
<1>0. TypeOK /\ ClientOK /\ StepsBefore
  BY DEF WizardInv
<1>1. PICK s \in Sections : leaving = "no" /\ at \in Sections /\ s < at /\ Leave(r, s, kept)
  BY DEF GoBack
<1>2. s \in 0..Last /\ s # at
  BY <1>1, Numbers
<1>3. kept \in [Sections -> Answers] /\ \A t \in Sections : kept[t] <= typed[t]
  BY <1>0 DEF ClientOK, TypeOK
<1>4. ASSUME NEW t \in Sections, t < s
      PROVE  t \in visited \union {at} /\ kept[t] = form[t]
  <2>1. t < at
    BY <1>1, <1>4, Numbers
  <2>2. QED BY <1>0, <1>1, <2>1 DEF StepsBefore
<1>5. QED BY <1>1, <1>2, <1>3, <1>4, LeaveStep

LEMMA PublishResolvedStep ==
  ASSUME WizardInv, NEW r \in Slots, PublishResolved(r)
  PROVE  WizardInv'
<1> DEFINE q == IF at \in Sections \ {0} THEN Save(at, form[at]) ELSE Idle
<1>0. /\ TypeOK /\ ClientOK /\ DraftIsSound /\ WizardRequestOK(req[r])
  BY DEF WizardInv
<1>1. /\ req[r].step = "ok" /\ leaving = "no" /\ leaving' = "reset" /\ at' = 0
      /\ kept' = [s \in Sections |-> 0]
      /\ form' = (IF at = 0 THEN form ELSE [form EXCEPT ![0] = 0])
      /\ armed' = (armed /\ at = 0) /\ Become(r, q)
      /\ UNCHANGED <<typed, visited, presses>> /\ UNCHANGED <<draft, status, published, publishes>>
  BY DEF PublishResolved, server
<1>2. /\ q \in WizardRequests /\ q.step \in {"sent", "idle"} /\ DOMAIN q.seen = {}
      /\ q.op \in {"save", "none"} /\ (q.op = "none" <=> q.step = "idle")
      /\ q.op = "save" => q.section \in Sections /\ q.value <= typed[q.section]
  <2>1. CASE at \in Sections \ {0}
    <3>1. form[at] \in Answers /\ form[at] <= typed[at] /\ q = Save(at, form[at])
      BY <1>0, <2>1 DEF ClientOK, TypeOK
    <3>2. QED BY <2>1, <3>1, SaveIs
  <2>2. CASE at \notin Sections \ {0}
    BY <2>2, IdleIs
  <2>3. QED BY <2>1, <2>2
<1> HIDE DEF q
<1>3. /\ req' \in [Slots -> WizardRequests] /\ req'[r] = q
      /\ OthersStay(r) /\ disturbed' = disturbed
  BY <1>0, <1>1, <1>2, Becoming
<1>4. /\ publishes > 0 /\ publishes \in Nat /\ req[r].op # "save"
      /\ typed \in [Sections -> Answers] /\ req[r] \in WizardRequests
  BY <1>0, <1>1, WizardTyped DEF WizardRequestOK, TypeOK
<1>5. /\ form' \in [Sections -> Answers] /\ kept' \in [Sections -> Answers]
      /\ \A s \in Sections : form'[s] <= typed[s] /\ kept'[s] <= typed[s]
  <2>1. \A s \in Sections : typed[s] \in Nat /\ 0 <= typed[s]
    BY <1>0, TypedNat
  <2>2. QED BY <1>0, <1>1, <2>1, Numbers DEF ClientOK, TypeOK
<1>6. TypeOK'
  BY <1>0, <1>1, <1>3, <1>5, Numbers DEF TypeOK, WizardRequests
<1>7. DraftIsSound'
  BY <1>0, <1>1 DEF DraftIsSound
<1>8. \A x \in Slots : WizardRequestOK(req[x])'
  <2>1. WizardRequestOK(req[r])'
    BY <1>1, <1>2, <1>3 DEF WizardRequestOK
  <2>2. typed' \in [Sections -> Answers] /\ publishes' \in Nat /\ publishes <= publishes'
        /\ \A t \in Sections : typed[t] <= typed'[t]
    BY <1>0, <1>1, <1>4, TypedNat
  <2>3. QED BY <1>3, <2>1, <2>2, OthersOK
<1>9. ClientOK'
  <2>1. r \notin Publishing /\ r \notin Publishing'
    BY <1>1, <1>2, <1>3 DEF Publishing
  <2>2. Cardinality(Publishing)' = Cardinality(Publishing)
    BY <1>0, <1>3, <2>1, PublishingMoves
  <2>3. QED BY <1>0, <1>1, <1>4, <1>5, <2>2, Numbers DEF ClientOK
<1>10. StepsBefore'
  BY <1>1 DEF StepsBefore
<1>11. ASSUME ~ disturbed' PROVE OneAtATime'
  <2>1. OneAtATime /\ Busy' \subseteq Busy /\ Publishing' \subseteq Publishing
    BY <1>1, <1>2, <1>3, <1>11 DEF WizardInv, OthersStay, Same, Busy, Free, Publishing
  <2>2. QED BY <1>1, <2>1 DEF OneAtATime
<1>12. publishes' # 0
  BY <1>1, <1>4
<1>13. QED BY <1>6, <1>7, <1>8, <1>9, <1>10, <1>11, <1>12 DEF WizardInv

LEMMA WizardInvInit == Init => WizardInv
<1> SUFFICES ASSUME Init PROVE WizardInv
  OBVIOUS
<1> USE DEF Init
<1>1. \A r \in Slots : req[r] = Idle
  OBVIOUS
<1>2. TypeOK
  <2>1. req \in [Slots -> WizardRequests]
    BY IdleIs
  <2>2. 0 \in 0..Last /\ 0 \in 0..MaxPublish
    BY Numbers, ODAssumption
  <2>3. QED BY <2>1, <2>2, Numbers, EmptyIs DEF TypeOK, WizardRequests
<1>3. DraftIsSound
  BY EmptyIs DEF DraftIsSound
<1>4. \A r \in Slots : WizardRequestOK(req[r])
  BY <1>1, IdleOK
<1>5. ClientOK
  <2>1. Publishing = {}
    BY <1>1, IdleIs DEF Publishing
  <2>2. Cardinality(Publishing) = 0
    BY <2>1, FS_EmptySet
  <2>3. QED BY <2>2 DEF ClientOK
<1>6. StepsBefore
  <2>1. \A s \in Sections : ~ (s < 0)
    BY Numbers
  <2>2. QED BY <2>1 DEF StepsBefore
<1>7. OneAtATime
  BY <1>1, IdleIs DEF OneAtATime, Busy, Free, Publishing
<1>8. NothingDrops
  BY <1>1, IdleIs DEF NothingDrops
<1>9. QED BY <1>2, <1>3, <1>4, <1>5, <1>6, <1>7, <1>8 DEF WizardInv

LEMMA WizardInvNext == WizardInv /\ [Next]_vars => WizardInv'
<1> SUFFICES ASSUME WizardInv, [Next]_vars PROVE WizardInv'
  OBVIOUS
<1>1. CASE Edit
  BY <1>1, EditStep
<1>2. CASE BackFromReview
  BY <1>2, BackFromReviewStep
<1>3. ASSUME NEW r \in Slots,
             \/ Debounced(r) \/ Continue(r) \/ GoBack(r) \/ PressPublish(r)
             \/ PublishResolved(r) \/ LeaveWizard(r)
      PROVE  WizardInv'
  BY <1>3, DebouncedStep, ContinueStep, GoBackStep, PressPublishStep, PublishResolvedStep,
     LeaveWizardStep
<1>4. ASSUME NEW r \in Slots,
             \/ Discard(r) \/ ReadDraft(r) \/ WriteDraft(r) \/ RequestFails(r)
             \/ ReadForPublish(r) \/ CheckUnpublished(r) \/ CommitPublish(r)
      PROVE  WizardInv'
  BY <1>4, DiscardStep, ReadDraftStep, WriteDraftStep, RequestFailsStep, ReadForPublishStep,
     CheckUnpublishedStep, CommitPublishStep
<1>5. CASE UNCHANGED vars
  <2>1. UNCHANGED <<at, leaving, form, kept, typed, visited, armed, presses>>
        /\ UNCHANGED <<draft, status, published, publishes, req, disturbed>>
    BY <1>5 DEF vars, client, server, answers
  <2>2. UNCHANGED <<TypeOK, DraftIsSound, ClientOK, StepsBefore, OneAtATime, NothingDrops>>
    BY <2>1 DEF TypeOK, DraftIsSound, ClientOK, Publishing, StepsBefore, OneAtATime, Busy, Free,
                NothingDrops, Written, UnderWay
  <2>3. \A r \in Slots : WizardRequestOK(req[r])'
    BY <2>1 DEF WizardInv, WizardRequestOK
  <2>4. QED BY <2>1, <2>2, <2>3 DEF WizardInv
<1>6. QED BY <1>1, <1>2, <1>3, <1>4, <1>5 DEF Next

LEMMA WizardInvIsSound == WizardInv => WizardIsSound
<1> SUFFICES ASSUME WizardInv PROVE NothingLost
  BY DEF WizardInv, WizardIsSound
<1> SUFFICES ASSUME Quiet, ~ disturbed, publishes = 0 PROVE \A s \in visited \ {at} : Written(s)
  BY DEF NothingLost, Written
<1>1. NothingDrops /\ \A r \in Slots : req[r].step = "idle" /\ WizardRequestOK(req[r])
  BY DEF WizardInv, Quiet, Free
<1>2. \A s : ~ UnderWay(s)
  BY <1>1 DEF UnderWay, WizardRequestOK
<1>3. QED BY <1>1, <1>2 DEF NothingDrops

(* For any sections, edits and slots: the draft holds nothing that was not typed
   and, while requests neither overlap nor fail, loses nothing that a step left. *)
THEOREM WizardInvariant == Spec => []WizardInv
  BY WizardInvInit, WizardInvNext, PTL DEF Spec

------------------------------------------------------------------------------
(* The founder's review step shows what publish will read. *)

(* Steps after which r does not publish, and the draft is as it was. *)
LEMMA ReviewStays ==
  ASSUME ReviewedIsRead, NEW r \in Slots, OthersStay(r), r \notin Publishing', draft' = draft,
         ~ disturbed' => ~ disturbed
  PROVE  ReviewedIsRead'
<1> SUFFICES ASSUME ~ disturbed', NEW x \in Publishing'
             PROVE  IF req'[x].step = "sent" THEN draft' = req'[x].reviewed
                    ELSE req'[x].seen = req'[x].reviewed
  BY DEF ReviewedIsRead
<1>1. x \in Slots \ {r}
  BY DEF Publishing
<1>2. Same(req'[x], req[x]) /\ x \in Publishing
  BY <1>1 DEF OthersStay, Same, Publishing
<1>3. QED BY <1>2 DEF ReviewedIsRead, Same

(* Nobody publishes while a save is the only request. *)
LEMMA ReviewAlone ==
  ASSUME NEW r \in Slots, NEW q, Sending(r, q, req) \/ Sending(r, q, Orphaned), q.op = "save", TypeOK
  PROVE  ReviewedIsRead'
<1> SUFFICES ASSUME ~ disturbed' PROVE Publishing' = {}
  BY DEF ReviewedIsRead
<1>1. PICK others \in [Slots -> WizardRequests] :
          Sending(r, q, others) /\ \A x \in Slots : Same(others[x], req[x])
  BY WizardTyped, OrphanedIs DEF Same
<1>2. \A x \in Slots : req[x].step = "idle"
  BY <1>1 DEF Sending, Free
<1>3. /\ req'[r] = q
      /\ \A x \in Slots \ {r} : req'[x].step = "idle"
  BY <1>1, <1>2 DEF Sending, Same
<1>4. QED BY <1>3 DEF Publishing

LEMMA SavesAre ==
  ASSUME NEW s, NEW v
  PROVE  Save(s, v).op = "save" /\ [Save(s, v) EXCEPT !.own = TRUE].op = "save"
  BY DEF Save, Idle

LEMMA ReviewOfClient ==
  ASSUME WizardInv, ReviewedIsRead, NEW r \in Slots,
         \/ Debounced(r) \/ Continue(r) \/ GoBack(r) \/ PublishResolved(r) \/ LeaveWizard(r)
  PROVE  ReviewedIsRead' /\ publishes' = publishes
<1>0. TypeOK
  BY DEF WizardInv
<1>1. CASE Debounced(r)
  <2>1. Sending(r, [Save(at, form[at]) EXCEPT !.own = TRUE], req) /\ publishes' = publishes
    BY <1>1 DEF Debounced, Send, server
  <2>2. QED BY <1>0, <2>1, SavesAre, ReviewAlone
<1>2. CASE Continue(r) \/ GoBack(r)
  <2>1. Sending(r, Save(at, form[at]), Orphaned) /\ publishes' = publishes
    BY <1>2 DEF Continue, GoBack, Leave, server
  <2>2. QED BY <1>0, <2>1, SavesAre, ReviewAlone
<1>3. CASE PublishResolved(r)
  <2> DEFINE q == IF at \in Sections \ {0} THEN Save(at, form[at]) ELSE Idle
  <2>1. Become(r, q) /\ UNCHANGED <<draft, publishes>>
    BY <1>3 DEF PublishResolved, server
  <2>2. q.op # "publish"
    BY SavesAre, IdleIs
  <2> HIDE DEF q
  <2>3. req'[r] = q /\ OthersStay(r) /\ disturbed' = disturbed
    BY <1>0, <2>1, WizardTyped DEF Become, OthersStay, Same
  <2>4. r \notin Publishing'
    BY <2>2, <2>3 DEF Publishing
  <2>5. QED BY <2>1, <2>3, <2>4, ReviewStays
<1>4. CASE LeaveWizard(r)
  <2>1. Sending(r, Save(0, form[0]), req) /\ publishes' = publishes
    BY <1>4 DEF LeaveWizard, Send, server
  <2>2. QED BY <1>0, <2>1, SavesAre, ReviewAlone
<1>5. QED BY <1>1, <1>2, <1>3, <1>4

LEMMA ReviewOfPress ==
  ASSUME WizardInv, WizardInv', Founder, NEW r \in Slots, PressPublish(r)
  PROVE  ReviewedIsRead' /\ publishes' = publishes
<1> DEFINE q == [Idle EXCEPT !.op = "publish", !.step = "sent", !.own = TRUE, !.reviewed = kept']
<1>0. TypeOK /\ StepsBefore
  BY DEF WizardInv
<1>1. /\ leaving = "no" /\ at = Review /\ kept' = kept /\ Sending(r, q, req)
      /\ UNCHANGED <<visited, form, draft, publishes>>
  BY Numbers DEF PressPublish, Send, server
<1>2. q.op = "publish" /\ q.step = "sent" /\ q.reviewed = kept
  BY <1>1 DEF Idle
<1> HIDE DEF q
<1> SUFFICES ASSUME ~ disturbed', NEW x \in Publishing' PROVE x = r /\ draft = kept
  <2>1. req'[r] = q
    BY <1>0, <1>1, WizardTyped DEF Sending
  <2>2. QED BY <1>1, <1>2, <2>1 DEF ReviewedIsRead
<1>3. /\ ~ disturbed /\ \A y \in Slots : req[y].step = "idle"
      /\ \A y \in Slots \ {r} : req'[y].step = "idle"
  BY <1>0, <1>1, WizardTyped DEF Sending, Free, TypeOK
<1>4. x = r
  BY <1>3 DEF Publishing
<1>5. publishes = 0
  <2>1. OneAtATime'
    BY DEF WizardInv
  <2>2. QED BY <1>1, <2>1 DEF OneAtATime
<1>6. \A s \in Sections : Written(s) /\ kept[s] = form[s]
  <2>1. NothingDrops /\ \A y \in Slots : req[y].op # "save"
    BY <1>3, <1>5 DEF WizardInv, WizardRequestOK
  <2>2. \A s \in Sections : s \in visited \ {at} /\ kept[s] = form[s]
    BY <1>0, <1>1, Numbers DEF StepsBefore
  <2>3. QED BY <2>1, <2>2 DEF NothingDrops, UnderWay
<1>7. draft = kept
  <2>1. DOMAIN draft = Sections /\ \A s \in Sections : draft[s] = kept[s]
    BY <1>0, <1>6, DraftIs DEF Written, TypeOK
  <2>2. PICK D \in SUBSET Sections : draft \in [D -> Answers]
    BY <1>0 DEF TypeOK, Drafts
  <2>3. draft \in [Sections -> Answers] /\ kept \in [Sections -> Answers]
    BY <1>0, <2>1, <2>2 DEF TypeOK
  <2>4. QED BY <2>1, <2>3
<1>8. QED BY <1>4, <1>7

LEMMA ReviewOfServer ==
  ASSUME WizardInv, ReviewedIsRead, NEW r \in Slots,
         \/ Discard(r) \/ ReadDraft(r) \/ WriteDraft(r) \/ RequestFails(r)
         \/ ReadForPublish(r) \/ CheckUnpublished(r)
  PROVE  ReviewedIsRead' /\ publishes' = publishes
<1>0. TypeOK /\ WizardRequestOK(req[r]) /\ req[r] \in WizardRequests
  BY WizardTyped DEF WizardInv
<1>1. CASE Discard(r) \/ ReadDraft(r) \/ RequestFails(r)
  <2>1. /\ UNCHANGED <<draft, publishes>> /\ OthersStay(r)
        /\ ~ disturbed' => ~ disturbed
    BY <1>0, <1>1, WizardTyped
       DEF Discard, ReadDraft, RequestFails, Become, server, OthersStay, Same
  <2>2. req'[r] = Idle \/ req'[r].op = "save"
    BY <1>0, <1>1, WizardTyped DEF Discard, ReadDraft, RequestFails, Become, WizardRequests
  <2>3. r \notin Publishing'
    BY <2>2, IdleIs DEF Publishing
  <2>4. QED BY <2>1, <2>3, ReviewStays
<1>2. CASE WriteDraft(r)
  <2>1. /\ req[r].step = "write" /\ publishes' = publishes /\ disturbed' = disturbed
        /\ req'[r] = Idle /\ OthersStay(r)
    BY <1>0, <1>2, WizardTyped DEF WriteDraft, Become, OthersStay, Same
  <2>2. ASSUME ~ disturbed, NEW x \in Slots \ {r} PROVE req'[x].step = "idle"
    BY <2>1, <2>2 DEF WizardInv, OneAtATime, Busy, Free, OthersStay, Same
  <2>3. ~ disturbed => Publishing' = {}
    BY <2>1, <2>2, IdleIs DEF Publishing
  <2>4. QED BY <2>1, <2>3 DEF ReviewedIsRead
<1>3. CASE ReadForPublish(r) \/ CheckUnpublished(r)
  <2> DEFINE q == IF ReadForPublish(r)
                  THEN [req[r] EXCEPT !.seen = draft,
                          !.step = IF Required \subseteq DOMAIN draft THEN "check" ELSE "failed"]
                  ELSE [req[r] EXCEPT !.step =
                          IF Founder /\ publishes > 0 THEN "failed" ELSE "commit"]
  <2>0. /\ Become(r, q) /\ UNCHANGED <<draft, publishes>>
        /\ req[r].step = (IF ReadForPublish(r) THEN "sent" ELSE "check")
        /\ req[r].step = "sent" => req[r].op = "publish"
    BY <1>3 DEF ReadForPublish, CheckUnpublished, Goto, server
  <2>1. /\ UNCHANGED <<draft, publishes, disturbed>> /\ OthersStay(r)
        /\ req[r].step \in {"sent", "check"} /\ req'[r].step \in {"check", "commit", "failed"}
        /\ req'[r].seen = (IF req[r].step = "sent" THEN draft ELSE req[r].seen)
        /\ req'[r].reviewed = req[r].reviewed
        /\ req[r].step = "sent" => req[r].op = "publish"
    <3>1. /\ q.step \in {"check", "commit", "failed"} /\ q.reviewed = req[r].reviewed
          /\ q.seen = (IF req[r].step = "sent" THEN draft ELSE req[r].seen)
      BY <1>0, <2>0 DEF WizardRequests
    <3> HIDE DEF q
    <3>2. req'[r] = q /\ OthersStay(r) /\ disturbed' = disturbed
      BY <1>0, <2>0, WizardTyped DEF Become, OthersStay, Same
    <3>3. QED BY <2>0, <3>1, <3>2
  <2>2. req[r].op = "publish"
    BY <1>0, <2>1 DEF WizardRequestOK, WizardRequests
  <2>3. r \in Publishing
    BY <2>1, <2>2 DEF Publishing
  <2>4. ASSUME ~ disturbed', NEW x \in Publishing'
        PROVE  IF req'[x].step = "sent" THEN draft' = req'[x].reviewed
               ELSE req'[x].seen = req'[x].reviewed
    <3>1. CASE x = r
      BY <2>1, <2>3, <2>4, <3>1 DEF ReviewedIsRead
    <3>2. CASE x # r
      <4>1. x \in Publishing /\ Same(req'[x], req[x])
        BY <2>1, <3>2 DEF Publishing, OthersStay, Same
      <4>2. QED BY <2>1, <2>4, <4>1 DEF ReviewedIsRead, Same
    <3>3. QED BY <3>1, <3>2
  <2>5. QED BY <2>1, <2>4 DEF ReviewedIsRead
<1>4. QED BY <1>1, <1>2, <1>3

(* What goes live is what was reviewed. *)
CommitsReviewed(x) ==
    /\ req[x].step = "commit" /\ req'[x].step = "ok"
    /\ \A r \in Slots \ {x} : req'[r].step = req[r].step
    /\ ~ disturbed => published' = req[x].reviewed

LEMMA ReviewOfCommit ==
  ASSUME WizardInv, ReviewedIsRead, NEW x \in Slots, CommitPublish(x)
  PROVE  ReviewedIsRead' /\ CommitsReviewed(x)
<1>0. TypeOK /\ WizardRequestOK(req[x]) /\ req[x] \in WizardRequests
  BY WizardTyped DEF WizardInv
<1>1. /\ req[x].step = "commit" /\ published' = req[x].seen /\ disturbed' = disturbed
      /\ req'[x].step = "ok" /\ OthersStay(x)
  BY <1>0, WizardTyped DEF CommitPublish, Goto, Become, OthersStay, Same, WizardRequests
<1>2. x \in Publishing
  BY <1>0, <1>1 DEF WizardRequestOK, WizardRequests, Publishing
<1>3. ~ disturbed => published' = req[x].reviewed
  BY <1>1, <1>2 DEF ReviewedIsRead
<1>4. ASSUME ~ disturbed, NEW r \in Slots \ {x} PROVE req'[r].step = "idle"
  BY <1>1, <1>4 DEF WizardInv, OneAtATime, Busy, Free, OthersStay, Same
<1>5. ~ disturbed => Publishing' = {}
  BY <1>1, <1>4 DEF Publishing
<1>6. QED BY <1>1, <1>3, <1>5 DEF ReviewedIsRead, CommitsReviewed, OthersStay, Same

LEMMA ReviewNext ==
  ASSUME WizardInv, WizardInv', ReviewedIsRead, Founder, [Next]_vars
  PROVE  /\ ReviewedIsRead'
         /\ publishes' = publishes \/ \E x \in Slots : CommitsReviewed(x)
<1>1. CASE UNCHANGED vars
  BY <1>1 DEF vars, client, server, ReviewedIsRead, Publishing
<1>2. ASSUME NEW r \in Slots, PressPublish(r)
      PROVE  ReviewedIsRead' /\ publishes' = publishes
  BY <1>2, ReviewOfPress
<1>3. ASSUME NEW r \in Slots, CommitPublish(r)
      PROVE  ReviewedIsRead' /\ CommitsReviewed(r)
  BY <1>3, ReviewOfCommit
<1>4. CASE Edit \/ BackFromReview
  <2>1. UNCHANGED <<req, draft, disturbed, publishes>>
    BY <1>4 DEF Edit, BackFromReview, server
  <2>2. QED BY <2>1 DEF ReviewedIsRead, Publishing
<1>5. ASSUME NEW r \in Slots,
             \/ Debounced(r) \/ Continue(r) \/ GoBack(r) \/ PublishResolved(r) \/ LeaveWizard(r)
      PROVE  ReviewedIsRead' /\ publishes' = publishes
  BY <1>5, ReviewOfClient
<1>6. ASSUME NEW r \in Slots,
             \/ Discard(r) \/ ReadDraft(r) \/ WriteDraft(r) \/ RequestFails(r)
             \/ ReadForPublish(r) \/ CheckUnpublished(r)
      PROVE  ReviewedIsRead' /\ publishes' = publishes
  BY <1>6, ReviewOfServer
<1>7. QED BY <1>1, <1>2, <1>3, <1>4, <1>5, <1>6 DEF Next

(* In the founder's flow a profile goes live with the answers that were on the
   review step when publish was pressed, as long as requests do not overlap
   and none fails. *)
THEOREM PublishedLatest == ASSUME Founder PROVE Spec => PublishedIsLatest
<1>1. Init => ReviewedIsRead
  BY IdleIs DEF Init, ReviewedIsRead, Publishing
<1>2. WizardInv /\ WizardInv' /\ ReviewedIsRead /\ [Next]_vars => ReviewedIsRead'
  BY ReviewNext
<1>3. WizardInv /\ WizardInv' /\ ReviewedIsRead /\ [Next]_vars
        => [\A r \in Slots :
              ~ disturbed /\ publishes' # publishes /\ req[r].step = "commit" /\ req'[r].step = "ok"
                  => published' = req[r].reviewed]_vars
  <2> SUFFICES ASSUME WizardInv, WizardInv', ReviewedIsRead, [Next]_vars,
                      NEW r \in Slots, ~ disturbed, publishes' # publishes,
                      req[r].step = "commit", req'[r].step = "ok"
               PROVE  published' = req[r].reviewed
    OBVIOUS
  <2>1. PICK x \in Slots : CommitsReviewed(x)
    BY ReviewNext
  <2>2. x = r
    BY <2>1 DEF CommitsReviewed
  <2>3. QED BY <2>1, <2>2 DEF CommitsReviewed
<1>4. QED BY <1>1, <1>2, <1>3, WizardInvariant, PTL DEF Spec, PublishedIsLatest

------------------------------------------------------------------------------
(* The scores. *)
(* What WeightOf adds up: a fact drawn from the set, and the sum over the
   others. *)
Drawn(s) == CHOOSE x \in s : TRUE
SumsOver(h, table, s) ==
    h = [t \in SUBSET s |-> IF t = {} THEN 0 ELSE table[Drawn(t)] + h[t \ {Drawn(t)}]]
SumOver(table, s) == CHOOSE h : SumsOver(h, table, s)

LEMMA WeightIs ==
    ASSUME NEW table, NEW s
    PROVE  WeightOf(table, s) = SumOver(table, s)[s]
  BY DEF WeightOf, MapThenSumSet, MapThenFoldSet, SumOver, SumsOver, Drawn

LEMMA DrawnIn == ASSUME NEW s, s # {} PROVE Drawn(s) \in s
  BY DEF Drawn

(* Among subsets of a finite set there is a smallest. *)
LEMMA SmallestSet ==
    ASSUME NEW D, IsFiniteSet(D), NEW B, B \subseteq SUBSET D, B # {}
    PROVE  \E t \in B : \A x \in B : ~ (x \subseteq t /\ x # t)
<1>1. IsWellFoundedOn(StrictSubsetOrdering(D), SUBSET D)
  BY FS_StrictSubsetOrderingWellFounded, FS_FiniteSubsetsOfFinite
<1>2. PICK t \in B : \A x \in B : <<x, t>> \notin StrictSubsetOrdering(D)
  BY <1>1, WFMin
<1>3. ASSUME NEW x \in B, x \subseteq t, x # t PROVE FALSE
  BY <1>2, <1>3 DEF StrictSubsetOrdering
<1>4. QED BY <1>3

LEMMA SumsAgree ==
    ASSUME NEW D, IsFiniteSet(D), NEW table, NEW S, NEW T, S \subseteq D, T \subseteq D,
           NEW h, NEW g, SumsOver(h, table, S), SumsOver(g, table, T),
           NEW s, s \subseteq S, s \subseteq T
    PROVE  h[s] = g[s]
<1> DEFINE B == {t \in SUBSET D : t \subseteq S /\ t \subseteq T /\ h[t] # g[t]}
<1>1. SUFFICES ASSUME B # {} PROVE FALSE
  OBVIOUS
<1>2. PICK t \in B : \A x \in B : ~ (x \subseteq t /\ x # t)
  <2>1. B \subseteq SUBSET D
    OBVIOUS
  <2> HIDE DEF B
  <2>2. QED BY <1>1, <2>1, SmallestSet
<1> DEFINE rest == t \ {Drawn(t)}
<1>3. t \in SUBSET S /\ t \in SUBSET T /\ rest \in SUBSET S /\ rest \in SUBSET T /\ rest \in SUBSET D
  BY <1>2
<1>4. CASE t = {}
  <2>1. h[t] = 0 /\ g[t] = 0
    BY <1>3, <1>4, Zenon DEF SumsOver
  <2>2. QED BY <1>2, <2>1
<1>5. CASE t # {}
  <2>1. rest \subseteq t /\ rest # t
    BY <1>5, DrawnIn
  <2>2. rest \notin B
    BY <1>2, <2>1
  <2>3. h[rest] = g[rest]
    BY <2>2, <1>3
  <2>4. h[t] = table[Drawn(t)] + h[rest]
    BY <1>3, <1>5, Zenon DEF SumsOver
  <2>5. g[t] = table[Drawn(t)] + g[rest]
    BY <1>3, <1>5, Zenon DEF SumsOver
  <2>6. QED BY <1>2, <2>3, <2>4, <2>5
<1>6. QED BY <1>4, <1>5

(* The recursion that WeightOf folds by is well defined. *)
LEMMA SumsExist ==
    ASSUME NEW D, IsFiniteSet(D), NEW table, NEW S, S \subseteq D
    PROVE  SumsOver(SumOver(table, S), table, S)
<1> DEFINE B == {t \in SUBSET D : ~ \E h : SumsOver(h, table, t)}
<1>1. SUFFICES ASSUME B # {} PROVE FALSE
  <2>1. S \notin B
    BY <1>1
  <2>2. QED BY <2>1 DEF SumOver
<1>2. PICK s \in B : \A x \in B : ~ (x \subseteq s /\ x # s)
  <2>1. B \subseteq SUBSET D
    OBVIOUS
  <2> HIDE DEF B
  <2>2. QED BY <1>1, <2>1, SmallestSet
<1> DEFINE h == [t \in SUBSET s |->
        IF t = {} THEN 0
        ELSE table[Drawn(t)] + SumOver(table, t \ {Drawn(t)})[t \ {Drawn(t)}]]
<1>3. ASSUME NEW t \in SUBSET s, t # s PROVE SumsOver(SumOver(table, t), table, t)
  <2>1. t \notin B
    BY <1>2, <1>3
  <2>2. t \in SUBSET D
    BY <1>2
  <2>3. \E g : SumsOver(g, table, t)
    BY <2>1, <2>2
  <2>4. QED BY <2>3 DEF SumOver
<1>4. ASSUME NEW t \in SUBSET s, t # {}
      PROVE  h[t \ {Drawn(t)}] = SumOver(table, t \ {Drawn(t)})[t \ {Drawn(t)}]
  <2> DEFINE rest == t \ {Drawn(t)}
             g == SumOver(table, rest)
  <2>1. rest \in SUBSET s /\ rest # s
    BY <1>4, DrawnIn
  <2>2. SumsOver(g, table, rest)
    BY <1>3, <2>1
  <2>3. CASE rest = {}
    <3>1. g[rest] = 0
      BY <2>2, <2>3, Zenon DEF SumsOver
    <3>2. h[rest] = 0
      BY <2>1, <2>3
    <3>3. QED BY <3>1, <3>2
  <2>4. CASE rest # {}
    <3> DEFINE less == rest \ {Drawn(rest)}
    <3>1. less \in SUBSET s /\ less # s /\ less \subseteq rest
      BY <2>1, <2>4, DrawnIn
    <3>2. SumsOver(SumOver(table, less), table, less)
      BY <1>3, <3>1
    <3>3. g[rest] = table[Drawn(rest)] + g[less]
      BY <2>2, <2>4, Zenon DEF SumsOver
    <3>4. g[less] = SumOver(table, less)[less]
      <4>1. rest \subseteq D /\ less \subseteq D
        BY <1>2, <2>1, <3>1
      <4> HIDE DEF g, less, rest
      <4>2. QED BY <4>1, <2>2, <3>1, <3>2, SumsAgree
    <3>5. h[rest] = table[Drawn(rest)] + SumOver(table, less)[less]
      BY <2>1, <2>4, Zenon
    <3>6. QED BY <3>3, <3>4, <3>5
  <2>5. QED BY <2>3, <2>4
<1>5. h = [t \in SUBSET s |-> IF t = {} THEN 0 ELSE table[Drawn(t)] + h[t \ {Drawn(t)}]]
  BY <1>4, Zenon
<1>6. SumsOver(h, table, s)
  BY <1>5, Zenon DEF SumsOver
<1>7. QED BY <1>2, <1>6

(* Nothing weighs nothing, and a fact adds its weight, whichever is taken
   first. *)
LEMMA WeightOfNothing == ASSUME NEW table PROVE WeightOf(table, {}) = 0
<1>1. IsFiniteSet({})
  BY FS_EmptySet
<1>2. SumsOver(SumOver(table, {}), table, {})
  BY <1>1, SumsExist
<1>3. {} \in SUBSET {}
  OBVIOUS
<1>4. SumOver(table, {})[{}] = 0
  BY <1>2, <1>3, Zenon DEF SumsOver
<1>5. QED BY <1>4, WeightIs

LEMMA WeightOfDrawn ==
    ASSUME NEW table, NEW s, IsFiniteSet(s), s # {}
    PROVE  WeightOf(table, s) = table[Drawn(s)] + WeightOf(table, s \ {Drawn(s)})
<1> DEFINE rest == s \ {Drawn(s)}
<1>1. SumsOver(SumOver(table, s), table, s) /\ SumsOver(SumOver(table, rest), table, rest)
  BY SumsExist
<1>2. s \in SUBSET s /\ rest \subseteq s
  OBVIOUS
<1>3. SumOver(table, s)[s] = table[Drawn(s)] + SumOver(table, s)[rest]
  BY <1>1, <1>2, Zenon DEF SumsOver
<1>4. SumOver(table, s)[rest] = SumOver(table, rest)[rest]
  <2> HIDE DEF rest
  <2>1. QED BY <1>1, <1>2, SumsAgree
<1>5. QED BY <1>3, <1>4, WeightIs

LEMMA WeightIsNat ==
    ASSUME NEW D, IsFiniteSet(D), NEW table \in [D -> Nat], NEW s, s \subseteq D
    PROVE  WeightOf(table, s) \in Nat
<1> DEFINE B == {t \in SUBSET D : WeightOf(table, t) \notin Nat}
<1>1. SUFFICES ASSUME B # {} PROVE FALSE
  OBVIOUS
<1>2. PICK t \in B : \A x \in B : ~ (x \subseteq t /\ x # t)
  <2>1. B \subseteq SUBSET D
    OBVIOUS
  <2> HIDE DEF B
  <2>2. QED BY <1>1, <2>1, SmallestSet
<1>3. t # {}
  <2>1. WeightOf(table, {}) \in Nat
    BY WeightOfNothing
  <2>2. QED BY <1>2, <2>1
<1>4. Drawn(t) \in t
  BY <1>3, DrawnIn
<1>5. t \ {Drawn(t)} \notin B
  BY <1>2, <1>4
<1>6. WeightOf(table, t \ {Drawn(t)}) \in Nat
  BY <1>5, <1>2
<1>7. IsFiniteSet(t)
  BY <1>2, FS_Subset
<1>8. WeightOf(table, t) = table[Drawn(t)] + WeightOf(table, t \ {Drawn(t)})
  BY <1>3, <1>7, WeightOfDrawn
<1>9. table[Drawn(t)] \in Nat
  BY <1>2, <1>4
<1>10. QED BY <1>2, <1>6, <1>8, <1>9

LEMMA WeightWithout ==
    ASSUME NEW D, IsFiniteSet(D), NEW table \in [D -> Nat], NEW s, s \subseteq D, NEW x \in s
    PROVE  WeightOf(table, s) = table[x] + WeightOf(table, s \ {x})
<1> DEFINE W(t) == WeightOf(table, t)
           B == {t \in SUBSET D : \E y \in t : W(t) # table[y] + W(t \ {y})}
<1>1. SUFFICES ASSUME B # {} PROVE FALSE
  OBVIOUS
<1>2. PICK t \in B : \A z \in B : ~ (z \subseteq t /\ z # t)
  <2>1. B \subseteq SUBSET D
    OBVIOUS
  <2> HIDE DEF B
  <2>2. QED BY <1>1, <2>1, SmallestSet
<1>3. PICK y \in t : W(t) # table[y] + W(t \ {y})
  BY <1>2
<1> DEFINE d == Drawn(t)
<1>4. d \in t
  BY DrawnIn
<1>5. IsFiniteSet(t) /\ IsFiniteSet(t \ {y})
  BY <1>2, FS_Subset
<1>6. W(t) = table[d] + W(t \ {d})
  BY <1>5, WeightOfDrawn
<1>7. d # y
  BY <1>3, <1>6
<1>8. t \ {d} \notin B /\ t \ {y} \notin B
  BY <1>2, <1>4
<1>9. W(t \ {d}) = table[y] + W((t \ {d}) \ {y})
  <2>1. t \ {d} \in SUBSET D /\ y \in t \ {d}
    BY <1>2, <1>7
  <2>2. QED BY <1>8, <2>1
<1>10. W(t \ {y}) = table[d] + W((t \ {y}) \ {d})
  <2>1. t \ {y} \in SUBSET D /\ d \in t \ {y}
    BY <1>2, <1>4, <1>7
  <2>2. QED BY <1>8, <2>1
<1>11. (t \ {d}) \ {y} = (t \ {y}) \ {d}
  OBVIOUS
<1>12. table[d] \in Nat /\ table[y] \in Nat /\ W((t \ {y}) \ {d}) \in Nat
  <2>1. (t \ {y}) \ {d} \subseteq D
    BY <1>2
  <2>2. QED BY <1>2, <1>4, <2>1, WeightIsNat
<1> HIDE DEF W
<1>13. W(t) = table[d] + (table[y] + W((t \ {y}) \ {d}))
  BY <1>6, <1>9, <1>11
<1>14. QED BY <1>3, <1>10, <1>12, <1>13

(* More facts weigh no less. *)
LEMMA WeightGrows ==
    ASSUME NEW D, IsFiniteSet(D), NEW table \in [D -> Nat], NEW s, NEW t,
           s \subseteq t, t \subseteq D
    PROVE  WeightOf(table, s) <= WeightOf(table, t)
<1> DEFINE W(u) == WeightOf(table, u)
           B == {u \in SUBSET D : s \subseteq u /\ ~ (W(s) <= W(u))}
<1>1. SUFFICES ASSUME B # {} PROVE FALSE
  OBVIOUS
<1>2. PICK u \in B : \A z \in B : ~ (z \subseteq u /\ z # u)
  <2>1. B \subseteq SUBSET D
    OBVIOUS
  <2> HIDE DEF B
  <2>2. QED BY <1>1, <2>1, SmallestSet
<1>3. W(s) \in Nat
  BY WeightIsNat
<1>4. PICK y \in u : y \notin s
  <2>1. CASE u = s
    <3>1. W(s) <= W(s)
      BY <1>3
    <3>2. QED BY <1>2, <2>1, <3>1
  <2>2. QED BY <1>2, <2>1
<1>5. u \ {y} \in SUBSET D /\ s \subseteq u \ {y} /\ u \ {y} \notin B
  BY <1>2, <1>4
<1>6. W(s) <= W(u \ {y})
  BY <1>5
<1>7. W(u) = table[y] + W(u \ {y})
  BY <1>2, WeightWithout
<1>8. W(u \ {y}) \in Nat /\ table[y] \in Nat
  BY <1>2, <1>5, WeightIsNat
<1> HIDE DEF W
<1>9. QED BY <1>2, <1>3, <1>6, <1>7, <1>8

(* The tables of weights are small, and a fact counts with its weight or not
   at all. *)
LEMMA FiveAreFinite == ASSUME NEW a, NEW b, NEW c, NEW d, NEW e PROVE IsFiniteSet({a, b, c, d, e})
<1>1. ASSUME NEW S, IsFiniteSet(S), NEW x PROVE IsFiniteSet(S \union {x})
  BY <1>1, FS_AddElement
<1>2. IsFiniteSet({a} \union {b} \union {c} \union {d} \union {e})
  BY <1>1, FS_Singleton
<1>3. {a, b, c, d, e} = {a} \union {b} \union {c} \union {d} \union {e}
  OBVIOUS
<1>4. QED BY <1>2, <1>3

LEMMA WeightTables ==
    /\ IsFiniteSet(DOMAIN V1Weight) /\ V1Weight \in [DOMAIN V1Weight -> Nat]
    /\ IsFiniteSet(DOMAIN InvestorWeight) /\ InvestorWeight \in [DOMAIN InvestorWeight -> Nat]
    /\ IsFiniteSet(DOMAIN MatchWeight) /\ MatchWeight \in [DOMAIN MatchWeight -> Nat]
<1>1. DOMAIN V1Weight =
          {"emailVerified", "phoneProvided", "website", "linkedin", "companyRegistered"}
          \union {"pitchDeck", "productDemo", "profileCompletion", "founderDetails", "timeline"}
  BY DEF V1Weight
<1>2. DOMAIN InvestorWeight =
          {"emailVerified", "workDomainEmail", "kycDocument", "sebiVerified", "mcaVerified"}
          \union {"responseRate", "responseRate", "responseRate", "responseRate", "profileComplete"}
  BY DEF InvestorWeight
<1>3. DOMAIN MatchWeight = {"industry", "stage", "funding", "geography", "openForPitches"}
  BY DEF MatchWeight
<1>4. IsFiniteSet(DOMAIN V1Weight) /\ IsFiniteSet(DOMAIN InvestorWeight) /\ IsFiniteSet(DOMAIN MatchWeight)
  <2>1. ASSUME NEW S, NEW T, IsFiniteSet(S), IsFiniteSet(T) PROVE IsFiniteSet(S \union T)
    BY <2>1, FS_Union
  <2> DEFINE A == {"emailVerified", "phoneProvided", "website", "linkedin", "companyRegistered"}
             B == {"pitchDeck", "productDemo", "profileCompletion", "founderDetails", "timeline"}
  <2>2. IsFiniteSet(A) /\ IsFiniteSet(B) /\ DOMAIN V1Weight = A \union B
    BY <1>1, FiveAreFinite
  <2> DEFINE C == {"emailVerified", "workDomainEmail", "kycDocument", "sebiVerified", "mcaVerified"}
             E == {"responseRate", "responseRate", "responseRate", "responseRate", "profileComplete"}
  <2>3. IsFiniteSet(C) /\ IsFiniteSet(E) /\ DOMAIN InvestorWeight = C \union E
    BY <1>2, FiveAreFinite
  <2>4. IsFiniteSet(DOMAIN MatchWeight)
    <3>1. IsFiniteSet({"industry", "stage", "funding", "geography", "openForPitches"})
      BY FiveAreFinite
    <3>2. QED BY <1>3, <3>1
  <2> HIDE DEF A, B, C, E
  <2>5. QED BY <2>1, <2>2, <2>3, <2>4
<1>5. QED BY <1>4 DEF V1Weight, InvestorWeight, MatchWeight

LEMMA WeightApart ==
    ASSUME NEW D, IsFiniteSet(D), NEW table \in [D -> Nat], NEW s, s \subseteq D, NEW x
    PROVE  /\ WeightOf(table, s) = If(x \in s, table[x]) + WeightOf(table, s \ {x})
           /\ WeightOf(table, s \ {x}) \in Nat
<1>1. WeightOf(table, s \ {x}) \in Nat
  BY WeightIsNat
<1>2. CASE x \in s
  BY <1>1, <1>2, WeightWithout DEF If
<1>3. CASE x \notin s
  <2>1. s \ {x} = s
    BY <1>3
  <2>2. If(x \in s, table[x]) = 0
    BY <1>3 DEF If
  <2>3. QED BY <1>1, <2>1, <2>2
<1>4. QED BY <1>2, <1>3

FiveApart(table, s, a, b, c, d, e) ==
    /\ WeightOf(table, s) =
           If(a \in s, table[a]) + If(b \in s, table[b]) + If(c \in s, table[c])
           + If(d \in s, table[d]) + If(e \in s, table[e])
           + WeightOf(table, s \ {a, b, c, d, e})
    /\ WeightOf(table, s \ {a, b, c, d, e}) \in Nat

LEMMA FiveCount ==
    ASSUME NEW D, IsFiniteSet(D), NEW table \in [D -> Nat], NEW s, s \subseteq D,
           NEW a, NEW b, NEW c, NEW d, NEW e,
           a \notin {b, c, d, e}, b \notin {c, d, e}, c \notin {d, e}, d # e
    PROVE  FiveApart(table, s, a, b, c, d, e)
<1> DEFINE Apart(u, x, less) ==
        /\ WeightOf(table, u) = If(x \in s, table[x]) + WeightOf(table, less)
        /\ WeightOf(table, less) \in Nat
        /\ If(x \in s, table[x]) \in Nat
<1>1. ASSUME NEW u, u \subseteq s, NEW x, x \in u <=> x \in s, NEW less, less = u \ {x}
      PROVE  Apart(u, x, less)
  <2>1. If(x \in u, table[x]) = If(x \in s, table[x]) /\ If(x \in s, table[x]) \in Nat
    BY <1>1 DEF If
  <2>2. u \subseteq D
    BY <1>1
  <2>3. QED BY <1>1, <2>1, <2>2, WeightApart
<1>2. Apart(s, a, s \ {a})
  BY <1>1
<1> HIDE DEF Apart
<1>3. Apart(s \ {a}, b, s \ {a, b})
  <2>1. s \ {a} \subseteq s /\ (b \in s \ {a} <=> b \in s) /\ s \ {a, b} = (s \ {a}) \ {b}
    OBVIOUS
  <2>2. QED BY <1>1, <2>1
<1>4. Apart(s \ {a, b}, c, s \ {a, b, c})
  <2>1. s \ {a, b} \subseteq s /\ (c \in s \ {a, b} <=> c \in s) /\ s \ {a, b, c} = (s \ {a, b}) \ {c}
    OBVIOUS
  <2>2. QED BY <1>1, <2>1
<1>5. Apart(s \ {a, b, c}, d, s \ {a, b, c, d})
  <2>1. s \ {a, b, c} \subseteq s /\ (d \in s \ {a, b, c} <=> d \in s) /\ s \ {a, b, c, d} = (s \ {a, b, c}) \ {d}
    OBVIOUS
  <2>2. QED BY <1>1, <2>1
<1>6. Apart(s \ {a, b, c, d}, e, s \ {a, b, c, d, e})
  <2>1. s \ {a, b, c, d} \subseteq s /\ (e \in s \ {a, b, c, d} <=> e \in s) /\ s \ {a, b, c, d, e} = (s \ {a, b, c, d}) \ {e}
    OBVIOUS
  <2>2. QED BY <1>1, <2>1
<1>7. QED BY <1>2, <1>3, <1>4, <1>5, <1>6 DEF Apart, FiveApart

LEMMA V1Sum ==
    ASSUME NEW earned, earned \subseteq DOMAIN V1Weight
    PROVE  WeightOf(V1Weight, earned) =
               If("emailVerified" \in earned, 15) + If("phoneProvided" \in earned, 5)
               + If("website" \in earned, 10) + If("linkedin" \in earned, 10)
               + If("companyRegistered" \in earned, 15) + If("pitchDeck" \in earned, 15)
               + If("productDemo" \in earned, 10) + If("profileCompletion" \in earned, 10)
               + If("founderDetails" \in earned, 5) + If("timeline" \in earned, 5)
<1> DEFINE first == {"emailVerified", "phoneProvided", "website", "linkedin", "companyRegistered"}
           rest == earned \ first
           second == {"pitchDeck", "productDemo", "profileCompletion", "founderDetails", "timeline"}
<1>1. IsFiniteSet(DOMAIN V1Weight) /\ V1Weight \in [DOMAIN V1Weight -> Nat]
  BY WeightTables
<1>2. rest \subseteq DOMAIN V1Weight
  OBVIOUS
<1>3. FiveApart(V1Weight, earned, "emailVerified", "phoneProvided", "website", "linkedin", "companyRegistered")
  BY <1>1, FiveCount
<1>4. FiveApart(V1Weight, rest, "pitchDeck", "productDemo", "profileCompletion", "founderDetails", "timeline")
  BY <1>1, <1>2, FiveCount
<1>5. /\ rest \ second = {} /\ \A k \in second : k \in rest <=> k \in earned
      /\ WeightOf(V1Weight, {}) = 0
  BY WeightOfNothing DEF V1Weight
<1>6. /\ V1Weight["pitchDeck"] = 15 /\ V1Weight["productDemo"] = 10 /\ V1Weight["profileCompletion"] = 10
      /\ V1Weight["founderDetails"] = 5 /\ V1Weight["timeline"] = 5
      /\ V1Weight["emailVerified"] = 15 /\ V1Weight["phoneProvided"] = 5 /\ V1Weight["website"] = 10
      /\ V1Weight["linkedin"] = 10 /\ V1Weight["companyRegistered"] = 15
  BY DEF V1Weight
<1>7. QED BY <1>3, <1>4, <1>5, <1>6 DEF FiveApart, If

LEMMA InvestorSum ==
    ASSUME NEW earned, earned \subseteq DOMAIN InvestorWeight
    PROVE  WeightOf(InvestorWeight, earned) =
               If("emailVerified" \in earned, 10) + If("workDomainEmail" \in earned, 15)
               + If("kycDocument" \in earned, 20) + If("sebiVerified" \in earned, 25)
               + If("mcaVerified" \in earned, 10) + If("responseRate" \in earned, 15)
               + If("profileComplete" \in earned, 5)
<1> DEFINE first == {"emailVerified", "workDomainEmail", "kycDocument", "sebiVerified", "mcaVerified"}
           rest == earned \ first
           last == rest \ {"responseRate"}
<1>1. IsFiniteSet(DOMAIN InvestorWeight) /\ InvestorWeight \in [DOMAIN InvestorWeight -> Nat]
  BY WeightTables
<1>2. rest \subseteq DOMAIN InvestorWeight /\ last \subseteq DOMAIN InvestorWeight
  OBVIOUS
<1>3. FiveApart(InvestorWeight, earned, "emailVerified", "workDomainEmail", "kycDocument", "sebiVerified", "mcaVerified")
  BY <1>1, FiveCount
<1>4. WeightOf(InvestorWeight, rest) =
          If("responseRate" \in rest, InvestorWeight["responseRate"]) + WeightOf(InvestorWeight, last)
  BY <1>1, <1>2, WeightApart
<1>5. WeightOf(InvestorWeight, last) =
          If("profileComplete" \in last, InvestorWeight["profileComplete"])
          + WeightOf(InvestorWeight, last \ {"profileComplete"})
  BY <1>1, <1>2, WeightApart
<1>6. /\ last \ {"profileComplete"} = {}
      /\ "responseRate" \in rest <=> "responseRate" \in earned
      /\ "profileComplete" \in last <=> "profileComplete" \in earned
      /\ WeightOf(InvestorWeight, {}) = 0
  BY WeightOfNothing DEF InvestorWeight
<1>7. /\ InvestorWeight["emailVerified"] = 10 /\ InvestorWeight["workDomainEmail"] = 15
      /\ InvestorWeight["kycDocument"] = 20 /\ InvestorWeight["sebiVerified"] = 25
      /\ InvestorWeight["mcaVerified"] = 10 /\ InvestorWeight["responseRate"] = 15
      /\ InvestorWeight["profileComplete"] = 5
  BY DEF InvestorWeight
<1>8. QED BY <1>3, <1>4, <1>5, <1>6, <1>7 DEF FiveApart, If

LEMMA MatchSum ==
    ASSUME NEW earned, earned \subseteq DOMAIN MatchWeight
    PROVE  WeightOf(MatchWeight, earned) =
               If("industry" \in earned, 30) + If("stage" \in earned, 25) + If("funding" \in earned, 20)
               + If("geography" \in earned, 15) + If("openForPitches" \in earned, 10)
<1>1. IsFiniteSet(DOMAIN MatchWeight) /\ MatchWeight \in [DOMAIN MatchWeight -> Nat]
  BY WeightTables
<1>2. FiveApart(MatchWeight, earned, "industry", "stage", "funding", "geography", "openForPitches")
  BY <1>1, FiveCount
<1>3. /\ earned \ {"industry", "stage", "funding", "geography", "openForPitches"} = {}
      /\ WeightOf(MatchWeight, {}) = 0
  BY WeightOfNothing DEF MatchWeight
<1>4. /\ MatchWeight["industry"] = 30 /\ MatchWeight["stage"] = 25 /\ MatchWeight["funding"] = 20
      /\ MatchWeight["geography"] = 15 /\ MatchWeight["openForPitches"] = 10
  BY DEF MatchWeight
<1>5. QED BY <1>2, <1>3, <1>4 DEF FiveApart, If

(* A profile with more in it is no less complete; one with all of it is
   complete. *)
CompletionChecks == {"website", "pitchDeck", "team", "verified", "demo", "revenue", "recentMilestone"}

LEMMA CompletionGrows ==
    /\ \A f, g : f \subseteq g => CompletionPercent(f) <= CompletionPercent(g)
    /\ \A f : CompletionPercent(f) \in Nat
    /\ CompletionPercent(StartupFact) = 100
<1> DEFINE Checks(f) == Cardinality(f \intersect CompletionChecks)
<1>1. IsFiniteSet(CompletionChecks) /\ Cardinality(CompletionChecks) = 7
  <2>1. ASSUME NEW S, IsFiniteSet(S), NEW x, x \notin S
        PROVE  IsFiniteSet(S \union {x}) /\ Cardinality(S \union {x}) = Cardinality(S) + 1
    BY <2>1, FS_AddElement
  <2> DEFINE A == {"website"} \union {"pitchDeck"}
             B == A \union {"team"}
             C == B \union {"verified"}
             D == C \union {"demo"}
             E == D \union {"revenue"}
  <2>2. IsFiniteSet({"website"}) /\ Cardinality({"website"}) = 1
    BY FS_Singleton
  <2>3. IsFiniteSet(A) /\ Cardinality(A) = 2
    BY <2>1, <2>2
  <2>4. IsFiniteSet(B) /\ Cardinality(B) = 3
    BY <2>1, <2>3
  <2>5. IsFiniteSet(C) /\ Cardinality(C) = 4
    BY <2>1, <2>4
  <2>6. IsFiniteSet(D) /\ Cardinality(D) = 5
    BY <2>1, <2>5
  <2>7. IsFiniteSet(E) /\ Cardinality(E) = 6
    BY <2>1, <2>6
  <2>8. "recentMilestone" \notin E
    OBVIOUS
  <2>9. IsFiniteSet(E \union {"recentMilestone"}) /\ Cardinality(E \union {"recentMilestone"}) = 7
    <3> HIDE DEF E
    <3>1. QED BY <2>1, <2>7, <2>8
  <2>10. CompletionChecks = E \union {"recentMilestone"}
    BY DEF CompletionChecks
  <2>11. QED BY <2>9, <2>10
<1>2. ASSUME NEW f, NEW g, f \subseteq g
      PROVE  Checks(f) \in Nat /\ Checks(g) \in Nat /\ Checks(f) <= Checks(g)
  <2>1. IsFiniteSet(g \intersect CompletionChecks)
    BY <1>1, FS_Subset
  <2>2. f \intersect CompletionChecks \subseteq g \intersect CompletionChecks
    BY <1>2
  <2>3. IsFiniteSet(f \intersect CompletionChecks)
    BY <2>1, <2>2, FS_Subset
  <2>4. QED BY <2>1, <2>2, <2>3, FS_Subset, FS_CardinalityType
<1>3. \A f : CompletionPercent(f) = (200 * Checks(f) + 7) \div 14
  BY DEF CompletionPercent, CompletionChecks
<1>4. Checks(StartupFact) = 7
  <2>1. StartupFact \intersect CompletionChecks = CompletionChecks
    BY DEF StartupFact, CompletionChecks
  <2>2. QED BY <1>1, <2>1
<1> HIDE DEF Checks
<1>5. ASSUME NEW f, NEW g, f \subseteq g
      PROVE  CompletionPercent(f) \in Nat /\ CompletionPercent(f) <= CompletionPercent(g)
  BY <1>2, <1>3, <1>5
<1>6. QED BY <1>3, <1>4, <1>5

LEMMA EarnedGrows ==
    ASSUME NEW f, NEW g, f \subseteq g
    PROVE  EarnedV1(f) \subseteq EarnedV1(g) /\ EarnedV1(f) \subseteq DOMAIN V1Weight
<1>1. CompletionPercent(f) \in Nat /\ CompletionPercent(g) \in Nat
      /\ CompletionPercent(f) <= CompletionPercent(g)
  BY CompletionGrows
<1>2. CompletionPercent(f) >= 80 => CompletionPercent(g) >= 80
  BY <1>1
<1>3. QED BY <1>2 DEF EarnedV1, V1Weight

(* A higher score reaches no fewer thresholds. *)
LEMMA RankGrows ==
    ASSUME NEW low \in Nat, NEW high \in Nat, low <= high
    PROVE  /\ BandRank(low, V1Thresholds) <= BandRank(high, V1Thresholds)
           /\ BandRank(low, InvestorThresholds) <= BandRank(high, InvestorThresholds)
<1>1. ASSUME NEW T, IsFiniteSet(T), T \subseteq Nat PROVE BandRank(low, T) <= BandRank(high, T)
  <2> DEFINE Reached(n) == {x \in T : n >= x}
  <2>1. Reached(low) \subseteq Reached(high)
    <3>1. ASSUME NEW x \in T, low >= x PROVE high >= x
      BY <1>1, <3>1
    <3>2. QED BY <3>1, Zenon
  <2>2. Reached(high) \subseteq T
    OBVIOUS
  <2>3. IsFiniteSet(Reached(high))
    BY <1>1, <2>2, FS_Subset
  <2>4. Cardinality(Reached(low)) <= Cardinality(Reached(high))
    BY <2>1, <2>3, FS_Subset
  <2>5. QED BY <2>4 DEF BandRank
<1>2. IsFiniteSet({40, 70, 90}) /\ IsFiniteSet({25, 45, 65, 85})
  <2>1. IsFiniteSet({40, 70, 90, 90, 90}) /\ IsFiniteSet({25, 45, 65, 85, 85})
    BY FiveAreFinite
  <2>2. {40, 70, 90, 90, 90} = {40, 70, 90} /\ {25, 45, 65, 85, 85} = {25, 45, 65, 85}
    OBVIOUS
  <2>3. QED BY <2>1, <2>2
<1>3. QED BY <1>1, <1>2 DEF V1Thresholds, InvestorThresholds

(* The replica adds up what the service does. *)
LEMMA ReplicaAgrees == \A f : V1(f) = ComputeTrustV1(f)
<1> SUFFICES ASSUME NEW f PROVE V1(f) = ComputeTrustV1(f)
  OBVIOUS
<1>1. EarnedV1(f) \subseteq DOMAIN V1Weight
  BY EarnedGrows
<1>2. \A k \in DOMAIN V1Weight : k \in EarnedV1(f) <=>
          CASE k = "phoneProvided" -> "phone" \in f
            [] k = "companyRegistered" -> "registered" \in f
            [] k = "productDemo" -> "demo" \in f
            [] k = "profileCompletion" -> CompletionPercent(f) >= 80
            [] k = "founderDetails" -> {"bio", "city"} \subseteq f
            [] k = "timeline" -> "milestone" \in f
            [] OTHER -> k \in f
  BY DEF EarnedV1
<1>3. /\ "emailVerified" \in EarnedV1(f) <=> "emailVerified" \in f
      /\ "phoneProvided" \in EarnedV1(f) <=> "phone" \in f
      /\ "website" \in EarnedV1(f) <=> "website" \in f
      /\ "linkedin" \in EarnedV1(f) <=> "linkedin" \in f
      /\ "companyRegistered" \in EarnedV1(f) <=> "registered" \in f
      /\ "pitchDeck" \in EarnedV1(f) <=> "pitchDeck" \in f
      /\ "productDemo" \in EarnedV1(f) <=> "demo" \in f
      /\ "profileCompletion" \in EarnedV1(f) <=> CompletionPercent(f) >= 80
      /\ "founderDetails" \in EarnedV1(f) <=> {"bio", "city"} \subseteq f
      /\ "timeline" \in EarnedV1(f) <=> "milestone" \in f
  BY <1>2 DEF V1Weight
<1>4. QED BY <1>1, <1>3, V1Sum DEF V1, ComputeTrustV1, If

(* Each score stays within 0..100, grows with the facts, and is 100 with all
   of them. *)
LEMMA SumBounds ==
    /\ WeightOf(V1Weight, DOMAIN V1Weight) = 100
    /\ WeightOf(InvestorWeight, DOMAIN InvestorWeight) = 100
    /\ WeightOf(MatchWeight, DOMAIN MatchWeight) = 100
<1>1. WeightOf(V1Weight, DOMAIN V1Weight) = 100
  BY V1Sum DEF If, V1Weight
<1>2. WeightOf(InvestorWeight, DOMAIN InvestorWeight) = 100
  BY InvestorSum DEF If, InvestorWeight
<1>3. WeightOf(MatchWeight, DOMAIN MatchWeight) = 100
  BY MatchSum DEF If, MatchWeight
<1>4. QED BY <1>1, <1>2, <1>3

LEMMA ScoreGrows ==
    ASSUME ScoresTypeOK, NEW f, NEW g, f \subseteq g, g \subseteq FactsOf(scored)
    PROVE  /\ Score(f) \in Nat /\ Score(g) \in Nat
           /\ Score(f) <= Score(g) /\ Score(g) <= 100
           /\ g = FactsOf(scored) => Score(g) = 100
<1>1. ASSUME NEW D, IsFiniteSet(D), NEW table \in [D -> Nat], WeightOf(table, D) = 100,
             NEW s, NEW t, s \subseteq t, t \subseteq D
      PROVE  /\ WeightOf(table, s) \in Nat /\ WeightOf(table, t) \in Nat
             /\ WeightOf(table, s) <= WeightOf(table, t) /\ WeightOf(table, t) <= 100
  <2>1. s \subseteq D /\ D \subseteq D
    BY <1>1
  <2>2. WeightOf(table, s) \in Nat /\ WeightOf(table, t) \in Nat
    BY <1>1, <2>1, WeightIsNat
  <2>3. WeightOf(table, s) <= WeightOf(table, t)
    BY <1>1, WeightGrows
  <2>4. WeightOf(table, t) <= WeightOf(table, D)
    BY <1>1, <2>1, WeightGrows
  <2>5. QED BY <1>1, <2>2, <2>3, <2>4
<1>2. CASE scored = "startup"
  <2>1. EarnedV1(f) \subseteq EarnedV1(g) /\ EarnedV1(g) \subseteq DOMAIN V1Weight
    BY EarnedGrows
  <2>2. /\ V1(f) \in Nat /\ V1(g) \in Nat
        /\ V1(f) <= V1(g) /\ V1(g) <= 100
    BY <1>1, <2>1, WeightTables, SumBounds DEF V1
  <2>3. EarnedV1(StartupFact) = DOMAIN V1Weight
    BY CompletionGrows DEF EarnedV1, V1Weight, StartupFact
  <2>4. V1(StartupFact) = 100
    BY <2>3, SumBounds DEF V1
  <2>5. QED BY <1>2, <2>2, <2>4 DEF Score, FactsOf
<1>3. CASE scored = "investor"
  <2>1. Score(f) = WeightOf(InvestorWeight, f) /\ Score(g) = WeightOf(InvestorWeight, g)
        /\ FactsOf(scored) = DOMAIN InvestorWeight
    BY <1>3 DEF Score, FactsOf
  <2>2. QED BY <1>1, <2>1, WeightTables, SumBounds
<1>4. CASE scored = "match"
  <2>1. Score(f) = WeightOf(MatchWeight, f) /\ Score(g) = WeightOf(MatchWeight, g)
        /\ FactsOf(scored) = DOMAIN MatchWeight
    BY <1>4 DEF Score, FactsOf
  <2>2. QED BY <1>1, <2>1, WeightTables, SumBounds
<1>5. QED BY <1>2, <1>3, <1>4, ScoresAssumption DEF ScoresTypeOK

LEMMA ScoresTyped == ScoresSpec => []ScoresTypeOK
<1>1. ScoresInit => ScoresTypeOK
  BY DEF ScoresInit, ScoresTypeOK
<1>2. ScoresTypeOK /\ [ScoresNext]_scoreVars => ScoresTypeOK'
  BY DEF ScoresNext, FactChanges, ScoresTypeOK, scoreVars
<1>3. QED BY <1>1, <1>2, PTL DEF ScoresSpec

(* Whatever facts a startup, an investor or a match has, one more costs it
   neither a point nor a band, all of them are worth 100, and the replica of
   trust-compare.ts gives the startup the score that the service gives it. *)
THEOREM ScoresFollow == ScoresSpec => ScoresFollowFacts
<1> DEFINE Follows ==
        facts # facts' /\ facts \subseteq facts' =>
          LET before == Score(facts)
              after == Score(facts') IN
          /\ before <= after /\ after <= 100
          /\ Band(before) <= Band(after)
          /\ facts' = FactsOf(scored) => after = 100
          /\ scored = "startup" => ComputeTrustV1(facts') = after
<1>1. ScoresTypeOK /\ [ScoresNext]_scoreVars => [Follows]_scoreVars
  <2> SUFFICES ASSUME ScoresTypeOK, FactChanges, facts \subseteq facts'
               PROVE  Follows
    BY DEF ScoresNext
  <2> DEFINE before == Score(facts)
             after == Score(facts')
  <2>1. facts' \subseteq FactsOf(scored)
    BY DEF FactChanges, ScoresTypeOK
  <2>2. /\ before \in Nat /\ after \in Nat /\ before <= after /\ after <= 100
        /\ facts' = FactsOf(scored) => after = 100
    BY <2>1, ScoreGrows
  <2>3. scored = "startup" => ComputeTrustV1(facts') = after
    BY ReplicaAgrees DEF Score
  <2>4. Band(before) <= Band(after)
    <3> HIDE DEF before, after
    <3>1. QED BY <2>2, RankGrows DEF Band
  <2>5. QED BY <2>2, <2>3, <2>4
<1>2. QED BY <1>1, ScoresTyped, PTL DEF ScoresSpec, ScoresFollowFacts

------------------------------------------------------------------------------
(* What the instance puts side by side. *)
LEMMA MembersAreAll == MembersSpec => Spec /\ SessionsSpec /\ ScoresSpec
<1>1. MembersInit => Init /\ SessionsInit /\ ScoresInit
  BY DEF MembersInit
<1>2. [MembersNext]_<<turn, vars, serverVars, scoreVars>>
        => [Next]_vars /\ [SessionsNext]_serverVars /\ [ScoresNext]_scoreVars
  BY DEF MembersNext
<1>3. QED BY <1>1, <1>2, PTL DEF MembersSpec, Spec, SessionsSpec, ScoresSpec

(* The draft of the wizard never loses an answer while nothing overlaps and
   never holds one that was not typed; the sessions and the scores are well
   formed: whichever of them a behaviour is about, its states are sound. *)
THEOREM MembersSound == MembersSpec => []MembersAreSound
<1>1. WizardIsSound /\ SessionsTypeOK /\ ScoresTypeOK => MembersAreSound
  BY DEF MembersAreSound
<1>2. WizardInv /\ SessionsInv /\ ScoresTypeOK => MembersAreSound
  BY <1>1, WizardInvIsSound DEF SessionsInv
<1>3. QED BY <1>2, MembersAreAll, WizardInvariant, SessionsInvariant, ScoresTyped, PTL
==============================================================================

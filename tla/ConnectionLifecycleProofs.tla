----------------------- MODULE ConnectionLifecycleProofs -----------------------
(* TLAPS proofs about ConnectionLifecycle, for any number of connections and
   of requests on either side. *)
EXTENDS ConnectionLifecycle, FiniteSetTheorems, TLAPS

N == Cardinality(RecipientTabs)

(* Counting the investor's requests. *)
LEMMA TabCounts ==
  ASSUME NEW A \in SUBSET RecipientTabs
  PROVE  /\ Cardinality(A) \in Nat /\ N \in Nat
         /\ Cardinality(A) <= N
         /\ \A B \in SUBSET A : Cardinality(B) <= Cardinality(A)
         /\ \A t \in A : Cardinality(A \ {t}) = Cardinality(A) - 1
<1>1. IsFiniteSet(RecipientTabs)
  BY CLAssumption
<1>2. IsFiniteSet(A) /\ Cardinality(A) <= N
  BY <1>1, FS_Subset DEF N
<1>3. Cardinality(A) \in Nat /\ N \in Nat
  BY <1>1, <1>2, FS_CardinalityType DEF N
<1>4. \A B \in SUBSET A : Cardinality(B) <= Cardinality(A)
  BY <1>2, FS_Subset
<1>5. \A t \in A : Cardinality(A \ {t}) = Cardinality(A) - 1
  BY <1>2, FS_RemoveElement
<1>6. QED BY <1>2, <1>3, <1>4, <1>5

(* Where the callers of the three kinds stand. *)
LEMMA Sides ==
  ASSUME NEW t \in Tabs
  PROVE  /\ t \in RecipientTabs => Member(t) /\ Side(t) = "recipient"
         /\ Member(t) => Side(t) \in Party /\ Other(Side(t)) \in Party
                         /\ Other(Other(Side(t))) = Side(t)
         /\ Other(Side(t)) \in Party
BY CLAssumption DEF Tabs, Member, Side, Other, Party

------------------------------------------------------------------------------
(* What a request may rely on at each step, because of what it checked or
   wrote before: the writes it made are never undone by others. *)
Earned(t) ==
    LET q == tab[t] IN
    /\ q.step # "idle" => q.op # "none"
    /\ q.step # "idle" /\ q.op \in {"respond", "info"} => t \in RecipientTabs
    /\ q.step # "idle" => Member(t)
    /\ q.step = "write" /\ q.op = "message" => "ACCEPTED" \in Written(q.conn)
    /\ q.step = "lookup" =>
         CASE q.op = "respond" -> q.answer = "ACCEPTED" /\ "ACCEPTED" \in Written(q.conn)
           [] q.op = "info"    -> info[q.conn]
           [] q.op = "meeting" -> Side(t) \in meetings[q.conn]
           [] q.op = "message" -> Side(t) \in messages[q.conn]
    /\ q.step = "audit" => q.answer \in Written(q.conn)

AllEarned == \A t \in Tabs : Earned(t)

(* The status is the last answer written. *)
StatusWritten ==
    \A c \in Conns : IF status[c] = "PENDING" THEN Written(c) = {} ELSE status[c] \in Written(c)

(* Answers under way count as written: nobody starts one once one is. *)
AnswersInv == \A c \in Conns : Writes(c) + Cardinality(Deciding(c)) <= N

Sound == TypeOK /\ AllEarned /\ StatusWritten /\ NoticesJustified

(* Writing an answer adds it to the answers written, and takes none away. *)
LEMMA WrittenGrows ==
  ASSUME TypeOK, NEW c \in Conns, NEW a \in Answer,
         written' = [written EXCEPT ![c][a] = @ + 1]
  PROVE  /\ written' \in [Conns -> [Answer -> Nat]]
         /\ \A d \in Conns : Written(d)' = Written(d) \union (IF d = c THEN {a} ELSE {})
         /\ Writes(c)' = Writes(c) + 1
         /\ \A d \in Conns \ {c} : Writes(d)' = Writes(d)
<1>1. written' \in [Conns -> [Answer -> Nat]]
  BY DEF TypeOK
<1>2. \A d \in Conns, b \in Answer :
         written'[d][b] = IF d = c /\ b = a THEN written[d][b] + 1 ELSE written[d][b]
  BY DEF TypeOK
<1>3. \A d \in Conns, b \in Answer : written[d][b] \in Nat
  BY DEF TypeOK
<1>4. \A d \in Conns : Written(d)' = Written(d) \union (IF d = c THEN {a} ELSE {})
  BY <1>2, <1>3 DEF Written
<1>5. Writes(c)' = Writes(c) + 1
  BY <1>2, <1>3 DEF Writes, Answer
<1>6. \A d \in Conns \ {c} : Writes(d)' = Writes(d)
  BY <1>2 DEF Writes, Answer
<1>7. QED BY <1>1, <1>4, <1>5, <1>6

(* The forms of a request. *)
LEMMA RequestForms ==
  ASSUME NEW q \in Request, NEW c \in Conns, NEW a \in Answer
  PROVE  /\ Idle(q.conn) \in Request
         /\ \A s \in Step : /\ [q EXCEPT !.step = s] \in Request
                            /\ [q EXCEPT !.step = s].step = s
                            /\ [q EXCEPT !.step = s].op = q.op
                            /\ [q EXCEPT !.step = s].conn = q.conn
                            /\ [q EXCEPT !.step = s].answer = q.answer
         /\ \A op \in Op : [op |-> op, step |-> "write", conn |-> c, answer |-> a] \in Request
BY DEF Request, Idle, Op, Step, Answer

(* A request that ends, moves on or begins leaves the other tabs alone. *)
LEMMA TabForms ==
  ASSUME TypeOK, NEW t \in Tabs
  PROVE  /\ Finish(t) => /\ tab' \in [Tabs -> Request]
                         /\ tab'[t].step = "idle"
                         /\ \A u \in Tabs \ {t} : tab'[u] = tab[u]
         /\ \A s \in Step : Goto(t, s) =>
                         /\ tab' \in [Tabs -> Request]
                         /\ tab'[t].step = s /\ tab'[t].op = tab[t].op
                         /\ tab'[t].conn = tab[t].conn /\ tab'[t].answer = tab[t].answer
                         /\ \A u \in Tabs \ {t} : tab'[u] = tab[u]
         /\ \A op \in Op, c \in Conns, a \in Answer : Begin(t, op, c, a) =>
                         /\ tab' \in [Tabs -> Request]
                         /\ tab'[t].step = "write" /\ tab'[t].op = op
                         /\ tab'[t].conn = c /\ tab'[t].answer = a
                         /\ \A u \in Tabs \ {t} : tab'[u] = tab[u]
<1>0. tab \in [Tabs -> Request] /\ tab[t] \in Request /\ tab[t].conn \in Conns
      /\ "IGNORED" \in Answer
  BY DEF TypeOK, Request, Answer
<1>1. ASSUME Finish(t)
      PROVE  /\ tab' \in [Tabs -> Request] /\ tab'[t].step = "idle"
             /\ \A u \in Tabs \ {t} : tab'[u] = tab[u]
  <2>1. tab' = [tab EXCEPT ![t] = Idle(tab[t].conn)]
    BY <1>1 DEF Finish
  <2>2. Idle(tab[t].conn) \in Request /\ Idle(tab[t].conn).step = "idle"
    BY <1>0, RequestForms DEF Idle
  <2>3. QED BY <1>0, <2>1, <2>2
<1>2. ASSUME NEW s \in Step, Goto(t, s)
      PROVE  /\ tab' \in [Tabs -> Request]
             /\ tab'[t].step = s /\ tab'[t].op = tab[t].op
             /\ tab'[t].conn = tab[t].conn /\ tab'[t].answer = tab[t].answer
             /\ \A u \in Tabs \ {t} : tab'[u] = tab[u]
  <2> DEFINE q == [tab[t] EXCEPT !.step = s]
  <2>1. tab' = [tab EXCEPT ![t] = q]
    BY <1>2 DEF Goto
  <2>2. /\ q \in Request /\ q.step = s /\ q.op = tab[t].op
        /\ q.conn = tab[t].conn /\ q.answer = tab[t].answer
    BY <1>0, RequestForms
  <2> HIDE DEF q
  <2>3. QED BY <1>0, <2>1, <2>2
<1>3. ASSUME NEW op \in Op, NEW c \in Conns, NEW a \in Answer, Begin(t, op, c, a)
      PROVE  /\ tab' \in [Tabs -> Request]
             /\ tab'[t].step = "write" /\ tab'[t].op = op
             /\ tab'[t].conn = c /\ tab'[t].answer = a
             /\ \A u \in Tabs \ {t} : tab'[u] = tab[u]
  <2>1. [op |-> op, step |-> "write", conn |-> c, answer |-> a] \in Request
    BY <1>0, RequestForms
  <2>2. QED BY <1>0, <1>3, <2>1 DEF Begin
<1>4. QED BY <1>1, <1>2, <1>3

------------------------------------------------------------------------------
(* Nothing a request or a notice relies on is ever taken back. *)
Grown ==
    /\ \A c \in Conns : /\ Written(c) \subseteq Written(c)'
                        /\ info[c] => info'[c]
                        /\ meetings[c] \subseteq meetings'[c]
                        /\ messages[c] \subseteq messages'[c]

LEMMA EarnedStays ==
  ASSUME TypeOK, Grown, NEW u \in Tabs, Earned(u), tab'[u] = tab[u]
  PROVE  Earned(u)'
<1>1. PICK c \in Conns : c = tab[u].conn
  BY DEF TypeOK, Request
<1>2. tab[u].op \in Op
  BY DEF TypeOK, Request
<1>3. /\ Written(c) \subseteq Written(c)'
      /\ info[c] => info'[c]
      /\ meetings[c] \subseteq meetings'[c]
      /\ messages[c] \subseteq messages'[c]
  BY DEF Grown
<1>4. /\ tab[u].step = "lookup" => tab[u].op \in {"respond", "info", "meeting", "message"}
      /\ tab[u].step = "lookup" /\ tab[u].op = "respond"
           => tab[u].answer = "ACCEPTED" /\ "ACCEPTED" \in Written(c)
      /\ tab[u].step = "lookup" /\ tab[u].op = "info" => info[c]
      /\ tab[u].step = "lookup" /\ tab[u].op = "meeting" => Side(u) \in meetings[c]
      /\ tab[u].step = "lookup" /\ tab[u].op = "message" => Side(u) \in messages[c]
      /\ tab[u].step = "audit" => tab[u].answer \in Written(c)
      /\ tab[u].step = "write" /\ tab[u].op = "message" => "ACCEPTED" \in Written(c)
  BY <1>1, <1>2 DEF Earned, Op, Written
<1>5. /\ tab[u].step = "lookup" /\ tab[u].op = "respond"
           => tab[u].answer = "ACCEPTED" /\ "ACCEPTED" \in Written(c)'
      /\ tab[u].step = "lookup" /\ tab[u].op = "info" => info'[c]
      /\ tab[u].step = "lookup" /\ tab[u].op = "meeting" => Side(u) \in meetings'[c]
      /\ tab[u].step = "lookup" /\ tab[u].op = "message" => Side(u) \in messages'[c]
      /\ tab[u].step = "audit" => tab[u].answer \in Written(c)'
      /\ tab[u].step = "write" /\ tab[u].op = "message" => "ACCEPTED" \in Written(c)'
  BY <1>3, <1>4
<1>6. QED BY <1>1, <1>4, <1>5 DEF Earned, Member, Side, Written

(* A notice, a message or an audit row keeps its cause. *)
Justified(c) ==
    /\ messages[c] # {} => "ACCEPTED" \in Written(c)
    /\ audit[c] \subseteq Written(c)
    /\ \A n \in notices[c] :
          CASE n[1] = "accepted" -> n[2] = "requester" /\ "ACCEPTED" \in Written(c)
            [] n[1] = "info"     -> n[2] = "requester" /\ info[c]
            [] n[1] = "meeting"  -> Other(n[2]) \in meetings[c]
            [] n[1] = "message"  -> Other(n[2]) \in messages[c]

LEMMA NoticesStay ==
  ASSUME TypeOK, Grown, NEW c \in Conns, Justified(c),
         notices'[c] = notices[c], audit'[c] = audit[c],
         messages'[c] = messages[c] \/ "ACCEPTED" \in Written(c)
  PROVE  Justified(c)'
<1>1. /\ Written(c) \subseteq Written(c)'
      /\ info[c] => info'[c]
      /\ meetings[c] \subseteq meetings'[c]
      /\ messages[c] \subseteq messages'[c]
  BY DEF Grown
<1>2. messages'[c] # {} => "ACCEPTED" \in Written(c)'
  BY <1>1 DEF Justified
<1>3. audit'[c] \subseteq Written(c)'
  BY <1>1 DEF Justified
<1>4. ASSUME NEW n \in notices'[c]
      PROVE  CASE n[1] = "accepted" -> n[2] = "requester" /\ "ACCEPTED" \in Written(c)'
               [] n[1] = "info"     -> n[2] = "requester" /\ info'[c]
               [] n[1] = "meeting"  -> Other(n[2]) \in meetings'[c]
               [] n[1] = "message"  -> Other(n[2]) \in messages'[c]
  <2>1. n \in notices[c] /\ n[1] \in {"accepted", "info", "meeting", "message"}
    BY DEF TypeOK, Kind
  <2>2. /\ n[1] = "accepted" => n[2] = "requester" /\ "ACCEPTED" \in Written(c)
        /\ n[1] = "info"     => n[2] = "requester" /\ info[c]
        /\ n[1] = "meeting"  => Other(n[2]) \in meetings[c]
        /\ n[1] = "message"  => Other(n[2]) \in messages[c]
    BY <2>1 DEF Justified
  <2>3. QED BY <1>1, <2>1, <2>2
<1>5. QED BY <1>2, <1>3, <1>4 DEF Justified, Other

(* The invariant of a state from that of the state before, for a step that
   moves one tab and takes nothing back. *)
LEMMA SoundAfter ==
  ASSUME Sound, TypeOK', Grown, NEW t \in Tabs, Earned(t)',
         \A u \in Tabs \ {t} : tab'[u] = tab[u],
         \A c \in Conns : Justified(c)', StatusWritten'
  PROVE  Sound'
<1>1. \A u \in Tabs \ {t} : Earned(u)'
  BY EarnedStays DEF Sound, AllEarned
<1>2. AllEarned'
  BY <1>1 DEF AllEarned, Tabs
<1>3. NoticesJustified'
  BY DEF NoticesJustified, Justified
<1>4. QED BY <1>2, <1>3 DEF Sound

LEMMA JustifiedNow == ASSUME Sound, NEW c \in Conns PROVE Justified(c)
BY DEF Sound, NoticesJustified, Justified

LEMMA SoundInit == Init => Sound
<1> SUFFICES ASSUME Init PROVE Sound
  OBVIOUS
<1>1. TypeOK
  <2>1. PICK c \in Conns : tab = [t \in Tabs |-> Idle(c)]
    BY DEF Init
  <2>2. Idle(c) \in Request
    BY DEF Idle, Request, Op, Step, Answer
  <2>3. QED BY <2>1, <2>2 DEF Init, TypeOK, Status
<1>2. \A c \in Conns : Written(c) = {}
  BY DEF Init, Written
<1>3. AllEarned
  <2>1. PICK c \in Conns : tab = [t \in Tabs |-> Idle(c)]
    BY DEF Init
  <2>2. ASSUME NEW t \in Tabs PROVE Earned(t)
    <3>1. tab[t].step = "idle"
      BY <2>1 DEF Idle
    <3>2. QED BY <3>1 DEF Earned
  <2>3. QED BY <2>2 DEF AllEarned
<1>4. StatusWritten
  BY <1>2 DEF Init, StatusWritten
<1>5. NoticesJustified
  BY DEF Init, NoticesJustified
<1>6. QED BY <1>1, <1>3, <1>4, <1>5 DEF Sound

LEMMA SoundStep == Sound /\ [Next]_vars => Sound'
<1> SUFFICES ASSUME Sound, [Next]_vars PROVE Sound'
  OBVIOUS
<1>0. TypeOK /\ AllEarned /\ StatusWritten
  BY DEF Sound
(* Steps that write no row and no event. *)
<1>1. ASSUME NEW t \in Tabs, UNCHANGED <<rowVars, notices, audit, written>>,
             tab' \in [Tabs -> Request], Earned(t)',
             \A u \in Tabs \ {t} : tab'[u] = tab[u]
      PROVE  Sound'
  <2>1. TypeOK'
    BY <1>0, <1>1 DEF TypeOK, rowVars
  <2>2. \A c \in Conns : Written(c)' = Written(c)
    BY <1>1 DEF Written
  <2>3. Grown
    BY <1>1, <2>2 DEF Grown, rowVars
  <2>4. \A c \in Conns : Justified(c)'
    BY <1>0, <1>1, <2>3, NoticesStay, JustifiedNow DEF rowVars
  <2>5. StatusWritten'
    BY <1>0, <1>1, <2>2 DEF StatusWritten, rowVars
  <2>6. QED BY <1>1, <2>1, <2>3, <2>4, <2>5, SoundAfter
<1>2. ASSUME NEW t \in Tabs, NEW c \in Conns, NEW a \in Answer, CheckRespond(t, c, a)
      PROVE  Sound'
  <2>1. Begin(t, "respond", c, a) /\ "respond" \in Op
    BY <1>2 DEF CheckRespond, Op
  <2>2. Earned(t)'
    BY <1>0, <1>2, <2>1, TabForms, Sides DEF CheckRespond, Earned, Member
  <2>3. QED BY <1>0, <1>1, <1>2, <2>1, <2>2, TabForms DEF CheckRespond
<1>3. ASSUME NEW t \in Tabs, NEW c \in Conns, CheckMoreInfo(t, c)
      PROVE  Sound'
  <2>1. Begin(t, "info", c, "IGNORED") /\ "info" \in Op /\ "IGNORED" \in Answer
    BY <1>3 DEF CheckMoreInfo, Op, Answer
  <2>2. Earned(t)'
    BY <1>0, <1>3, <2>1, TabForms, Sides DEF CheckMoreInfo, Earned, Member
  <2>3. QED BY <1>0, <1>1, <1>3, <2>1, <2>2, TabForms DEF CheckMoreInfo
<1>4. ASSUME NEW t \in Tabs, NEW c \in Conns, CheckMember(t, c)
      PROVE  Sound'
  <2>1. Begin(t, "meeting", c, "IGNORED") /\ "meeting" \in Op /\ "IGNORED" \in Answer
    BY <1>4 DEF CheckMember, Op, Answer
  <2>2. Earned(t)'
    BY <1>0, <1>4, <2>1, TabForms DEF CheckMember, Earned, Member
  <2>3. QED BY <1>0, <1>1, <1>4, <2>1, <2>2, TabForms DEF CheckMember
<1>5. ASSUME NEW t \in Tabs, NEW c \in Conns, CheckCanMessage(t, c)
      PROVE  Sound'
  <2>1. Begin(t, "message", c, "IGNORED") /\ "message" \in Op /\ "IGNORED" \in Answer
    BY <1>5 DEF CheckCanMessage, Op, Answer
  <2>2. "ACCEPTED" \in Written(c) /\ Written(c)' = Written(c)
    BY <1>0, <1>5 DEF CheckCanMessage, CanMessage, StatusWritten, Written
  <2>3. tab'[t].conn = c /\ tab'[t].step = "write" /\ tab'[t].op = "message"
    BY <1>0, <2>1, TabForms
  <2>4. Earned(t)'
    BY <1>5, <2>2, <2>3 DEF CheckCanMessage, CanMessage, Earned, Member, Written
  <2>5. QED BY <1>0, <1>1, <1>5, <2>1, <2>4, TabForms DEF CheckCanMessage
<1>6. ASSUME NEW t \in Tabs, WriteAnswer(t)
      PROVE  Sound'
  <2>a. PICK c \in Conns, a \in Answer : c = tab[t].conn /\ a = tab[t].answer
    BY <1>0 DEF TypeOK, Request
  <2>b. PICK s \in Step : s = IF a = "ACCEPTED" THEN "lookup" ELSE "audit"
    BY DEF Step
  <2>1. c \in Conns /\ a \in Answer /\ s \in Step
    OBVIOUS
  <2>2. /\ status' = [status EXCEPT ![c] = a]
        /\ written' = [written EXCEPT ![c][a] = @ + 1]
        /\ Goto(t, s)
        /\ tab[t].op = "respond" /\ tab[t].step = "write"
        /\ UNCHANGED <<info, messages, meetings, notices, audit>>
    BY <1>6, <2>a, <2>b DEF WriteAnswer, Writing
  <2>3. /\ written' \in [Conns -> [Answer -> Nat]]
        /\ \A d \in Conns : Written(d)' = Written(d) \union (IF d = c THEN {a} ELSE {})
    BY <1>0, <2>1, <2>2, WrittenGrows
  <2>4. TypeOK'
    BY <1>0, <2>1, <2>2, <2>3, TabForms DEF TypeOK, Status
  <2>5. Grown
    BY <2>2, <2>3 DEF Grown
  <2>6. /\ tab'[t].step = s /\ tab'[t].op = "respond" /\ tab'[t].conn = c
        /\ tab'[t].answer = a /\ \A u \in Tabs \ {t} : tab'[u] = tab[u]
    BY <1>0, <2>a, <2>1, <2>2, TabForms
  <2>7. a \in Written(c)'
    BY <2>1, <2>3
  <2>8. t \in RecipientTabs /\ Member(t)
    BY <1>0, <2>a, <2>2, Sides DEF AllEarned, Earned, Written
  <2>9. Earned(t)'
    BY <2>b, <2>6, <2>7, <2>8 DEF Earned, Member, Written
  <2>10. \A d \in Conns : Justified(d)'
    BY <1>0, <2>2, <2>5, NoticesStay, JustifiedNow
  <2>11. StatusWritten'
    BY <1>0, <2>1, <2>2, <2>3 DEF StatusWritten, TypeOK, Answer
  <2>12. QED BY <2>4, <2>5, <2>6, <2>9, <2>10, <2>11, SoundAfter
<1>7. ASSUME NEW t \in Tabs, WriteMoreInfo(t)
      PROVE  Sound'
  <2>a. PICK c \in Conns : c = tab[t].conn
    BY <1>0 DEF TypeOK, Request
  <2>1. c \in Conns /\ "lookup" \in Step
    BY DEF Step
  <2>2. /\ info' = [info EXCEPT ![c] = TRUE] /\ Goto(t, "lookup")
        /\ tab[t].op = "info" /\ tab[t].step = "write"
        /\ UNCHANGED <<status, messages, meetings, notices, audit, written>>
    BY <1>7, <2>a DEF WriteMoreInfo, Writing
  <2>3. TypeOK'
    BY <1>0, <2>1, <2>2, TabForms DEF TypeOK
  <2>4. \A d \in Conns : Written(d)' = Written(d)
    BY <2>2 DEF Written
  <2>5. Grown
    BY <1>0, <2>1, <2>2, <2>4 DEF Grown, TypeOK
  <2>6. /\ tab'[t].step = "lookup" /\ tab'[t].op = "info" /\ tab'[t].conn = c
        /\ \A u \in Tabs \ {t} : tab'[u] = tab[u]
    BY <1>0, <2>a, <2>1, <2>2, TabForms
  <2>7. t \in RecipientTabs /\ Member(t) /\ info'[c]
    BY <1>0, <2>a, <2>1, <2>2, Sides DEF AllEarned, Earned, TypeOK
  <2>8. Earned(t)'
    BY <2>6, <2>7 DEF Earned, Member
  <2>9. \A d \in Conns : Justified(d)'
    BY <1>0, <2>2, <2>5, NoticesStay, JustifiedNow
  <2>10. StatusWritten'
    BY <1>0, <2>2, <2>4 DEF StatusWritten
  <2>11. QED BY <2>3, <2>5, <2>6, <2>8, <2>9, <2>10, SoundAfter
<1>8. ASSUME NEW t \in Tabs, WriteMeeting(t)
      PROVE  Sound'
  <2>a. PICK c \in Conns : c = tab[t].conn
    BY <1>0 DEF TypeOK, Request
  <2>1. c \in Conns /\ "lookup" \in Step
    BY DEF Step
  <2>2. /\ meetings' = [meetings EXCEPT ![c] = @ \union {Side(t)}] /\ Goto(t, "lookup")
        /\ tab[t].op = "meeting" /\ tab[t].step = "write"
        /\ UNCHANGED <<status, info, messages, notices, audit, written>>
    BY <1>8, <2>a DEF WriteMeeting, Writing
  <2>3. Member(t) /\ Side(t) \in Party
    BY <1>0, <2>a, <2>2, Sides DEF AllEarned, Earned, Written
  <2>4. meetings' \in [Conns -> SUBSET Party] /\ Side(t) \in meetings'[c]
    BY <1>0, <2>1, <2>2, <2>3 DEF TypeOK
  <2>5. TypeOK'
    BY <1>0, <2>1, <2>2, <2>4, TabForms DEF TypeOK
  <2>6. \A d \in Conns : Written(d)' = Written(d)
    BY <2>2 DEF Written
  <2>7. Grown
    BY <1>0, <2>1, <2>2, <2>6 DEF Grown, TypeOK
  <2>8. /\ tab'[t].step = "lookup" /\ tab'[t].op = "meeting" /\ tab'[t].conn = c
        /\ \A u \in Tabs \ {t} : tab'[u] = tab[u]
    BY <1>0, <2>a, <2>1, <2>2, TabForms
  <2>9. Earned(t)'
    BY <2>3, <2>4, <2>8 DEF Earned, Member, Side
  <2>10. \A d \in Conns : Justified(d)'
    BY <1>0, <2>2, <2>7, NoticesStay, JustifiedNow
  <2>11. StatusWritten'
    BY <1>0, <2>2, <2>6 DEF StatusWritten
  <2>12. QED BY <2>5, <2>7, <2>8, <2>9, <2>10, <2>11, SoundAfter
<1>9. ASSUME NEW t \in Tabs, WriteMessage(t)
      PROVE  Sound'
  <2>a. PICK c \in Conns : c = tab[t].conn
    BY <1>0 DEF TypeOK, Request
  <2>1. c \in Conns /\ "lookup" \in Step
    BY DEF Step
  <2>2. /\ messages' = [messages EXCEPT ![c] = @ \union {Side(t)}] /\ Goto(t, "lookup")
        /\ tab[t].op = "message" /\ tab[t].step = "write"
        /\ UNCHANGED <<status, info, meetings, notices, audit, written>>
    BY <1>9, <2>a DEF WriteMessage, Writing
  <2>3. Member(t) /\ Side(t) \in Party /\ "ACCEPTED" \in Written(c)
    BY <1>0, <2>a, <2>2, Sides DEF AllEarned, Earned, Written
  <2>4. messages' \in [Conns -> SUBSET Party] /\ Side(t) \in messages'[c]
    BY <1>0, <2>1, <2>2, <2>3 DEF TypeOK
  <2>5. TypeOK'
    BY <1>0, <2>1, <2>2, <2>4, TabForms DEF TypeOK
  <2>6. \A d \in Conns : Written(d)' = Written(d)
    BY <2>2 DEF Written
  <2>7. Grown
    BY <1>0, <2>1, <2>2, <2>6 DEF Grown, TypeOK
  <2>8. /\ tab'[t].step = "lookup" /\ tab'[t].op = "message" /\ tab'[t].conn = c
        /\ \A u \in Tabs \ {t} : tab'[u] = tab[u]
    BY <1>0, <2>a, <2>1, <2>2, TabForms
  <2>9. Earned(t)'
    BY <2>3, <2>4, <2>8 DEF Earned, Member, Side
  <2>10. \A d \in Conns : messages'[d] = messages[d] \/ "ACCEPTED" \in Written(d)
    BY <1>0, <2>1, <2>2, <2>3 DEF TypeOK
  <2>11. \A d \in Conns : Justified(d)'
    BY <1>0, <2>2, <2>7, <2>10, NoticesStay, JustifiedNow
  <2>12. StatusWritten'
    BY <1>0, <2>2, <2>6 DEF StatusWritten
  <2>13. QED BY <2>5, <2>7, <2>8, <2>9, <2>11, <2>12, SoundAfter
<1>10. ASSUME NEW t \in Tabs, LookupAndEmit(t)
       PROVE  Sound'
  <2>a. PICK c \in Conns, op \in Op : c = tab[t].conn /\ op = tab[t].op
    BY <1>0 DEF TypeOK, Request
  <2>b. PICK n : n = <<NoticeKind(op), Other(Side(t))>>
    OBVIOUS
  <2>1. c \in Conns /\ op \in Op /\ {"lookup", "audit"} \subseteq Step
    BY DEF Step
  <2>2. /\ notices' = [notices EXCEPT ![c] = @ \union {n}]
        /\ tab[t].step = "lookup"
        /\ IF op = "respond" THEN Goto(t, "audit") ELSE Finish(t)
        /\ UNCHANGED <<rowVars, audit, written>>
    BY <1>10, <2>a, <2>b DEF LookupAndEmit
  <2>3. /\ op \in {"respond", "info", "meeting", "message"}
        /\ op \in {"respond", "info"} => t \in RecipientTabs
        /\ Member(t)
        /\ op = "respond" => tab[t].answer = "ACCEPTED" /\ "ACCEPTED" \in Written(c)
        /\ op = "info" => info[c]
        /\ op = "meeting" => Side(t) \in meetings[c]
        /\ op = "message" => Side(t) \in messages[c]
    BY <1>0, <2>a, <2>1, <2>2 DEF AllEarned, Earned, Op, Written
  <2>4. /\ Other(Side(t)) \in Party /\ Other(Other(Side(t))) = Side(t)
        /\ t \in RecipientTabs => Other(Side(t)) = "requester"
    BY <2>3, Sides DEF Other
  <2>5. n \in Kind \X Party /\ n[1] = NoticeKind(op) /\ n[2] = Other(Side(t))
    BY <2>b, <2>3, <2>4 DEF NoticeKind, Kind
  <2>6. \A d \in Conns : Written(d)' = Written(d)
    BY <2>2 DEF Written
  <2>7. Grown
    BY <2>2, <2>6 DEF Grown, rowVars
  <2>8. notices' \in [Conns -> SUBSET (Kind \X Party)]
    BY <1>0, <2>1, <2>2, <2>5 DEF TypeOK
  <2>9. /\ tab' \in [Tabs -> Request] /\ \A u \in Tabs \ {t} : tab'[u] = tab[u]
        /\ IF op = "respond"
           THEN /\ tab'[t].step = "audit" /\ tab'[t].op = "respond"
                /\ tab'[t].conn = c /\ tab'[t].answer = tab[t].answer
           ELSE tab'[t].step = "idle"
    BY <1>0, <2>a, <2>1, <2>2, TabForms
  <2>10. TypeOK'
    BY <1>0, <2>2, <2>8, <2>9 DEF TypeOK, rowVars
  <2>11. Earned(t)'
    <3>1. CASE op = "respond"
      <4>1. Written(c)' = Written(c)
        BY <2>6
      <4>2. QED BY <3>1, <4>1, <2>3, <2>9 DEF Earned, Member, Written
    <3>2. CASE op # "respond"
      BY <3>2, <2>9 DEF Earned
    <3>3. QED BY <3>1, <3>2
  <2>12. ASSUME NEW d \in Conns, d # c PROVE Justified(d)'
    BY <1>0, <2>1, <2>2, <2>7, <2>12, NoticesStay, JustifiedNow DEF rowVars, TypeOK
  <2>13. Justified(c)'
    <3>1. /\ messages'[c] # {} => "ACCEPTED" \in Written(c)'
          /\ audit'[c] \subseteq Written(c)'
      BY <2>1, <2>2, <2>6, JustifiedNow DEF Justified, rowVars
    <3>2. Written(c)' = Written(c) /\ info' = info /\ meetings' = meetings /\ messages' = messages
      BY <2>1, <2>2, <2>6 DEF rowVars
    <3>3. notices'[c] = notices[c] \union {n}
      BY <1>0, <2>1, <2>2 DEF TypeOK
    <3>4. ASSUME NEW m \in notices[c]
          PROVE  /\ m[1] \in Kind
                 /\ m[1] = "accepted" => m[2] = "requester" /\ "ACCEPTED" \in Written(c)
                 /\ m[1] = "info"     => m[2] = "requester" /\ info[c]
                 /\ m[1] = "meeting"  => Other(m[2]) \in meetings[c]
                 /\ m[1] = "message"  => Other(m[2]) \in messages[c]
      <4>1. m \in Kind \X Party
        BY <1>0, <2>1 DEF TypeOK
      <4>2. m[1] \in {"accepted", "info", "meeting", "message"} /\ m[1] \in Kind
        BY <4>1 DEF Kind
      <4>3. Justified(c)
        BY <2>1, JustifiedNow
      <4>4. QED BY <4>2, <4>3 DEF Justified
    <3>5. /\ n[1] \in Kind
          /\ n[1] = "accepted" => n[2] = "requester" /\ "ACCEPTED" \in Written(c)
          /\ n[1] = "info"     => n[2] = "requester" /\ info[c]
          /\ n[1] = "meeting"  => Other(n[2]) \in meetings[c]
          /\ n[1] = "message"  => Other(n[2]) \in messages[c]
      BY <2>3, <2>4, <2>5 DEF NoticeKind, Kind
    <3>6. \A m \in notices'[c] :
             /\ m[1] \in Kind
             /\ m[1] = "accepted" => m[2] = "requester" /\ "ACCEPTED" \in Written(c)'
             /\ m[1] = "info"     => m[2] = "requester" /\ info'[c]
             /\ m[1] = "meeting"  => Other(m[2]) \in meetings'[c]
             /\ m[1] = "message"  => Other(m[2]) \in messages'[c]
      BY <3>2, <3>3, <3>4, <3>5
    <3>7. QED BY <3>1, <3>6 DEF Justified, Other, Kind
  <2>14. StatusWritten'
    BY <1>0, <2>2, <2>6 DEF StatusWritten, rowVars
  <2>15. QED BY <2>7, <2>9, <2>10, <2>11, <2>12, <2>13, <2>14, SoundAfter
<1>11. ASSUME NEW t \in Tabs, RecordAudit(t)
       PROVE  Sound'
  <2>a. PICK c \in Conns, a \in Answer : c = tab[t].conn /\ a = tab[t].answer
    BY <1>0 DEF TypeOK, Request
  <2>1. c \in Conns /\ a \in Answer
    OBVIOUS
  <2>2. /\ audit' = [audit EXCEPT ![c] = @ \union {a}] /\ Finish(t)
        /\ a \in Written(c)
        /\ UNCHANGED <<rowVars, notices, written>>
    BY <1>0, <1>11, <2>a DEF RecordAudit, AllEarned, Earned, Written
  <2>3. \A d \in Conns : Written(d)' = Written(d)
    BY <2>2 DEF Written
  <2>4. Grown
    BY <2>2, <2>3 DEF Grown, rowVars
  <2>5. TypeOK'
    BY <1>0, <2>1, <2>2, TabForms DEF TypeOK, rowVars
  <2>6. tab'[t].step = "idle" /\ \A u \in Tabs \ {t} : tab'[u] = tab[u]
    BY <1>0, <2>2, TabForms
  <2>7. Earned(t)'
    BY <2>6 DEF Earned
  <2>8. ASSUME NEW d \in Conns PROVE Justified(d)'
    <3>1. CASE d # c
      BY <1>0, <2>1, <2>2, <2>4, <3>1, NoticesStay, JustifiedNow DEF rowVars, TypeOK
    <3>2. CASE d = c
      <4>0. audit[c] \subseteq Written(c) /\ a \in Written(c) /\ Written(c)' = Written(c)
        BY <2>1, <2>2, <2>3, JustifiedNow DEF Justified
      <4>1. audit'[c] \subseteq Written(c)'
        BY <1>0, <2>1, <2>2, <4>0 DEF TypeOK
      <4>2. Written(c)' = Written(c) /\ UNCHANGED <<info, meetings, messages, notices>>
        BY <2>1, <2>2, <2>3 DEF rowVars
      <4>3. Justified(c)
        BY <2>1, JustifiedNow
      <4>4. QED BY <3>2, <4>1, <4>2, <4>3 DEF Justified, Other
    <3>3. QED BY <3>1, <3>2
  <2>9. StatusWritten'
    BY <1>0, <2>2, <2>3 DEF StatusWritten, rowVars
  <2>10. QED BY <2>4, <2>5, <2>6, <2>7, <2>8, <2>9, SoundAfter
<1>12. ASSUME NEW t \in Tabs, Abort(t)
       PROVE  Sound'
  <2>1. Finish(t)
    BY <1>12 DEF Abort
  <2>2. tab' \in [Tabs -> Request] /\ tab'[t].step = "idle"
        /\ \A u \in Tabs \ {t} : tab'[u] = tab[u]
    BY <1>0, <2>1, TabForms
  <2>3. Earned(t)'
    BY <2>2 DEF Earned
  <2>4. QED BY <1>1, <1>12, <2>2, <2>3 DEF Abort
<1>13. ASSUME UNCHANGED vars
       PROVE  Sound'
  BY <1>13 DEF Sound, TypeOK, AllEarned, Earned, StatusWritten, NoticesJustified, Written,
        vars, rowVars
<1>14. QED
  BY <1>2, <1>3, <1>4, <1>5, <1>6, <1>7, <1>8, <1>9, <1>10, <1>11, <1>12, <1>13
  DEF Next, Handler

------------------------------------------------------------------------------
(* A step that moves one tab can only make that tab decide or stop deciding. *)
LEMMA DecidingMoves ==
  ASSUME NEW t \in Tabs, \A u \in Tabs \ {t} : tab'[u] = tab[u], NEW c \in Conns
  PROVE  /\ Deciding(c)' \ {t} = Deciding(c) \ {t}
         /\ ~ (tab'[t].step = "write" /\ tab'[t].op = "respond") => t \notin Deciding(c)'
         /\ ~ Writing(t, "respond") => t \notin Deciding(c)
BY DEF Deciding, Writing, Tabs

(* The steps of a handler other than the answer: none of them makes a tab
   decide, and only Abort stops one. *)
Aside(t) ==
    \/ \E c \in Conns : CheckMoreInfo(t, c) \/ CheckMember(t, c) \/ CheckCanMessage(t, c)
    \/ WriteMoreInfo(t) \/ WriteMeeting(t) \/ WriteMessage(t)
    \/ LookupAndEmit(t) \/ RecordAudit(t)

LEMMA AsideDecides ==
  ASSUME Sound, NEW t \in Tabs, Aside(t), NEW c \in Conns
  PROVE  /\ Deciding(c)' = Deciding(c)
         /\ UNCHANGED <<status, written>>
         /\ messages' = messages \/ WriteMessage(t)
<1>0. TypeOK /\ tab[t] \in Request
  BY DEF Sound, TypeOK
<1>1. /\ \A u \in Tabs \ {t} : tab'[u] = tab[u]
      /\ ~ (tab'[t].step = "write" /\ tab'[t].op = "respond")
      /\ ~ Writing(t, "respond")
      /\ UNCHANGED <<status, written>>
      /\ messages' = messages \/ WriteMessage(t)
  <2>1. ASSUME NEW d \in Conns, CheckMoreInfo(t, d) PROVE <1>1
    <3>1. Begin(t, "info", d, "IGNORED") /\ "info" \in Op /\ "IGNORED" \in Answer
      BY <2>1 DEF CheckMoreInfo, Op, Answer
    <3>2. QED BY <1>0, <2>1, <3>1, TabForms DEF CheckMoreInfo, Writing, rowVars
  <2>2. ASSUME NEW d \in Conns, CheckMember(t, d) PROVE <1>1
    <3>1. Begin(t, "meeting", d, "IGNORED") /\ "meeting" \in Op /\ "IGNORED" \in Answer
      BY <2>2 DEF CheckMember, Op, Answer
    <3>2. QED BY <1>0, <2>2, <3>1, TabForms DEF CheckMember, Writing, rowVars
  <2>3. ASSUME NEW d \in Conns, CheckCanMessage(t, d) PROVE <1>1
    <3>1. Begin(t, "message", d, "IGNORED") /\ "message" \in Op /\ "IGNORED" \in Answer
      BY <2>3 DEF CheckCanMessage, Op, Answer
    <3>2. QED BY <1>0, <2>3, <3>1, TabForms DEF CheckCanMessage, Writing, rowVars
  <2>4. CASE WriteMoreInfo(t) \/ WriteMeeting(t) \/ WriteMessage(t)
    <3>1. Goto(t, "lookup") /\ "lookup" \in Step /\ ~ Writing(t, "respond")
      BY <2>4 DEF WriteMoreInfo, WriteMeeting, WriteMessage, Writing, Step
    <3>2. QED BY <1>0, <2>4, <3>1, TabForms
          DEF WriteMoreInfo, WriteMeeting, WriteMessage
  <2>5. CASE LookupAndEmit(t)
    <3>1. (Goto(t, "audit") \/ Finish(t)) /\ "audit" \in Step /\ ~ Writing(t, "respond")
      BY <2>5 DEF LookupAndEmit, Writing, Step
    <3>2. QED BY <1>0, <2>5, <3>1, TabForms DEF LookupAndEmit, rowVars
  <2>6. CASE RecordAudit(t)
    <3>1. Finish(t) /\ ~ Writing(t, "respond")
      BY <2>6 DEF RecordAudit, Writing
    <3>2. QED BY <1>0, <2>6, <3>1, TabForms DEF RecordAudit, rowVars
  <2>7. QED BY <2>1, <2>2, <2>3, <2>4, <2>5, <2>6 DEF Aside
<1>2. QED BY <1>1, DecidingMoves

LEMMA RespondDecides ==
  ASSUME Sound, NEW t \in Tabs, NEW c \in Conns, NEW a \in Answer, CheckRespond(t, c, a)
  PROVE  /\ \A d \in Conns \ {c} : Deciding(d)' = Deciding(d)
         /\ status[c] = "PENDING" /\ UNCHANGED <<rowVars, written>>
<1>0. TypeOK
  BY DEF Sound
<1>1. Begin(t, "respond", c, a) /\ "respond" \in Op
  BY DEF CheckRespond, Op
<1>2. tab'[t].conn = c /\ \A u \in Tabs \ {t} : tab'[u] = tab[u]
  BY <1>0, <1>1, TabForms
<1>3. \A d \in Conns \ {c} : t \notin Deciding(d) /\ t \notin Deciding(d)'
  BY <1>2 DEF CheckRespond, Deciding, Writing
<1>4. QED BY <1>2, <1>3, DecidingMoves DEF CheckRespond

LEMMA AnswerDecides ==
  ASSUME Sound, NEW t \in Tabs, WriteAnswer(t), NEW c \in Conns, c = tab[t].conn
  PROVE  /\ t \in Deciding(c) /\ Deciding(c)' = Deciding(c) \ {t}
         /\ \A d \in Conns \ {c} : Deciding(d)' = Deciding(d)
<1>0. TypeOK /\ Earned(t)
  BY DEF Sound, AllEarned
<1>1. PICK s \in Step : Goto(t, s) /\ s # "write"
  BY DEF WriteAnswer, Step
<1>2. tab'[t].step # "write" /\ \A u \in Tabs \ {t} : tab'[u] = tab[u]
  BY <1>0, <1>1, TabForms
<1>3. t \in Deciding(c) /\ \A d \in Conns \ {c} : t \notin Deciding(d)
  BY <1>0 DEF WriteAnswer, Earned, Deciding, Writing
<1>4. \A d \in Conns : t \notin Deciding(d)' /\ Deciding(d)' \ {t} = Deciding(d) \ {t}
  BY <1>2, DecidingMoves
<1>5. QED BY <1>3, <1>4

LEMMA AbortDecides ==
  ASSUME Sound, NEW t \in Tabs, Abort(t), NEW c \in Conns
  PROVE  /\ Deciding(c)' = Deciding(c) \ {t}
         /\ c # tab[t].conn => Deciding(c)' = Deciding(c)
<1>0. TypeOK
  BY DEF Sound
<1>1. tab'[t].step = "idle" /\ \A u \in Tabs \ {t} : tab'[u] = tab[u]
  BY <1>0, TabForms DEF Abort
<1>2. c # tab[t].conn => t \notin Deciding(c)
  BY DEF Deciding
<1>3. QED BY <1>1, <1>2, DecidingMoves

(* Which of the four kinds of step a handler takes. *)
LEMMA HandlerSteps ==
  ASSUME Next
  PROVE  \E t \in Tabs : \/ \E c \in Conns, a \in Answer : CheckRespond(t, c, a)
                         \/ WriteAnswer(t)
                         \/ Abort(t)
                         \/ Aside(t)
BY DEF Next, Handler, Aside

LEMMA WritesNat ==
  ASSUME TypeOK, NEW c \in Conns
  PROVE  Writes(c) \in Nat /\ (Writes(c) = 0 <=> Written(c) = {})
<1>1. \A a \in Answer : written[c][a] \in Nat
  BY DEF TypeOK
<1>2. Answer = {"ACCEPTED", "DECLINED", "IGNORED"}
  BY DEF Answer
<1>3. Writes(c) \in Nat /\ (Writes(c) = 0 <=> \A a \in Answer : written[c][a] = 0)
  <2>1. PICK x \in Nat, y \in Nat, z \in Nat : /\ x = written[c]["ACCEPTED"]
                                             /\ y = written[c]["DECLINED"]
                                             /\ z = written[c]["IGNORED"]
    BY <1>1, <1>2
  <2>2. Writes(c) = x + y + z
    BY <2>1 DEF Writes
  <2>3. (\A a \in Answer : written[c][a] = 0) <=> x = 0 /\ y = 0 /\ z = 0
    BY <2>1, <1>2
  <2>4. x + y + z \in Nat /\ (x + y + z = 0 <=> x = 0 /\ y = 0 /\ z = 0)
    OBVIOUS
  <2>5. QED BY <2>2, <2>3, <2>4
<1>4. Written(c) = {} <=> \A a \in Answer : written[c][a] = 0
  BY <1>1 DEF Written
<1>5. QED BY <1>3, <1>4

LEMMA AnswersInit == Init => AnswersInv
<1> SUFFICES ASSUME Init, NEW c \in Conns PROVE Writes(c) + Cardinality(Deciding(c)) <= N
  BY DEF AnswersInv
<1>1. Writes(c) = 0
  BY DEF Init, Writes, Answer
<1>2. Deciding(c) \in SUBSET RecipientTabs
  BY DEF Deciding
<1>3. QED BY <1>1, <1>2, TabCounts

LEMMA AnswersStep == Sound /\ AnswersInv /\ [Next]_vars => AnswersInv'
<1> SUFFICES ASSUME Sound, AnswersInv, [Next]_vars, NEW c \in Conns
             PROVE  Writes(c)' + Cardinality(Deciding(c)') <= N
  BY DEF AnswersInv
<1>0. /\ TypeOK /\ StatusWritten
      /\ Writes(c) \in Nat
      /\ Deciding(c) \in SUBSET RecipientTabs
      /\ Deciding(c)' \in SUBSET RecipientTabs
      /\ Writes(c) + Cardinality(Deciding(c)) <= N
  BY WritesNat DEF Sound, AnswersInv, Deciding
<1>1. ASSUME Writes(c)' = Writes(c), Deciding(c)' \in SUBSET Deciding(c)
      PROVE  Writes(c)' + Cardinality(Deciding(c)') <= N
  <2>1. Cardinality(Deciding(c)') <= Cardinality(Deciding(c))
        /\ Cardinality(Deciding(c)') \in Nat /\ Cardinality(Deciding(c)) \in Nat /\ N \in Nat
    BY <1>0, <1>1, TabCounts
  <2>2. QED BY <1>0, <1>1, <2>1
<1>2. ASSUME NEW t \in Tabs, NEW d \in Conns, NEW a \in Answer, CheckRespond(t, d, a)
      PROVE  Writes(c)' + Cardinality(Deciding(c)') <= N
  <2>1. Writes(c)' = Writes(c)
    BY <1>2, RespondDecides DEF Writes
  <2>2. CASE d = c
    <3>1. Writes(c) = 0
      BY <1>0, <1>2, <2>2, RespondDecides, WritesNat DEF StatusWritten
    <3>2. QED BY <1>0, <2>1, <3>1, TabCounts
  <2>3. CASE d # c
    BY <1>1, <1>2, <2>1, <2>3, RespondDecides
  <2>4. QED BY <2>2, <2>3
<1>3. ASSUME NEW t \in Tabs, WriteAnswer(t)
      PROVE  Writes(c)' + Cardinality(Deciding(c)') <= N
  <2>1. PICK d \in Conns, a \in Answer : d = tab[t].conn /\ a = tab[t].answer
    BY <1>0 DEF TypeOK, Request
  <2>2. written' = [written EXCEPT ![d][a] = @ + 1]
    BY <1>3, <2>1 DEF WriteAnswer
  <2>3. Writes(d)' = Writes(d) + 1 /\ \A e \in Conns \ {d} : Writes(e)' = Writes(e)
    BY <1>0, <2>2, WrittenGrows
  <2>4. CASE d = c
    <3>1. t \in Deciding(c) /\ Deciding(c)' = Deciding(c) \ {t}
      BY <1>3, <2>1, <2>4, AnswerDecides
    <3>2. /\ Cardinality(Deciding(c)') = Cardinality(Deciding(c)) - 1
          /\ Cardinality(Deciding(c)) \in Nat /\ N \in Nat
      BY <1>0, <3>1, TabCounts
    <3>3. QED BY <1>0, <2>3, <2>4, <3>2
  <2>5. CASE d # c
    BY <1>1, <1>3, <2>1, <2>3, <2>5, AnswerDecides
  <2>6. QED BY <2>4, <2>5
<1>4. ASSUME NEW t \in Tabs, Abort(t)
      PROVE  Writes(c)' + Cardinality(Deciding(c)') <= N
  BY <1>1, <1>4, AbortDecides DEF Abort, Writes
<1>5. ASSUME NEW t \in Tabs, Aside(t)
      PROVE  Writes(c)' + Cardinality(Deciding(c)') <= N
  BY <1>1, <1>5, AsideDecides DEF Writes
<1>6. ASSUME UNCHANGED vars
      PROVE  Writes(c)' + Cardinality(Deciding(c)') <= N
  BY <1>1, <1>6 DEF vars, Writes, Deciding, Writing
<1>7. QED BY <1>2, <1>3, <1>4, <1>5, <1>6, HandlerSteps

(* The inductive invariant. *)
LEMMA SoundAlways == Spec => [](Sound /\ AnswersInv)
<1>1. Sound /\ AnswersInv /\ [Next]_vars => Sound' /\ AnswersInv'
  BY SoundStep, AnswersStep
<1>2. QED BY <1>1, SoundInit, AnswersInit, PTL DEF Spec

(***************************************************************************)
(* Every notice, message and audit row has its cause, and no more answers  *)
(* take effect than the investor had requests in flight.                   *)
(***************************************************************************)
THEOREM LifecycleSound == Spec => []LifecycleIsSound
<1>1. ASSUME Sound, AnswersInv PROVE LifecycleIsSound
  <2>1. ASSUME NEW c \in Conns
        PROVE  Writes(c) <= N /\ (status[c] = "PENDING" <=> Writes(c) = 0)
    <3>1. Writes(c) \in Nat /\ (Writes(c) = 0 <=> Written(c) = {})
      BY <1>1, WritesNat DEF Sound
    <3>2. Deciding(c) \in SUBSET RecipientTabs
      BY DEF Deciding
    <3>3. Writes(c) <= N
      BY <1>1, <3>1, <3>2, TabCounts DEF AnswersInv
    <3>4. status[c] = "PENDING" <=> Writes(c) = 0
      BY <1>1, <3>1 DEF Sound, StatusWritten
    <3>5. QED BY <3>3, <3>4
  <2>2. AnswersBounded
    BY <2>1 DEF AnswersBounded, N
  <2>3. QED BY <1>1, <2>2 DEF LifecycleIsSound, Sound
<1>2. QED BY <1>1, SoundAlways, PTL

------------------------------------------------------------------------------
(* The refinement mapping of the implementation. *)
Open == [c \in Conns |-> status[c] = "PENDING" \/ Deciding(c) # {}]
Accepted == [c \in Conns |-> "ACCEPTED" \in Written(c)]

(* Only a change of status, of the answers under way, of the answers written
   or of the messages shows in the promise. *)
LEMMA Stutters ==
  ASSUME UNCHANGED <<status, written, messages>>,
         \A c \in Conns : status[c] = "PENDING" \/ Deciding(c)' = Deciding(c)
  PROVE  UNCHANGED Promise!vars
<1>1. \A c \in Conns : (status'[c] = "PENDING" \/ Deciding(c)' # {})
                       <=> (status[c] = "PENDING" \/ Deciding(c) # {})
  OBVIOUS
<1>2. Open' = Open
  BY <1>1 DEF Open
<1>3. Accepted' = Accepted
  BY DEF Accepted, Written
<1>4. QED BY <1>2, <1>3 DEF Promise!vars, Open, Accepted

(* A step of the implementation is a step of the promise, or shows nothing. *)
LEMMA ImplementsStep == Sound /\ [Next]_vars => [Promise!Next]_(Promise!vars)
<1> SUFFICES ASSUME Sound, [Next]_vars PROVE [Promise!Next]_(Promise!vars)
  OBVIOUS
<1>0. TypeOK
  BY DEF Sound
<1>1. ASSUME NEW t \in Tabs, NEW c \in Conns, NEW a \in Answer, CheckRespond(t, c, a)
      PROVE  UNCHANGED Promise!vars
  BY <1>1, RespondDecides, Stutters DEF rowVars
<1>2. ASSUME NEW t \in Tabs, WriteAnswer(t)
      PROVE  Promise!Next
  <2>1. PICK c \in Conns, a \in Answer : c = tab[t].conn /\ a = tab[t].answer
    BY <1>0 DEF TypeOK, Request
  <2>2. /\ status' = [status EXCEPT ![c] = a]
        /\ written' = [written EXCEPT ![c][a] = @ + 1]
        /\ UNCHANGED messages
    BY <1>2, <2>1 DEF WriteAnswer
  <2>3. /\ Deciding(c) # {}
        /\ \A d \in Conns \ {c} : Deciding(d)' = Deciding(d)
    BY <1>2, <2>1, AnswerDecides
  <2>4. \A d \in Conns : Written(d)' = Written(d) \union (IF d = c THEN {a} ELSE {})
    BY <1>0, <2>2, WrittenGrows
  <2>5. /\ status'[c] = a /\ a # "PENDING"
        /\ \A d \in Conns \ {c} : status'[d] = status[d]
    BY <1>0, <2>2 DEF TypeOK, Answer
  <2>6. PICK still \in BOOLEAN : still = (Deciding(c)' # {})
    OBVIOUS
  <2>7. Open[c]
    BY <2>3 DEF Open
  <2>8. Open' = [Open EXCEPT ![c] = still]
    BY <2>3, <2>5, <2>6 DEF Open
  <2>9. Accepted' = [Accepted EXCEPT ![c] = @ \/ a = "ACCEPTED"]
    <3>1. \A d \in Conns : ("ACCEPTED" \in Written(d)')
            <=> (IF d = c THEN "ACCEPTED" \in Written(d) \/ a = "ACCEPTED"
                          ELSE "ACCEPTED" \in Written(d))
      BY <2>4
    <3>2. Accepted' = [d \in Conns |-> IF d = c THEN "ACCEPTED" \in Written(d) \/ a = "ACCEPTED"
                                               ELSE "ACCEPTED" \in Written(d)]
      BY <3>1 DEF Accepted
    <3>3. QED BY <3>2 DEF Accepted
  <2>10. Promise!Respond(c, a, still)
    BY <2>2, <2>7, <2>8, <2>9 DEF Promise!Respond, Open, Accepted
  <2>11. QED BY <2>6, <2>10 DEF Promise!Next, Promise!Answer, Answer
<1>3. ASSUME NEW t \in Tabs, Abort(t)
      PROVE  [Promise!Next]_(Promise!vars)
  <2>1. PICK c \in Conns : c = tab[t].conn
    BY <1>0 DEF TypeOK, Request
  <2>2. /\ Deciding(c)' = Deciding(c) \ {t}
        /\ \A d \in Conns \ {c} : Deciding(d)' = Deciding(d)
        /\ UNCHANGED <<status, written, messages>>
    BY <1>3, <2>1, AbortDecides DEF Abort, rowVars
  <2>3. CASE status[c] = "PENDING" \/ Deciding(c)' # {} \/ Deciding(c) = {}
    <3>1. \A d \in Conns : (status'[d] = "PENDING" \/ Deciding(d)' # {})
                           <=> (status[d] = "PENDING" \/ Deciding(d) # {})
      BY <2>2, <2>3
    <3>2. Open' = Open
      BY <3>1 DEF Open
    <3>3. Accepted' = Accepted
      BY <2>2 DEF Accepted, Written
    <3>4. QED BY <2>2, <3>2, <3>3 DEF Promise!vars, Open, Accepted
  <2>4. CASE status[c] # "PENDING" /\ Deciding(c)' = {} /\ Deciding(c) # {}
    <3>1. Open[c]
      BY <2>4 DEF Open
    <3>2. Open' = [Open EXCEPT ![c] = FALSE]
      BY <2>2, <2>4 DEF Open
    <3>3. Accepted' = Accepted
      BY <2>2 DEF Accepted, Written
    <3>4. Promise!Settle(c)
      BY <2>2, <2>4, <3>1, <3>2, <3>3 DEF Promise!Settle, Open, Accepted
    <3>5. QED BY <3>4 DEF Promise!Next
  <2>5. QED BY <2>3, <2>4
<1>4. ASSUME NEW t \in Tabs, Aside(t), messages' = messages
      PROVE  UNCHANGED Promise!vars
  <2>1. UNCHANGED <<status, written, messages>> /\ \A c \in Conns : Deciding(c)' = Deciding(c)
    BY <1>0, <1>4, AsideDecides DEF TypeOK, Request
  <2>2. QED BY <2>1, Stutters
<1>5. ASSUME NEW t \in Tabs, WriteMessage(t)
      PROVE  Promise!Next
  <2>1. PICK c \in Conns : c = tab[t].conn
    BY <1>0 DEF TypeOK, Request
  <2>2. /\ messages' = [messages EXCEPT ![c] = @ \union {Side(t)}]
        /\ UNCHANGED <<status, written>>
        /\ Side(t) \in Party /\ "ACCEPTED" \in Written(c)
    BY <1>5, <2>1, Sides DEF WriteMessage, Writing, Sound, AllEarned, Earned, Written
  <2>3. Aside(t)
    BY <1>5 DEF Aside
  <2>4. \A d \in Conns : Deciding(d)' = Deciding(d)
    BY <2>3, AsideDecides
  <2>5. Open' = Open
    BY <2>2, <2>4 DEF Open
  <2>6. Accepted' = Accepted /\ Accepted[c]
    BY <2>2 DEF Accepted, Written
  <2>7. Promise!Talk(c, Side(t))
    BY <2>2, <2>5, <2>6 DEF Promise!Talk, Open, Accepted
  <2>8. QED BY <2>2, <2>7 DEF Promise!Next, Party
<1>6. ASSUME UNCHANGED vars
      PROVE  UNCHANGED Promise!vars
  <2>1. \A c \in Conns : Deciding(c)' = Deciding(c)
    BY <1>6 DEF vars, Deciding, Writing
  <2>2. QED BY <1>6, <2>1, Stutters DEF vars
<1>7. CASE Next
  <2>1. PICK t \in Tabs : \/ \E c \in Conns, a \in Answer : CheckRespond(t, c, a)
                          \/ WriteAnswer(t)
                          \/ Abort(t)
                          \/ Aside(t)
    BY <1>7, HandlerSteps
  <2>2. CASE Aside(t)
    <3>1. Conns # {} => messages' = messages \/ WriteMessage(t)
      BY <2>2, AsideDecides
    <3>2. Conns # {}
      BY <1>0, <2>1 DEF TypeOK, Request
    <3>3. QED BY <1>4, <1>5, <2>2, <3>1, <3>2
  <2>3. QED BY <1>1, <1>2, <1>3, <2>1, <2>2
<1>8. QED BY <1>6, <1>7

LEMMA ImplementsInit == Init => Promise!Init
<1> SUFFICES ASSUME Init PROVE Promise!Init
  OBVIOUS
<1>1. Open = [c \in Conns |-> TRUE]
  BY DEF Init, Open
<1>2. Accepted = [c \in Conns |-> FALSE]
  <2>1. \A c \in Conns : Written(c) = {}
    BY DEF Init, Written
  <2>2. \A c \in Conns : ("ACCEPTED" \in Written(c)) = FALSE
    BY <2>1
  <2>3. QED BY <2>2 DEF Accepted
<1>3. QED BY <1>1, <1>2 DEF Init, Promise!Init, Open, Accepted

(***************************************************************************)
(* The handlers of ConnectionsService keep the promise of                  *)
(* ConnectionPromise, whatever the number of connections and of requests   *)
(* in flight.                                                              *)
(***************************************************************************)
THEOREM Implements == Spec => ImplementsPromise
<1>1. Init => Promise!Init
  BY ImplementsInit
<1>2. Sound /\ [Next]_vars => [Promise!Next]_(Promise!vars)
  BY ImplementsStep
<1>3. QED BY <1>1, <1>2, SoundAlways, PTL DEF Spec, ImplementsPromise, Promise!Spec
==============================================================================

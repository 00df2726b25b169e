------------------------------- MODULE Mentoring -------------------------------
(***************************************************************************)
(* Bookings of a mentor's time: MentorBookingService, and the reviews that *)
(* an accepted booking unlocks (MentorReviewsService for the founder,      *)
(* FounderReviewsService for the mentor).  Each handler reads the booking, *)
(* checks its status, and writes later.                                    *)
(***************************************************************************)
EXTENDS Naturals, FiniteSets

CONSTANTS
    Bookings,     \* bound: ids of the bookings of one founder with one mentor
    MentorTabs    \* bound: requests that each of the two has in flight

ASSUME MentoringAssumption == IsFiniteSet(MentorTabs)

VARIABLES
    booking,      \* booking[b]: MentorBookingRequest.status, "none" before book
    reviews,      \* reviews[b]: the sides that have a review row for b
    told,         \* told[b]: mentor.* and founder.* events emitted about b
    answered,     \* history: how often each answer was written to b
    task          \* task[u][t]: the request of user u's tab t

mentoringVars == <<booking, reviews, told, answered, task>>
rowVars == <<booking, reviews, answered>>

BookingAnswer == {"ACCEPTED", "DECLINED"}
Party == {"mentor", "founder"}
Free == [at |-> "free"]
Under == [at : {"answer", "review", "lookup"}, on : Bookings,
          what : BookingAnswer \union Party \union {"requested"}]

MentoringTypeOK ==
    /\ booking \in [Bookings -> BookingAnswer \union {"none", "PENDING"}]
    /\ reviews \in [Bookings -> SUBSET Party]
    /\ told \in [Bookings -> SUBSET (BookingAnswer \union Party \union {"requested"})]
    /\ answered \in [Bookings -> [BookingAnswer -> Nat]]
    /\ task \in [Party -> [MentorTabs -> Under \union {Free}]]

MentoringInit ==
    /\ booking = [b \in Bookings |-> "none"]
    /\ reviews = [b \in Bookings |-> {}]
    /\ told = [b \in Bookings |-> {}]
    /\ answered = [b \in Bookings |-> [w \in BookingAnswer |-> 0]]
    /\ task = [u \in Party |-> [t \in MentorTabs |-> Free]]

Task(u, t, new) == task' = [task EXCEPT ![u][t] = new]
IsAt(u, t, at) == task[u][t].at = at
Enter(u, t, at, b, what) ==
    /\ IsAt(u, t, "free")
    /\ Task(u, t, [at |-> at, on |-> b, what |-> what])
Move(u, t, at) == Task(u, t, [task[u][t] EXCEPT !.at = at])
------------------------------------------------------------------------------
Book(t, b) ==
    /\ booking[b] = "none"
    /\ booking' = [booking EXCEPT ![b] = "PENDING"]
    /\ Enter("founder", t, "lookup", b, "requested")
    /\ UNCHANGED <<reviews, answered, told>>

(* Variant carrying a bug: the status is not looked at. *)
MayAnswerAgain(b) == booking[b] # "none"

MayAnswer(b) == booking[b] = "PENDING"
MayReview(b) == booking[b] = "ACCEPTED"

CheckAnswer(t, b, w) ==
    /\ MayAnswer(b)
    /\ Enter("mentor", t, "answer", b, w)
    /\ UNCHANGED <<rowVars, told>>

(* The update is by id alone. *)
AnswerBooking(t) ==
    LET b == task["mentor"][t].on
        w == task["mentor"][t].what IN
    /\ IsAt("mentor", t, "answer")
    /\ booking' = [booking EXCEPT ![b] = w]
    /\ answered' = [answered EXCEPT ![b][w] = @ + 1]
    /\ Move("mentor", t, "lookup")
    /\ UNCHANGED <<reviews, told>>

CheckReview(u, t, b) ==
    /\ MayReview(b)
    /\ Enter(u, t, "review", b, u)
    /\ UNCHANGED <<rowVars, told>>

(* The unique index on bookingRequestId refuses the second row: 409. *)
Review(u, t) ==
    LET b == task[u][t].on IN
    /\ IsAt(u, t, "review")
    /\ IF u \in reviews[b]
         THEN Task(u, t, Free) /\ UNCHANGED reviews
         ELSE reviews' = [reviews EXCEPT ![b] = @ \union {u}] /\ Move(u, t, "lookup")
    /\ UNCHANGED <<booking, answered, told>>

(* The sender's name is looked up after the write; then the event. *)
Announce(u, t) ==
    LET r == task[u][t] IN
    /\ IsAt(u, t, "lookup")
    /\ told' = [told EXCEPT ![r.on] = @ \union {r.what}]
    /\ Task(u, t, Free)
    /\ UNCHANGED rowVars

(* An await fails, or the process stops. *)
Cut(u, t) ==
    /\ ~ IsAt(u, t, "free")
    /\ Task(u, t, Free)
    /\ UNCHANGED <<rowVars, told>>

MentoringNext ==
    \E t \in MentorTabs :
        \/ \E b \in Bookings : Book(t, b)
        \/ \E b \in Bookings, w \in BookingAnswer : CheckAnswer(t, b, w)
        \/ AnswerBooking(t)
        \/ \E u \in Party, b \in Bookings : CheckReview(u, t, b)
        \/ \E u \in Party : Review(u, t) \/ Announce(u, t) \/ Cut(u, t)

MentoringSpec == MentoringInit /\ [][MentoringNext]_mentoringVars
------------------------------------------------------------------------------
(***************************************************************************)
(* A review rests on consent: on that booking the mentor did write         *)
(* ACCEPTED, even if a second answer given at the same time replaced it;   *)
(* nobody hears of an answer or a review that has no row.                  *)
(***************************************************************************)
RestsOnConsent(b) ==
    /\ reviews[b] # {} => answered[b]["ACCEPTED"] > 0
    /\ \A w \in BookingAnswer : w \in told[b] => answered[b][w] > 0
    /\ told[b] \intersect Party \subseteq reviews[b]

(***************************************************************************)
(* "This booking request has already been responded to": an answer stands  *)
(* once the requests that read the booking as PENDING have ended, and no   *)
(* more answers are written than the mentor had tabs; reviews and news     *)
(* rest on them.                                                           *)
(***************************************************************************)
Undecided(b) ==
    {t \in MentorTabs : IsAt("mentor", t, "answer") /\ task["mentor"][t].on = b}

BookingsStayAnswered ==
    [][\A b \in Bookings :
          /\ RestsOnConsent(b)
          /\ booking[b] \in BookingAnswer /\ Undecided(b) = {}
                => booking'[b] = booking[b] /\ Undecided(b)' = {}
          /\ answered'[b]["ACCEPTED"] + answered'[b]["DECLINED"]
                <= Cardinality(MentorTabs)]_mentoringVars
==============================================================================

------------------------------ MODULE MCServices ------------------------------
(***************************************************************************)
(* Small instances of ten components for TLC.  They share no state: each   *)
(* behaviour is about one of them, and the others rest in one of their     *)
(* initial states.                                                         *)
(***************************************************************************)
EXTENDS DealPipeline, Mentoring, Hiring, Verification, OneTimeCodes,
        MfaEnrolment, Navigation, QueryCache, WebVisits, Polls

VARIABLE turn    \* the component this behaviour is about

ServicesInit ==
    /\ turn \in {"deals", "mentoring", "hiring", "verification",
                 "codes", "mfa", "navigation", "cache", "web", "polls"}
    /\ PipelineInit /\ MentoringInit /\ HiringInit /\ MfaInit /\ PollsInit
    /\ VerificationInit
    /\ turn # "verification" =>
          /\ kind = "Startup" /\ vstatus = "UNVERIFIED"
          /\ \A n \in ExtraCounts : extras <= n
    /\ CodesInit /\ (turn # "codes" => channel = "email")
    /\ NavInit /\ (turn # "navigation" => role = "FOUNDER")
    /\ WebInit /\ (turn # "web" => topic = CHOOSE t \in Topics : "startup" \notin t)
    /\ CacheInit /\ (turn # "cache" => pair = CHOOSE p \in Pairs : TRUE)

ServicesNext ==
    /\ IF turn = "cache" THEN CacheNext ELSE UNCHANGED cacheVars
    /\ IF turn = "navigation" THEN NavNext ELSE UNCHANGED navVars
    /\ IF turn = "codes" THEN CodesNext ELSE UNCHANGED codeVars
    /\ IF turn = "mfa" THEN MfaNext ELSE UNCHANGED mfaVars
    /\ IF turn = "deals" THEN PipelineNext ELSE UNCHANGED pipelineVars
    /\ IF turn = "mentoring" THEN MentoringNext ELSE UNCHANGED mentoringVars
    /\ IF turn = "hiring" THEN HiringNext ELSE UNCHANGED hiringVars
    /\ IF turn = "polls" THEN PollsNext ELSE UNCHANGED pollVars
    /\ IF turn = "web" THEN WebNext ELSE UNCHANGED webVars
    /\ IF turn = "verification" THEN VerificationNext ELSE UNCHANGED verificationVars
    /\ UNCHANGED turn

ServicesSpec ==
    ServicesInit
    /\ [][ServicesNext]_<<turn, pipelineVars, mentoringVars, hiringVars,
                          verificationVars, codeVars, mfaVars, navVars, cacheVars,
                          webVars, pollVars>>

(* The variables of the component that moves have their types; what the pages
   show is of one piece. *)
ServicesTypeOK ==
    /\ turn = "deals" => PipelineTypeOK
    /\ turn = "mentoring" => MentoringTypeOK
    /\ turn = "hiring" => HiringTypeOK
    /\ turn = "verification" => VerificationTypeOK
    /\ turn = "codes" => CodesTypeOK
    /\ turn = "mfa" => MfaTypeOK
    /\ turn = "navigation" => NavTypeOK
    /\ turn = "cache" => CacheTypeOK
    /\ turn = "web" => WebTypeOK /\ AreasAreClosed /\ NoOrphans
    /\ turn = "polls" => PollsTypeOK

\* What was answered, closed or used up stays so: an answer to a booking is not
\* taken back, a closed job takes nobody, every recovery code opens the account
\* once, and who has voted in a poll votes no more.
DoneStaysDone ==
    BookingsStayAnswered /\ ClosedJobsTakeNoOne /\ RecoveryCodesRunOut /\ VotesStayCast

Symmetry == Permutations(Runs)
==============================================================================

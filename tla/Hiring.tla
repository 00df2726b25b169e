-------------------------------- MODULE Hiring --------------------------------
(***************************************************************************)
(* One job posting and its applications: HiringService.  apply reads the   *)
(* job, then inserts, looks names up and announces, all under one catch.   *)
(***************************************************************************)
CONSTANTS
    Applicants,
    HiringTabs    \* bound: requests each applicant has in flight

VARIABLES
    job,          \* Job.status, "none" before createJob
    application,  \* application[a]: JobApplication.status, "none" before apply
    heard,        \* heard[a]: hiring.* events emitted about a's application
    wasOpen,      \* history: applicants that read the job while it was open
    conflict,     \* history: applicants told "You've already applied"
    applying      \* applying[a][t]: where a's request is

hiringVars == <<job, application, heard, wasOpen, conflict, applying>>

Verdict == {"SHORTLISTED", "REJECTED", "HIRED"}

HiringTypeOK ==
    /\ job \in {"none", "OPEN", "CLOSED"}
    /\ application \in [Applicants -> Verdict \union {"none", "SUBMITTED"}]
    /\ heard \in [Applicants -> SUBSET (Verdict \union {"applied"})]
    /\ wasOpen \subseteq Applicants
    /\ conflict \subseteq Applicants
    /\ applying \in [Applicants -> [HiringTabs -> {"free", "insert", "lookup"}]]

HiringInit ==
    /\ job = "none"
    /\ application = [a \in Applicants |-> "none"]
    /\ heard = [a \in Applicants |-> {}]
    /\ wasOpen = {}
    /\ conflict = {}
    /\ applying = [a \in Applicants |-> [t \in HiringTabs |-> "free"]]

Goes(a, t, from, to) ==
    /\ applying[a][t] = from
    /\ applying' = [applying EXCEPT ![a][t] = to]
------------------------------------------------------------------------------
CreateJob ==
    /\ job = "none"
    /\ job' = "OPEN"
    /\ UNCHANGED <<application, heard, wasOpen, conflict, applying>>

(* closeJob asks for no particular status; updateJob's input has none. *)
CloseJob ==
    /\ job # "none"
    /\ job' = "CLOSED"
    /\ UNCHANGED <<application, heard, wasOpen, conflict, applying>>

(* Variant carrying a bug: the job only has to exist. *)
AcceptingAlways == job # "none"

Accepting == job = "OPEN"

CheckApply(a, t) ==
    /\ Accepting
    /\ wasOpen' = IF job = "OPEN" THEN wasOpen \union {a} ELSE wasOpen
    /\ Goes(a, t, "free", "insert")
    /\ UNCHANGED <<job, application, heard, conflict>>

(* The insert, unique per job and applicant; the job is not read again. *)
Apply(a, t) ==
    /\ application[a] = "none"
    /\ application' = [application EXCEPT ![a] = "SUBMITTED"]
    /\ Goes(a, t, "insert", "lookup")
    /\ UNCHANGED <<job, heard, wasOpen, conflict>>

(* The founder and the applicant are looked up; then the event. *)
TellFounder(a, t) ==
    /\ heard' = [heard EXCEPT ![a] = @ \union {"applied"}]
    /\ Goes(a, t, "lookup", "free")
    /\ UNCHANGED <<job, application, wasOpen, conflict>>

(* The catch: a second row, and any other failure of the insert or of the
   lookups, end as "You've already applied to this job". *)
ApplyFails(a, t) ==
    /\ \E at \in {"insert", "lookup"} : Goes(a, t, at, "free")
    /\ conflict' = conflict \union {a}
    /\ UNCHANGED <<job, application, heard, wasOpen>>

(* respondToApplication reads nothing that can change but the row's being
   there, takes any verdict over any other, and emits after the write. *)
RespondToApplication(a, v) ==
    /\ application[a] # "none"
    /\ application' = [application EXCEPT ![a] = v]
    /\ heard' = [heard EXCEPT ![a] = @ \union {v}]
    /\ UNCHANGED <<job, wasOpen, conflict, applying>>

HiringNext ==
    \/ CreateJob \/ CloseJob
    \/ \E a \in Applicants, v \in Verdict : RespondToApplication(a, v)
    \/ \E a \in Applicants, t \in HiringTabs :
         CheckApply(a, t) \/ Apply(a, t) \/ TellFounder(a, t) \/ ApplyFails(a, t)

HiringSpec == HiringInit /\ [][HiringNext]_hiringVars
------------------------------------------------------------------------------
(***************************************************************************)
(* A closed job takes no more applications than were under way when it     *)
(* closed, whoever applied saw it open, and nobody hears of an application *)
(* or a verdict that is not on record.                                     *)
(***************************************************************************)
Inserting(a) == {t \in HiringTabs : applying[a][t] = "insert"}

ClosedJobsTakeNoOne ==
    [][\A a \in Applicants :
          /\ job = "CLOSED" /\ Inserting(a) = {}
                => (application'[a] = "none" <=> application[a] = "none")
                   /\ Inserting(a)' = {}
          /\ application'[a] # "none" => a \in wasOpen'
          /\ heard'[a] # {} => application'[a] # "none"]_hiringVars
==============================================================================

----------------------------- MODULE MCTrustEngine -----------------------------
(* Small instances of TrustEngine for TLC.  With these signals the scores lie
   between 24 and 45: one fact, the age of the profile and a wrong stage move
   the startup between three bands. *)
EXTENDS TrustEngine

MCGiven == {"emailVerified", "phoneVerified", "workDomainEmail", "demoPresent",
            "dpiitVerified", "investorTwoSideConfirmed", "capTableProvided"}
MCFacts == {"mcaVerified"}
MCThreshold == [t \in Triggers |-> "Bronze"]
==============================================================================

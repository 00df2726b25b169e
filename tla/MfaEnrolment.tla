----------------------------- MODULE MfaEnrolment -----------------------------
(***************************************************************************)
(* Two-factor authentication of one user: MfaService's enrolment, its      *)
(* disabling and the second step of a login.  Secrets are numbered; so are *)
(* the sets of ten recovery codes, of which one code is followed.          *)
(***************************************************************************)
EXTENDS Naturals, FiniteSets

CONSTANTS
    MfaTabs,       \* bound: requests in flight
    MaxSecrets,    \* bound: secrets ever generated
    MaxSets        \* bound: sets of recovery codes ever generated

ASSUME MfaAssumption == MaxSecrets \in Nat /\ MaxSets \in Nat

VARIABLES
    enabled,     \* User.twoFactorEnabled
    secret,      \* User.twoFactorSecret, 0 for null
    codeSets,    \* sets of recovery codes in the table, used up or not
    usedSets,    \* of those, the sets whose code has a usedAt
    given,       \* secrets and sets generated so far
    proven,      \* history: secrets that a code was accepted for
    raced,       \* history: two changes of the enrolment overlapped
    halved,      \* history: a confirmation was cut short after its first write
    logins,      \* history: logins that the code of a set let through
    mfa          \* mfa[t]: the request of tab t

mfaVars == <<enabled, secret, codeSets, usedSets, given, proven, raced, halved, logins, mfa>>
userVars == <<enabled, secret>>
codesVars == <<codeSets, usedSets, given>>

MfaChange == {"store", "enable", "purge", "generate", "disable"}
MfaRequest == [at : MfaChange \union {"none", "seek", "mark"}, what : 0..MaxSecrets + MaxSets]
NoMfa == [at |-> "none", what |-> 0]

MfaTypeOK ==
    /\ enabled \in BOOLEAN
    /\ secret \in 0..MaxSecrets
    /\ codeSets \subseteq 1..MaxSets /\ usedSets \subseteq codeSets
    /\ given \in [secrets : 0..MaxSecrets, sets : 0..MaxSets]
    /\ proven \subseteq 1..MaxSecrets
    /\ raced \in BOOLEAN /\ halved \in BOOLEAN
    /\ logins \in [1..MaxSets -> Nat]
    /\ mfa \in [MfaTabs -> MfaRequest]

MfaInit ==
    /\ enabled = FALSE /\ secret = 0
    /\ codeSets = {} /\ usedSets = {}
    /\ given = [secrets |-> 0, sets |-> 0]
    /\ proven = {}
    /\ raced = FALSE /\ halved = FALSE
    /\ logins = [s \in 1..MaxSets |-> 0]
    /\ mfa = [t \in MfaTabs |-> NoMfa]

Changing == {t \in MfaTabs : mfa[t].at \in MfaChange}
MfaGoes(t, at, what) == mfa' = [mfa EXCEPT ![t] = [at |-> at, what |-> what]]
StartChange(t, at, what) ==
    /\ mfa[t].at = "none"
    /\ MfaGoes(t, at, what)
    /\ raced' = (raced \/ Changing # {})
------------------------------------------------------------------------------
(* beginEnrollment: refused once enabled; the QR code is drawn before the
   secret is stored, and only then does the user see either. *)
BeginEnrollment(t) ==
    /\ ~ enabled
    /\ given.secrets < MaxSecrets
    /\ given' = [given EXCEPT !.secrets = @ + 1]
    /\ StartChange(t, "store", given.secrets + 1)
    /\ UNCHANGED <<userVars, codeSets, usedSets, proven, halved, logins>>
StoreSecret(t) ==
    /\ mfa[t].at = "store"
    /\ secret' = mfa[t].what
    /\ MfaGoes(t, "none", 0)
    /\ UNCHANGED <<enabled, codesVars, proven, raced, halved, logins>>

(* Variant carrying a bug: the code is not checked. *)
ConfirmUnchecked(t) ==
    /\ secret # 0
    /\ StartChange(t, "enable", 0)
    /\ UNCHANGED <<userVars, codesVars, proven, halved, logins>>

(* confirmEnrollment: a code of the stored secret, enabled already or not. *)
ConfirmEnrollment(t) ==
    /\ secret # 0
    /\ proven' = proven \union {secret}
    /\ StartChange(t, "enable", 0)
    /\ UNCHANGED <<userVars, codesVars, halved, logins>>
Enable(t) ==
    /\ mfa[t].at = "enable"
    /\ enabled' = TRUE
    /\ MfaGoes(t, "purge", 0)
    /\ UNCHANGED <<secret, codesVars, proven, raced, halved, logins>>
PurgeCodes(t) ==
    /\ mfa[t].at = "purge"
    /\ codeSets' = {} /\ usedSets' = {}
    /\ MfaGoes(t, "generate", 0)
    /\ UNCHANGED <<userVars, given, proven, raced, halved, logins>>
GenerateCodes(t) ==
    /\ mfa[t].at = "generate"
    /\ given.sets < MaxSets
    /\ given' = [given EXCEPT !.sets = @ + 1]
    /\ codeSets' = codeSets \union {given.sets + 1}
    /\ MfaGoes(t, "none", 0)
    /\ UNCHANGED <<userVars, usedSets, proven, raced, halved, logins>>

(* disable: a code of the stored secret, then one transaction. *)
CheckDisable(t) ==
    /\ enabled /\ secret # 0
    /\ StartChange(t, "disable", 0)
    /\ UNCHANGED <<userVars, codesVars, proven, halved, logins>>
Disable(t) ==
    /\ mfa[t].at = "disable"
    /\ enabled' = FALSE /\ secret' = 0
    /\ codeSets' = {} /\ usedSets' = {}
    /\ MfaGoes(t, "none", 0)
    /\ UNCHANGED <<given, proven, raced, halved, logins>>

(* Variant carrying a bug: used codes are found as well. *)
UsableEver(s) == s \in codeSets

Usable(s) == s \in codeSets \ usedSets

(* verifyChallenge with a recovery code: the user is read, then the code is
   found unused, then marked by id.  A code of the authenticator changes
   nothing. *)
Challenge(t) ==
    /\ mfa[t].at = "none"
    /\ enabled /\ secret # 0
    /\ MfaGoes(t, "seek", 0)
    /\ UNCHANGED <<userVars, codesVars, proven, raced, halved, logins>>
FindCode(t, s) ==
    /\ mfa[t].at = "seek"
    /\ Usable(s)
    /\ MfaGoes(t, "mark", s)
    /\ UNCHANGED <<userVars, codesVars, proven, raced, halved, logins>>
MarkCode(t) ==
    LET s == mfa[t].what IN
    /\ mfa[t].at = "mark"
    /\ s \in codeSets
    /\ usedSets' = usedSets \union {s}
    /\ logins' = [logins EXCEPT ![s] = @ + 1]
    /\ MfaGoes(t, "none", 0)
    /\ UNCHANGED <<userVars, codeSets, given, proven, raced, halved>>

(* An await fails, a row has gone, no unused code matches, or the process
   stops. *)
MfaFails(t) ==
    /\ mfa[t].at # "none"
    /\ halved' = (halved \/ mfa[t].at \in {"purge", "generate"})
    /\ MfaGoes(t, "none", 0)
    /\ UNCHANGED <<userVars, codesVars, proven, raced, logins>>

MfaNext ==
    \E t \in MfaTabs :
        \/ BeginEnrollment(t) \/ StoreSecret(t)
        \/ ConfirmEnrollment(t) \/ Enable(t) \/ PurgeCodes(t) \/ GenerateCodes(t)
        \/ CheckDisable(t) \/ Disable(t)
        \/ Challenge(t) \/ \E s \in 1..MaxSets : FindCode(t, s)
        \/ MarkCode(t) \/ MfaFails(t)

MfaSpec == MfaInit /\ [][MfaNext]_mfaVars
------------------------------------------------------------------------------
(***************************************************************************)
(* "twoFactorEnabled stays false until the user proves possession": so it  *)
(* is, and while no two changes of the enrolment have overlapped the user  *)
(* who is asked for a second factor can give it: the secret in place is    *)
(* one they proved, and they were given one set of recovery codes, unless  *)
(* the confirmation was cut short.                                         *)
(***************************************************************************)
SecondFactorIsHeld ==
    /\ enabled => proven # {}
    /\ enabled /\ ~ raced /\ Changing = {} =>
         /\ secret \in proven
         /\ ~ halved => Cardinality(codeSets) = 1

(***************************************************************************)
(* A recovery code is good for one login, or for those that found it       *)
(* unused together; once it is marked and they have ended, for no more.    *)
(***************************************************************************)
Marking(s) == {t \in MfaTabs : mfa[t].at = "mark" /\ mfa[t].what = s}

RecoveryCodesRunOut ==
    [][\A s \in 1..MaxSets :
          logins[s] > 0 /\ Marking(s) = {}
              => logins'[s] = logins[s] /\ Marking(s)' = {}]_mfaVars
==============================================================================

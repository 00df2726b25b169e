----------------------------- MODULE OneTimeCodes -----------------------------
(***************************************************************************)
(* Six-digit codes for one user and one purpose: OtpService with the       *)
(* email-verification endpoints, and PhoneVerificationService, which is    *)
(* the same up to its last write.  Codes are numbered in creation order.   *)
(***************************************************************************)
EXTENDS Naturals, FiniteSets

CONSTANTS
    CodeTabs,       \* bound: requests the user has in flight
    MaxAttempts,    \* MAX_VERIFY_ATTEMPTS, 5 in the code
    MaxCodes        \* bound: codes ever issued

ASSUME CodesAssumption ==
    /\ IsFiniteSet(CodeTabs)
    /\ MaxAttempts \in Nat \ {0}
    /\ MaxCodes \in Nat

VARIABLES
    channel,     \* which of the two services
    issued,      \* codes in the table
    tried,       \* tried[c]: OtpCode.attempts
    consumed,    \* codes with a consumedAt
    expired,     \* codes older than ten minutes: those up to this one
    recent,      \* a code was created within the last minute
    confirmed,   \* emailVerifiedAt, phoneVerifiedAt
    phoneRows,   \* OTP_PHONE rows in the verification ledger
    guess        \* guess[t]: the request of tab t

codeVars == <<channel, issued, tried, consumed, expired, recent, confirmed, phoneRows, guess>>

Code == 1..MaxCodes
NoGuess == [at |-> "none", code |-> 0]
Guess == [at : {"none", "create", "count", "consume", "mark"}, code : 0..MaxCodes]

CodesTypeOK ==
    /\ channel \in {"email", "phone"}
    /\ issued \in 0..MaxCodes
    /\ tried \in [Code -> Nat]
    /\ consumed \subseteq Code
    /\ expired \in 0..MaxCodes
    /\ recent \in BOOLEAN
    /\ confirmed \in BOOLEAN
    /\ phoneRows \in Nat
    /\ guess \in [CodeTabs -> Guess]

CodesInit ==
    /\ channel \in {"email", "phone"}
    /\ issued = 0 /\ expired = 0 /\ phoneRows = 0
    /\ tried = [c \in Code |-> 0]
    /\ consumed = {}
    /\ recent = FALSE /\ confirmed = FALSE
    /\ guess = [t \in CodeTabs |-> NoGuess]

GoTo(t, at, c) == guess' = [guess EXCEPT ![t] = [at |-> at, code |-> c]]
------------------------------------------------------------------------------
(* issue: nothing younger than a minute may be there when it looks. *)
CheckCooldown(t) ==
    /\ guess[t].at = "none"
    /\ ~ recent
    /\ GoTo(t, "create", 0)
    /\ UNCHANGED <<channel, issued, tried, consumed, expired, recent, confirmed, phoneRows>>

CreateCode(t) ==
    /\ guess[t].at = "create"
    /\ issued < MaxCodes
    /\ issued' = issued + 1
    /\ recent' = TRUE
    /\ GoTo(t, "none", 0)
    /\ UNCHANGED <<channel, tried, consumed, expired, confirmed, phoneRows>>

(* Variant carrying a bug: one attempt too many. *)
MayTryOneMore(c) == c > expired /\ tried[c] <= MaxAttempts

MayTry(c) == c > expired /\ tried[c] < MaxAttempts

(* verify reads the newest code that is not consumed: when that code has been
   used, an older one is the newest again. *)
Newest(c) ==
    /\ c \in 1..issued \ consumed
    /\ \A d \in 1..issued \ consumed : d <= c

(* The code is compared in memory: the request goes on to count a wrong guess
   or to consume a right one. *)
Verify(t, c, right) ==
    /\ guess[t].at = "none"
    /\ Newest(c)
    /\ MayTry(c)
    /\ GoTo(t, IF right THEN "consume" ELSE "count", c)
    /\ UNCHANGED <<channel, issued, tried, consumed, expired, recent, confirmed, phoneRows>>

CountWrong(t) ==
    LET c == guess[t].code IN
    /\ guess[t].at = "count"
    /\ tried' = [tried EXCEPT ![c] = @ + 1]
    /\ GoTo(t, "none", 0)
    /\ UNCHANGED <<channel, issued, consumed, expired, recent, confirmed, phoneRows>>

(* OtpService consumes, and the controller marks the address afterwards. *)
ConsumeEmail(t) ==
    /\ channel = "email"
    /\ guess[t].at = "consume"
    /\ consumed' = consumed \union {guess[t].code}
    /\ GoTo(t, "mark", guess[t].code)
    /\ UNCHANGED <<channel, issued, tried, expired, recent, confirmed, phoneRows>>
MarkEmailVerified(t) ==
    /\ guess[t].at = "mark"
    /\ confirmed' = TRUE
    /\ GoTo(t, "none", 0)
    /\ UNCHANGED <<channel, issued, tried, consumed, expired, recent, phoneRows>>

(* Variant carrying a bug: the ledger row is written by a later request. *)
ConfirmPhoneOnly(t) ==
    /\ channel = "phone"
    /\ guess[t].at = "consume"
    /\ consumed' = consumed \union {guess[t].code}
    /\ confirmed' = TRUE
    /\ GoTo(t, "none", 0)
    /\ UNCHANGED <<channel, issued, tried, expired, recent, phoneRows>>

(* PhoneVerificationService.confirm: one transaction. *)
ConfirmPhone(t) ==
    /\ channel = "phone"
    /\ guess[t].at = "consume"
    /\ consumed' = consumed \union {guess[t].code}
    /\ confirmed' = TRUE
    /\ phoneRows' = phoneRows + 1
    /\ GoTo(t, "none", 0)
    /\ UNCHANGED <<channel, issued, tried, expired, recent>>

(* An await fails or the process stops. *)
GuessFails(t) ==
    /\ guess[t].at # "none"
    /\ GoTo(t, "none", 0)
    /\ UNCHANGED <<channel, issued, tried, consumed, expired, recent, confirmed, phoneRows>>

MinutePasses ==
    /\ recent
    /\ recent' = FALSE
    /\ UNCHANGED <<channel, issued, tried, consumed, expired, confirmed, phoneRows, guess>>

(* Ten minutes outlast the cooldown: the code that is recent has not expired. *)
CodeExpires ==
    /\ expired < issued
    /\ recent => expired + 1 < issued
    /\ expired' = expired + 1
    /\ UNCHANGED <<channel, issued, tried, consumed, recent, confirmed, phoneRows, guess>>

CodesNext ==
    \/ MinutePasses \/ CodeExpires
    \/ \E t \in CodeTabs :
         \/ CheckCooldown(t) \/ CreateCode(t)
         \/ \E c \in Code, right \in BOOLEAN : Verify(t, c, right)
         \/ CountWrong(t) \/ ConsumeEmail(t) \/ MarkEmailVerified(t)
         \/ ConfirmPhone(t) \/ GuessFails(t)

CodesSpec == CodesInit /\ [][CodesNext]_codeVars
------------------------------------------------------------------------------
(***************************************************************************)
(* The limit on wrong guesses of a code holds up to the requests that were *)
(* in flight together: each of them may have seen the count before the     *)
(* others raised it.                                                       *)
(***************************************************************************)
GuessesBounded ==
    \A c \in Code : tried[c] <= MaxAttempts + Cardinality(CodeTabs) - 1

(***************************************************************************)
(* Nobody's address or number is marked verified without a code that was   *)
(* used up for it; a number is so only together with its ledger row, and   *)
(* the ledger gets no more rows than requests guessed codes right at once. *)
(***************************************************************************)
ConfirmedByCode ==
    /\ confirmed => consumed # {}
    /\ channel = "phone" => (confirmed <=> phoneRows > 0)
    /\ phoneRows <= Cardinality(consumed) * Cardinality(CodeTabs)
==============================================================================

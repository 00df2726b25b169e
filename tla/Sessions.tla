------------------------------- MODULE Sessions -------------------------------
(***************************************************************************)
(* The server side of one user's sessions: AuthService (login, refresh,    *)
(* logout, issueSession), SessionService, PasswordResetService and         *)
(* UsersService.softDelete.  A refresh reads its token, revokes it and     *)
(* issues another in three separate statements; a reset revokes all live   *)
(* tokens in one transaction.                                              *)
(***************************************************************************)
EXTENDS Naturals, FiniteSets

CONSTANTS
    Tokens,     \* bound: refresh tokens ever issued
    Links,      \* bound: password-reset links ever mailed
    Requests,   \* bound: login, refresh and reset requests in flight
    NoToken

ASSUME SAssumption ==
    /\ IsFiniteSet(Requests)
    /\ Links # {}
    /\ NoToken \notin Tokens

VARIABLES
    token,    \* token[k]: the RefreshToken row of k
    link,     \* link[l]: the PasswordResetToken row of l
    deleted,  \* User.deletedAt is set
    epoch,    \* how often the password was reset
    born,     \* history: born[k], the epoch of the login k descends from
    root,     \* history: root[k], the token issued by that login
    uses,     \* history: uses[k], tokens issued in exchange for k
    resets,   \* history: resets[l], passwords set with l
    authReq   \* authReq[r]: the request in slot r

rows == <<token, link, deleted, epoch>>
history == <<born, root, uses, resets>>
serverVars == <<rows, history, authReq>>

AuthStep == {"idle", "revoke", "issue", "reset", "granted", "refused"}
Request == [step : AuthStep, from : Tokens \union {NoToken}, born : Nat,
            issued : Tokens \union {NoToken}, link : Links]

SessionsTypeOK ==
    /\ token \in [Tokens -> {"none", "live", "revoked", "expired"}]
    /\ link \in [Links -> {"none", "sent", "consumed", "expired"}]
    /\ deleted \in BOOLEAN
    /\ epoch \in Nat
    /\ born \in [Tokens -> Nat]
    /\ root \in [Tokens -> Tokens \union {NoToken}]
    /\ uses \in [Tokens -> Nat]
    /\ resets \in [Links -> Nat]
    /\ authReq \in [Requests -> Request]

SomeLink == CHOOSE l \in Links : TRUE
NoRequest == [step |-> "idle", from |-> NoToken, born |-> 0, issued |-> NoToken, link |-> SomeLink]

SessionsInit ==
    /\ token = [k \in Tokens |-> "none"]
    /\ link = [l \in Links |-> "none"]
    /\ deleted = FALSE
    /\ epoch = 0
    /\ born = [k \in Tokens |-> 0]
    /\ root = [k \in Tokens |-> NoToken]
    /\ uses = [k \in Tokens |-> 0]
    /\ resets = [l \in Links |-> 0]
    /\ authReq = [r \in Requests |-> NoRequest]

Proceed(r, q) == authReq' = [authReq EXCEPT ![r] = q]
At(r, step) == authReq[r].step = step

(* Variant carrying a bug: only tokens that have run out are revoked. *)
RevokedExpired(K) ==
    [k \in Tokens |-> IF k \in K /\ token[k] = "expired" THEN "revoked" ELSE token[k]]

(* updateMany over the tokens that are not revoked yet. *)
RevokedAll(K) ==
    [k \in Tokens |-> IF k \in K /\ token[k] # "none" THEN "revoked" ELSE token[k]]

------------------------------------------------------------------------------
(* login: the password is verified against the row as it is now. *)
Login(r) ==
    /\ At(r, "idle")
    /\ ~ deleted
    /\ Proceed(r, [NoRequest EXCEPT !.step = "issue", !.born = epoch])
    /\ UNCHANGED <<rows, history>>

(* refresh reads the row; a token that is not live is refused. *)
ReadToken(r, k) ==
    /\ At(r, "idle")
    /\ Proceed(r, IF k \in Tokens /\ token[k] = "live"
                   THEN [NoRequest EXCEPT !.step = "revoke", !.from = k, !.born = born[k]]
                   ELSE [NoRequest EXCEPT !.step = "refused", !.from = k])
    /\ UNCHANGED <<rows, history>>

(* Variant carrying a bug: the token stays live. *)
RevokeNothing(r) ==
    /\ At(r, "revoke")
    /\ Proceed(r, [authReq[r] EXCEPT !.step = "issue"])
    /\ UNCHANGED <<rows, history>>

(* update by id: the token read as live may have been revoked since. *)
RevokeUsed(r) ==
    /\ At(r, "revoke")
    /\ token' = [token EXCEPT ![authReq[r].from] = "revoked"]
    /\ Proceed(r, [authReq[r] EXCEPT !.step = "issue"])
    /\ UNCHANGED <<link, deleted, epoch, history>>

(* issueSession: a fresh row and the answer that carries it.  Only the order of
   their issue tells tokens apart, so each time it is a certain one. *)
FreshToken == CHOOSE k \in Tokens : token[k] = "none"

Issue(r, k) ==
    LET from == authReq[r].from IN
    /\ At(r, "issue")
    /\ token[k] = "none" /\ k = FreshToken
    /\ token' = [token EXCEPT ![k] = "live"]
    /\ born' = [born EXCEPT ![k] = authReq[r].born]
    /\ root' = [root EXCEPT ![k] = IF from = NoToken THEN k ELSE root[from]]
    /\ uses' = IF from = NoToken THEN uses ELSE [uses EXCEPT ![from] = @ + 1]
    /\ Proceed(r, [authReq[r] EXCEPT !.step = "granted", !.issued = k])
    /\ UNCHANGED <<link, deleted, epoch, resets>>

Answer(r) ==
    /\ authReq[r].step \in {"granted", "refused"}
    /\ Proceed(r, NoRequest)
    /\ UNCHANGED <<rows, history>>

(* A statement fails or the process stops: the client is refused. *)
Abort(r) ==
    /\ authReq[r].step \in {"revoke", "issue", "reset"}
    /\ Proceed(r, [NoRequest EXCEPT !.step = "refused", !.from = authReq[r].from])
    /\ UNCHANGED <<rows, history>>

------------------------------------------------------------------------------
(* logout: updateMany by the hash of the cookie. *)
Logout(k) ==
    /\ token[k] # "none"
    /\ token' = [token EXCEPT ![k] = "revoked"]
    /\ UNCHANGED <<link, deleted, epoch, history, authReq>>

(* revokeSession, of the user's own list of devices. *)
RevokeSession(k) ==
    /\ token[k] # "none"
    /\ token' = [token EXCEPT ![k] = "revoked"]
    /\ UNCHANGED <<link, deleted, epoch, history, authReq>>

(* revokeAllOtherSessions *)
RevokeOthers(k) ==
    /\ token[k] # "none"
    /\ token' = RevokedAll({j \in Tokens \ {k} : token[j] # "revoked"})
    /\ UNCHANGED <<link, deleted, epoch, history, authReq>>

SoftDelete ==
    /\ ~ deleted
    /\ deleted' = TRUE
    /\ token' = RevokedAll(Tokens)
    /\ UNCHANGED <<link, epoch, history, authReq>>

Expire(k) ==
    /\ token[k] = "live"
    /\ token' = [token EXCEPT ![k] = "expired"]
    /\ UNCHANGED <<link, deleted, epoch, history, authReq>>

------------------------------------------------------------------------------
(* requestReset: any number of links may be out. *)
RequestReset(l) ==
    /\ ~ deleted
    /\ link[l] = "none"
    /\ link' = [link EXCEPT ![l] = "sent"]
    /\ UNCHANGED <<token, deleted, epoch, history, authReq>>

(* confirmReset reads the link, then hashes the new password. *)
ReadLink(r, l) ==
    /\ At(r, "idle")
    /\ link[l] = "sent"
    /\ Proceed(r, [NoRequest EXCEPT !.step = "reset", !.link = l])
    /\ UNCHANGED <<rows, history>>

(* Variant carrying a bug: the link gets a status nobody knows. *)
CommitResetUsed(r) ==
    /\ At(r, "reset")
    /\ epoch' = epoch + 1
    /\ link' = [link EXCEPT ![authReq[r].link] = "used"]
    /\ resets' = [resets EXCEPT ![authReq[r].link] = @ + 1]
    /\ token' = RevokedAll(Tokens)
    /\ Proceed(r, NoRequest)
    /\ UNCHANGED <<deleted, born, root, uses>>

(* The transaction of confirmReset, by ids alone. *)
CommitReset(r) ==
    /\ At(r, "reset")
    /\ epoch' = epoch + 1
    /\ link' = [link EXCEPT ![authReq[r].link] = "consumed"]
    /\ resets' = [resets EXCEPT ![authReq[r].link] = @ + 1]
    /\ token' = RevokedAll(Tokens)
    /\ Proceed(r, NoRequest)
    /\ UNCHANGED <<deleted, born, root, uses>>

ExpireLink(l) ==
    /\ link[l] = "sent"
    /\ link' = [link EXCEPT ![l] = "expired"]
    /\ UNCHANGED <<token, deleted, epoch, history, authReq>>

Session(r) ==
    \/ Login(r)
    \/ \E k \in Tokens : ReadToken(r, k)
    \/ RevokeUsed(r)
    \/ \E k \in Tokens : Issue(r, k)
    \/ Answer(r)
    \/ Abort(r)
    \/ \E l \in Links : ReadLink(r, l)
    \/ CommitReset(r)

SessionsNext ==
    \/ \E r \in Requests : Session(r)
    \/ \E k \in Tokens : Logout(k) \/ RevokeSession(k) \/ RevokeOthers(k) \/ Expire(k)
    \/ \E l \in Links : RequestReset(l) \/ ExpireLink(l)
    \/ SoftDelete

SessionsSpec == SessionsInit /\ [][SessionsNext]_serverVars
------------------------------------------------------------------------------
Live == {k \in Tokens : token[k] = "live"}

(* Live sessions that a password reset or the account's deletion should have
   ended, and the requests that can still bring one about. *)
Leftover == {k \in Live : born[k] # epoch \/ deleted}
Carrying == {r \in Requests :
                authReq[r].step \in {"revoke", "issue"} /\ (authReq[r].born # epoch \/ deleted)}

(***************************************************************************)
(* A password reset or a deletion ends every session for good, except for  *)
(* what requests already past their check can still issue.                 *)
(***************************************************************************)
EndedStaysEnded ==
    [][Leftover = {} /\ Carrying = {} => Leftover' = {}]_serverVars

(***************************************************************************)
(* A token that was exchanged is dead, and was exchanged no more often     *)
(* than requests ran at once; likewise a reset link.                       *)
(***************************************************************************)
ExchangesBounded ==
    /\ \A k \in Tokens :
          /\ uses[k] > 0 => token[k] # "live"
          /\ uses[k] <= Cardinality(Requests)
    /\ \A l \in Links :
          /\ resets[l] > 0 => link[l] # "sent"
          /\ resets[l] <= Cardinality(Requests)

==============================================================================

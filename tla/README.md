# VittamHub: formal models

TLA+ models of VittamHub where requests, tabs, timers, jobs and devices
interleave, and of the tables in which its pages, client and API must agree;
the TLC configurations that check them; and TLAPS proofs of what the checks
find. Paths below are relative to the repository.

Run a model with `tlc -workers 2 -config X.cfg MCX.tla` (section 3 names the
module of each configuration), a proof with `tlapm XProofs.tla`.

## 1. The system

A Turborepo monorepo: `apps/api` (NestJS, Prisma on Postgres, BullMQ on Redis),
`apps/web` (Next.js), and shared packages, of which `packages/api-client` holds
the browser's HTTP client and its query hooks. The API is one process of
stateless services. Every handler is a sequence of awaited database statements;
hardly any handler uses a transaction, and most updates are by id alone, so
what a handler has read may be stale when it writes. Services talk through an
in-process `EventEmitter2` (`profile.upserted`, `connection.*`,
`relationship-claim.*`, `watchlist-trigger.fired`), whose listeners run after
the emitter and whose failures nobody sees. Background work (email, daily trust
recompute, hourly watchlist evaluation) runs in BullMQ workers guarded by a
circuit breaker. In the browser, every tab renews its session by itself over
one cookie jar, pages show a query cache that mutations invalidate by key
prefixes, and the onboarding wizards save in the background.

### Inventory

| Component | State it keeps | Operations | What is hard | What makes it correct |
|---|---|---|---|---|
| Connections | `Connection`, `Message`, `Meeting` rows | create, respond, requestMoreInfo, scheduleMeeting, sendMessage | quota check and insert are apart; two answers at once; events after further awaits | bounded overshoot; one notice; an answer is final; no talk without acceptance |
| Plan limits | `PlanLimit`, `Subscription.plan` | getMonthlyConnectRequestLimit, upsert | changes while a request runs | part of the quota's bound |
| Relationship claims | `RelationshipClaim`, `VerificationRecord` | create, respond | answer and records are apart | two-sided, and only after a confirmation |
| Documents | `Document`, `DocumentGrant`, `DocumentView` | upload, remove, grant, revoke, acceptNda, access | checks and writes of owner and viewer interleave; time passes | no file without consent; revocation stops access; honest logs |
| Sessions | `RefreshToken`, `PasswordResetToken`, `User.deletedAt` | login, refresh, logout, revoke, reset, delete | rotation in three statements | an ended session stays ended; a token is exchanged a bounded number of times |
| Session renewal (browser) | cookie jar, `refreshInFlight`, `refreshBlockedUntil` per tab | apiRequest, refreshSession, onSessionExpired | calls share a renewal, tabs do not; answers get lost | nobody is signed out for nothing, no call hangs |
| One-time codes, MFA | `OtpCode`, `MfaRecoveryCode`, `User.twoFactor*` | issue, verify; enrol, confirm, challenge, disable | attempts counted by read and update; overlapping enrolments | guesses are limited; the secret in force was proven; a recovery code runs out |
| Onboarding | `UserProfile.onboardingDraft/Status`, wizard store, debounce timer, forms | saveDraft, publish, useAutosave, reload | overlapping read-merge-write; unmount flush against publish; two schemas for one form | nothing typed is lost, the profile is the last draft, publish accepts what the forms let pass |
| Trust score v2 | `TrustScoreSnapshot` | computeAndPersistForStartup | overlapping recomputes; hysteresis | a band neither flatters nor flickers |
| Trust v1, investor trust, match | scores of yes-or-no facts | recompute, compare | a replica kept by hand | monotone percentages, replica equal |
| Watchlist triggers | `WatchlistTrigger` | create, remove, evaluateAll | mark and alert are apart; rows vanish | true and timely alerts |
| Queue circuit breaker | error count, backoff, timer, worker's pause | onError, onHealthy, probe | late successes and errors around a trip | there is a way back from every trip |
| Verification engine | `verificationStatus`, `VerificationRecord` | recompute on `profile.upserted` | a recompute writes what an earlier read said | the status is earned, VERIFIED is on record |
| Pipeline, portfolio | `PipelineEntry`, `Investment` | addToPipeline, updateEntry, pass, remove, recordExit | cards move or go while a request holds their id | a closed deal is held, an exit stays |
| Mentors | `MentorBookingRequest`, reviews | book, respond, review | two answers; reviews rest on bookings | an answer stays; reviews rest on it |
| Hiring | `Job`, `JobApplication` | createJob, closeJob, apply, respondToApplication | closing against applying | a closed job takes no one |
| Community | polls, posts, follows | vote, remove, ... | one vote is a check before an insert | a vote stays, few on top |
| API routes, guards, handlers | tables in the controllers | match, admit, serve | `:slug` and `me`, two controllers with one prefix | the request reaches the handler it was written for |
| Web navigation | cookies, cached `auth/me`, page | middleware, entry page, onSessionExpired | cookies, caches and API disagree | redirects end; a dashboard has a session |
| Query cache | data and freshness per key | fetch, invalidate, setQueryData | a fetch under way when a mutation settles | what a mutation refreshes is fresh |
| Web pages | what each page reads, offers and links | open, follow, press | three descriptions of who may do what | offers are honoured, links lead, nobody is stuck |
| Notifications, audit log, email | rows, jobs | event handlers, record | events after a failed handler | inside the handlers that cause them |
| OAuth, providers, media, rendering | none worth a model | | | not modelled (section 6) |

`PROJECT.json` lists the components with their files and, under `hazards`,
each place where the code can go wrong in a way a test would hardly reach, with
the property that watches over it.

## 2. The modules

Every handler is cut at its awaits: one action per database statement (or group
of statements that no other actor can tell apart), an action for a statement
that fails or a process that stops, and request slots ("tabs") that bound how
many handlers of one caller run at once. A refused request (400, 403, 404, 409)
that changes nothing is a guard, unless its answer matters. Definitions whose
comment says "Variant carrying a bug" are not part of a specification; they
show that a property can fail.

| Module | Models | State and its counterpart |
|---|---|---|
| `ConnectRequests` | `connections.service.ts` create, `plan-limits.service.ts`, the unique key of `Connection` | `sentIn` = rows with their month, `req` = running handlers, `events`/`inbox` = the notification |
| `ConnectionLifecycle` | `connections.service.ts` from respond on | `status`, `info`, `messages`, `meetings` = rows; `notices` = events |
| `ConnectionPromise` | abstract: what a connection promises its parties | `open` = the answer can still change |
| `RelationshipClaims` | `relationship-claims.service.ts` | `claimant`, `target`, `claimStatus`, `records` = rows |
| `AccessPromise` | abstract: what the data room promises the owner of a document | `standing` = what the grant is worth; `inside` = who was let in and has no link yet |
| `DocumentGrants` | `document-access.service.ts`, `documents.service.ts` | `doc`, `grant`, `views` = rows; `opens` = signed links handed out; `now` in days |
| `Sessions` | `auth.service.ts`, `session.service.ts`, `password-reset.service.ts`, `softDelete` | `token`, `link`, `deleted` = rows; `authReq` = running requests |
| `BrowserSession` (extends `Sessions`) | `packages/api-client/src/http.ts`, `http-client-setup.ts`, the cookies of `auth.controller.ts` | `jar`, and per tab `call`, `flight` = `refreshInFlight`, `blocked` = `refreshBlockedUntil` |
| `CircuitBreaker` | `redis-circuit-breaker.ts` and its wiring in the three processors; the BullMQ worker as used | `errors`, `tripped`, `backoff`, `timer` = its fields; `paused`, `fetching`, `active` = the worker |
| `OnboardingDraft` | `useAutosave.ts`, the wizard steps, `onboarding.service.ts`, `startup.publisher.ts` | `form` = what the steps hold, `kept` = the store, `draft`, `status`, `published` = rows, `req` = requests |
| `OnboardingForms` | the fields of all seven wizards: widget, browser schema, publisher schema | tables, no state |
| `OnboardingResume` | one field of one wizard through steps, reloads, returns, other devices and publish | `answer` = form, `stored` = the browser's store, `saved` = draft, `live` = profile |
| `TrustEngine` | `trust-model.ts` in full, `trust-engine.service.ts`, `watchlist-*.ts` for trust bands | `latest` = newest snapshot, `trigger` = rows, `job` = `evaluateAll` |
| `Scores` | `trust-score.service.ts`, `investor-trust.service.ts`, `match-score.service.ts`, `trust-compare.ts` | `facts` of one subject |
| `Verification` | `verification-engine.service.ts` | `vstatus`, `record` = rows, `run` = recomputes |
| `OneTimeCodes` | `otp.service.ts`, `phone-verification.service.ts`, email verification | `tried`, `consumed` = rows, `guess` = requests |
| `MfaEnrolment` | `mfa.service.ts` and the challenge of `auth.service.ts` | `enabled`, `secret`, `codeSets`, `usedSets` = rows, `mfa` = requests |
| `DealPipeline` | `pipeline.service.ts`, `portfolio.service.ts` | `card`, `holding` = rows, `dealReq` = requests |
| `Mentoring`, `Hiring`, `Polls` | `mentor-booking.service.ts` and reviews, `hiring.service.ts`, `polls.service.ts` | rows, and the requests under way |
| `Navigation` | `middleware.ts`, `role-home.ts`, `onboarding/page.tsx`, onSessionExpired | `page`, `heading`, `session`, `refresh`, `me`, `status` |
| `QueryCache` | the hooks of `packages/api-client/src/hooks` over TanStack Query | one query and one mutation that names its key, pressed again and again: `writes` numbers what the API wrote, `shown` and `acked` say up to which the page shows and the user was told |
| `ApiRoutes`, `ApiClient`, `ApiHandlers`, `WebPages` | controllers and guards; endpoint functions; what services need of rows; what pages read, offer and link | tables, no state |
| `WebVisits` | a browser in use, over those four tables | `reader`, `openPage`, `siteRows` |
| `MC*` | instances for TLC | constants, symmetry, and which part a behaviour is about |
| `*Proofs` | TLAPS proofs | |

How they compose:

- `BrowserSession` extends `Sessions`: the cookies meet its server actions.
- `ConnectionLifecycle` instantiates `ConnectionPromise` under a refinement mapping,
  `DocumentGrants` instantiates `AccessPromise`.
- `TrustEngine` joins the scoring model, the recompute and the alerts, because
  alerts read what recomputes store. The facts a recompute reads come from
  documents, claims and verification; they are inputs, any subset of `Facts`.
- `WebVisits` joins pages, client, routes and services: a page's offer is a
  call of `ApiClient`, matched by `ApiRoutes`, served by `ApiHandlers`, and the
  rows it changes decide what other pages offer.
- `OnboardingResume` joins the forms with the store, the draft and the publishers.
- `ConnectRequests` and `ConnectionLifecycle` split at the row's creation: before
  it only the quota and the unique key matter, after it only one row's status.
- `MCFilings`, `MCMembers`, `MCRecovery` and `MCServices` put components side by
  side that share no state. Their variable `turn` says which one a behaviour
  is about; the others rest in an initial state, so the states of the
  composition are the sum, not the product, of the parts' states. Lemmas of the
  proof modules show that such a composition implies each part's own `Spec`,
  so a theorem about a part is one about the composition.

Two technical choices. `WebVisits` declares `PartsFor` as a constant whose value
an assumption fixes to `SiteParts`, and the configuration gives it that value:
the table of everything on every page is then computed once instead of in
every state. `OnboardingForms` defines `++` to put two tables together, in place
of TLC's `@@`, so that the provers can expand it.

## 3. The runs

Twelve configurations: seven that hold and five that show the code to differ
from what it says of itself. Distinct states are those TLC reports.

| Run (module) | States | Instance, and why it is enough |
|---|---|---|
| `Filings` (`MCFilings`) | 895 k | *Requests*: one founder, two tabs, two investors and a recipient that is none, a limit of 1 that an administrator sets to 0, two plans, two months. Two tabs at a limit of one is the smallest overshoot; the month turns once. *Claims*: two profiles with two tabs each, two claims, so that claims cross. |
| `ConnectionLifecycle` (`MCConnectionLifecycle`) | 915 k | One row, two tabs of the investor, one of the founder, one stranger. Two answers at once need two tabs; a third adds no new pair. |
| `Recovery` (`MCRecovery`) | 171 k | *Browser*: two tabs, one of them with two calls, three tokens (interchangeable, so the login makes the first); calls that would need more tokens are not sent. *Breaker*: the program's own threshold, multiplier, first backoff and cap (in seconds), two jobs. *Wizard*: all seven wizards, every kind of field, one reload, return or change of device. |
| `DocumentGrants` (`MCDocumentGrants`) | 1.68 M | One document, owner and viewer with two tabs each, three days, at most two grants (a renewal) and two views: a second request is under way while the first one's grant is renewed or falls. |
| `Members` (`MCMembers`) | 1.77 M | *Draft*: two data steps and the review, two requests in flight that may fail, two edits per step, publish pressed twice. *Sessions*: two requests over three tokens and one link: a rotation, a second one of the same token, a login. *Scores*: every set of facts of all three. |
| `TrustEngine` (`MCTrustEngine`) | 1.19 M | Two overlapping recomputes; the signals put scores between 24 and 45, across two thresholds and the four points below them; one trigger, one evaluator. |
| `Services` (`MCServices`) | 411 k | One startup, booking, applicant, voter; two requests at once everywhere, which is what a check before a write needs; three cards, so that a removed one is replaced; two codes, two wrong guesses, two secrets, two code sets. *Navigation* and *web* are complete: every role, every reader and page of every topic. *Cache*: every pair of a query and a mutation that names it, the mutation pressed twice, so that one can settle while the other is on its way (`MaxPresses`, `MaxWrites`). |
| `TrustEngineBand`, `CircuitBreakerClosed`, `OnboardingDraftFinish`, `OnboardingResume`, `AccountDeletion` | violation | see section 5; their modules are `MCTrustEngine`, `MCCircuitBreaker`, `OnboardingDraft`, `OnboardingResume` and `Navigation` |

### What the passing runs show

*Connect requests.* `QuotaOvershootBounded`: the rows of a month exceed a limit
they passed under by at most the founder's other concurrent requests.
`NotifiedAtMostOnce`: the unique key makes the notice unique, whatever fails.

*Relationship claims* (in `FilingsAreSound`). Both sides get the same number of
records, never more than confirmations; the claimant hears only what was
decided and recorded; outside cut-short or contested answers, records and
status agree. `SettledStaysSettled`: an answered claim stays answered once no
request that read it as PENDING is left.

*Connections.* `LifecycleIsSound`: no more answers are written than the
investor had requests in flight, and an event goes to the other side and after
the write it announces. `ImplementsPromise`: the handlers, none of which checks
again, refine `ConnectionPromise`.

*Circuit breaker.* `TrippedHasWayBack`, and `RecoversWithRedis`: if Redis stays
up, the worker ends up running for good, provided nothing was still under way
when it was paused.

*Session renewal.* The history variables tell a real end of the session
(`ended`: logout, revocation, expiry) from what goes wrong with a live one: two
tabs that renew at once (`clash`), an error of the API after it had read the
token (`cut`), an answer lost after the token was exchanged (`missed`), a renewal
that got no answer of the API in this tab (`failed[t]`). `SignedOutForACause`: a
tab goes to /login only for one of these. `NoDeadCookieIsKept` says what the
cookies are worth with no renewal under way, none of these cases left out:
unless the session was ended, the jar's refresh token is live or a tab has gone
to /login; a dead token stays only after a lost answer, and the jar is empty
only after one of the mishaps. The controller clears the cookies of a refused
renewal for that purpose (`auth.controller.ts:132-137`). In `RecoveryIsSound`:
calls wait exactly while a renewal is under way. `EveryCallSettles`: no call
that met a 401 hangs.

*Wizards* (`FormsAreSound`). Publish refuses nothing that the forms let pass, and
writes what they let pass (`PublishFollowsForm`), with three exceptions: it was
pressed before its form was saved, another device was used, or a reload has
saved a blank first form over the first section, and that form was not passed
again since (`blanked`; section 5). `StoreKeepsAnswers`: past a step, the browser's
store holds an accepted answer through every reload, so that passing the first
form again repairs the draft.

*Documents.* `NoFileWithoutConsent`; `ImplementsAccessPromise`: the handlers, which
check once and act three awaits later, refine `AccessPromise`, so that each link goes
to a request let in while the grant stood, and nobody is let in after it fell;
`RoomIsSound`: the logs are honest and a
deleted document leaves nothing.

*Onboarding draft.* `MembersAreSound`: as long as saves do not overlap or fail,
each step left is in the draft as typed; however requests overlap, the draft
holds nothing newer than what was typed, and COMPLETED means published.
`PublishedIsLatest`: the profile carries what was reviewed.

*Sessions.* `ExchangesBounded`: a token or a reset link is used at most as often
as requests ran at once, and is dead then. `EndedStaysEnded`: after a reset or
a deletion a session of before appears only through a request past its check.

*Scores.* `ScoresFollowFacts`: percentages that never fall when a fact is
added, all facts make 100, and the replica in `trust-compare.ts` agrees.

*Trust score v2.* `NeverFlatters`: the stored score is at most four points below
its band's threshold. `DoesNotFlicker`: a recompute takes the current band away
only below that. `AlertsAreTrue`: an alert speaks of a band some snapshot had
while the trigger was set, once per evaluation. `AlertsAreTimely`: a trigger
whose condition keeps holding does not stay set.

*Services.* `ClosedDealsAreHeld`, `HistoryIsKept`: deals moved to CLOSED have
their holding, and holdings and exits stay. `StatusIsEarned`,
`VerifiedIsOnRecord`: after the last recompute the status is what the facts
earn, and VERIFIED has its row. `GuessesBounded`, `ConfirmedByCode`,
`SecondFactorIsHeld`: codes and factors. `DoneStaysDone`: bookings, jobs,
recovery codes and votes, once decided, stay so but for requests past their
check.

*Browser.* `RefreshTakesHold`: a page at rest shows every acknowledged write of a
mutation that invalidates or sets its query. That a mutation names every page it
should is not claimed: section 5 lists those it does not. In `ServicesTypeOK`: nobody is on a page of an area the
middleware keeps for others (`AreasAreClosed`), and whatever people of all roles
do on the pages, no row is left whose parent is gone (`NoOrphans`).
`RedirectsSettle`: at most two redirects, and a dashboard at rest has a session.
`OffersAreHonoured`, `LinksLead`, `NobodyIsStuck`: pages, client, routes and
services say the same; the exceptions they name are in section 5.

### Fairness

Three of the parts assume any; everything else is safety.

- `BreakerFairness`: `setTimeout` callbacks run, the fetch loop goes round, a
  fetch is answered or fails, a job ends. Redis need not come back.
- `BrowserFairness`: promises settle, the server finishes a request it has
  begun, answers arrive unless lost. Nobody need click, and cookies need not
  expire.
- `TrustEngine!Fairness`: the hourly scheduler starts evaluations
  (`watchlist-trigger-scheduler.service.ts:25-45`) and a running job goes on.
  Failures may recur for ever; the property asks something only of behaviours
  in which they stop.

`FairRecoverySpec` takes over the first two. Since the breaker rests while a
behaviour is about something else, its fetch loop is fair only when it is the
breaker's turn; the other fair actions are not enabled at rest.

Deadlock is checked in `ConnectionLifecycle` and `TrustEngine`. It is off in
the other instances, whose bounded supply legitimately runs out: claims, days,
tokens, edits, cards, or the pages of a wizard.

## 4. What is proved

The proofs hold for every value of the constants that satisfies the named
assumptions of the modules: any number of users, tabs, rows, tokens and months,
not the small sets of section 3. The assumptions say that constants are of
their kind (a set of tabs is finite, a bound is a number, a null is none of the
values); `TEAssumption`, `CBAssumption` and `ResumeAssumption` also say that the
bands, backoffs and roles are among the program's.

Of the 40 properties of the passing runs, 34 are theorems. Most are not
inductive; the proofs strengthen them as follows.

`FilingsProofs`
- *Requests.* A request that has counted but not inserted must be charged
  already: `QuotaInv` adds the requests past their check to the rows and says
  that the limit each carries is one the founder passed under; inserting moves a
  unit from the first to the second. `RowInv`: no row is from the future, so a new
  month starts with none. `NoticePair` counts announcements under way, events and
  stored notices together: at most one, and none without a row.
- *Claims.* `ClaimsInv`: what each request has read or written of a claim
  (`ClaimReqOK`), what a claim's status owes to the answers written
  (`ClaimRowOK`), and a count that charges requests that may still answer or
  record (`ClaimCount`).

`ConnectionLifecycleProofs`
- `Sound` adds to the types that every request has earned what it is about to
  write (`Earned`) and that a status was written by somebody. `AnswersInv` counts
  requests that read PENDING with the answers: they are bounded by the tabs.
- `Implements` shows the refinement of `ConnectionPromise`: the initial state is
  one of its own, and each action is one of its steps or leaves its variables alone.

`SessionsProofs`
- `SessionsInv`: no row comes back, so what a request read stays true in one
  direction (`AuthReqOK`); the uses of a token plus the requests that may still
  exchange it are at most the requests there are (`TokenUses`, `LinkUses`).

`RecoveryProofs`
- *Breaker.* The types, strengthened by `SlotFree` (a fetch holds a free slot).
  `BackoffStep` gives the arithmetic: doubling capped does not leave the range.
- *Browser.* `BrowserInv` sits on `SessionsInv`. A renewal at the server is the
  tab's own and carries the cookie it was sent with (`FlightOK`); while the session
  was not ended and no mishap happened, there is at most one renewal, which carries
  the jar's live token or brings the next one (`Quiet`). After mishaps less remains,
  and that is what the two theorems need: as long as no answer
  was lost, a token on its way is live and the jar's token dies only by a renewal
  whose answer is on its way (`Kept`), and after a lost answer or an emptied jar a
  tab has gone to /login (`Told`).
- *Wizards.* `ResumeInv`: past the step of the watched field, the draft holds an
  answer its schema accepts, unless a reload blanked it, and the store what the
  schema makes of it (`StoreOK`). What this needs of the tables of
  `OnboardingForms`, that each publisher accepts what each form lets pass and turns
  it into the same, is proved field by field for all seven wizards.

`DocumentGrantsProofs`
- `RoomInv`: what a request knows of a grant, by the round of the grant it has
  read (`ReqInv`); what a grant, its links and its consent owe each other
  (`GrantInv`); counts of what is under way (`CountInv`); and the log (`AuditInv`).
  `RevocationStops` follows because a request can pass the check only on a grant that is open.
- `KeepsPromise` shows the refinement of `AccessPromise`. What a grant is worth
  (`Standing`) and who is inside (`Inside`) are read off the rows and the requests.
  A grant that is written becomes what its new row says (`StandingWritten`), so
  granting is `Grant`, revoking, deleting and the passing of time are `Fall`, and
  accepting the terms is `AcceptTerms` or nothing, for terms met or a grant that has
  fallen meanwhile; a request enters when it passes the check and leaves with its
  link or when it fails; everything else leaves the promise alone.

`MembersProofs`
- `WizardInv`: what requests carry was typed; publishes done and under way are
  at most the presses (`ClientOK`); and while undisturbed, at most one request is
  under way (`OneAtATime`), nothing is dropped between form, timer, request and
  draft (`NothingDrops`), and the steps before the one shown were left with their
  answers stored (`StepsBefore`). `PublishedLatest` adds `ReviewedIsRead`, for the founder's flow; the
  short flows publish what was autosaved up to then, and have no such property.
- *Scores.* `ScoresFollow`: a sum over a set is a fold; that it exists, takes one
  element more at a time and grows with the set is shown by a smallest
  counterexample, which the well-foundedness of the naturals provides, and the
  three tables are summed element by element. More facts then earn a superset of the
  factors, all facts all of them, and the replica adds up the same ones.

`TrustEngineProofs`
- `TypeCorrect` includes that a score stays within 0..100 whatever the signals.
  `NoFlattery` and `NoFlicker` rest on `BandEarned` about `DeriveBand`.
- `AlertInv` says what a job knows of the trigger between its check, the mark and
  the event; `CountInv` charges a trigger with every evaluation that has it on
  its list; `JobInv` relates the two parts of a job.

`ServicesProofs`
- *Deals.* The types suffice: card and holding change in one transaction, and
  requests carry the id of the card they read.
- *Verification.* `EarnInv`: a recompute that runs while nothing is stale has read
  what is still so; so the last one leaves the status the facts earn, up to the
  completion check that being verified is itself.
- *Codes.* `CountInv` counts requests that are about to raise the counter;
  `LedgerInv` charges rows still to come to the codes used up.
- *Second factor.* `MfaInv`; with no overlap `InTurn` follows one enrolment from
  secret to codes. `CodeSpent`: a code that opened the account is marked or gone.
- *Mentoring, Hiring, Polls.* Counts of requests past their check, as above.
- *Navigation.* `NavInv` says how many hops each kind of page may have behind it,
  so that two are never exceeded: the entry page none, a dashboard or a sign-in
  page one, unless the middleware leaves it as it is.
- *Query cache.* `CacheInv` follows the fetches past the writes: while none is
  under way and none failed or was overtaken, what is shown is at least what was
  acknowledged, for any number of mutations on their way at once. It uses of the
  tables only that the mutation names the query.
- *Web.* `WebTyped`: a behaviour changes only rows of its topic. `AreasClosed`:
  `SentTo` sends nobody where `ProtectedFor` does not have him. `NothingOrphaned`:
  every entry of the 24 services of `ApiHandlers` that makes a row needs the one it
  is about, or one that has it already, and every entry that takes a row away takes
  what hangs on it in the same transaction (`Kept`, shown service by service); an
  offer that is taken applies one such entry, and what its reader sees of a row is
  what the row is (`RowFound`).

Compositions: `FilingsSound`, `RecoverySound`, `FormsSound`, `MembersSound`, `ServicesTyped` and
`DoneStays` carry the parts' theorems over to the composed specifications.

### Only model-checked

- `EveryCallSettles`, `RecoversWithRedis`, `AlertsAreTimely`: liveness under
  fairness, out of the provers' reach.
- `OffersAreHonoured`, `LinksLead`, `NobodyIsStuck`: they compare fixed tables of
  some hundred entries each, without a parameter. TLC visits their whole state
  space; a proof would repeat the enumeration.

## 5. Where the code differs from what it says

Each of the first five has a run whose counterexample shows it.

1. **A band never rises** (`TrustEngineBand`). `deriveBand`
   (`trust-model.ts:185`) keeps the previous band for every score above its
   floor minus four, so a startup whose first snapshot was Starting stays
   Starting, and triggers and mandates on higher bands are never met.
2. **A late success leaves a worker paused** (`CircuitBreakerClosed`). After a
   trip, a job that was running completes; `onHealthy` cancels the probe and logs
   "resuming normal operation", but nothing calls `worker.resume()`.
3. **A finished onboarding reopens** (`OnboardingDraftFinish`). Leaving the
   wizard after `reset()` saves an empty first step, and `saveDraft` puts the
   status back to IN_PROGRESS; the next login returns to the wizard.
4. **Opening the wizard elsewhere overwrites the draft** (`OnboardingResume`).
   On another device the first step is mounted, empty, until the draft arrives;
   when the draft's step replaces it, the unmounting form is saved.
5. **A deleted account stays signed in** (`AccountDeletion`). The answer to the
   deletion has no body, the client fails to parse it and never goes to /login;
   the access token goes on being accepted until it expires.

Smaller ones are modelled as the code has them. Where a property would fail
because of one, it says so in a premise, named in parentheses.

*Requests that overlap or are cut short*

- Any failed insert of a connection answers 409 "already exists"
  (`connections.service.ts:84-86`; `DatabaseError`).
- The quota can be overshot by concurrent requests (`QuotaOvershootBounded`).
- An accept and a decline at once leave a declined connection with messages
  (`NoticesJustified`).
- A probe that fails does not pause the worker again, although the comment at
  `redis-circuit-breaker.ts:41` says it stays paused (`ErrorWhileTripped`).
- A claim confirmed and denied at once keeps its records; a stop between status
  and records leaves a confirmation without any (`Contested`, `cut`).
- An NDA accepted while the grant was renewed counts for the new grant (`consent`).
- A refresh token can be exchanged twice by simultaneous requests, and a refresh
  under way survives a password reset (`ExchangesBounded`, `Carrying`).
- Two tabs renewing with one cookie: the second is refused, and its answer
  clears the cookies of the first (`clash`). Logout with an expired access
  token revokes nothing (`LogoutClicked`).
- Guesses at a code sent in parallel all see the same count (`GuessesBounded`);
  a recovery code opens the account for all who found it unused together
  (`RecoveryCodesRunOut`); overlapping enrolments may leave a secret in force that
  was not the one proven (`raced`).
- A member who votes twice at once votes twice; "One-vote-per-poll-per-user"
  (`schema.prisma:1668`) is left to a check in the service (`VotesStayCast`).
- A recompute may write an outdated status, and the next event is awaited
  (`stale`); milestones announce no change at all (`MilestoneComesOrAges`).
- `addToPipeline` may put a card into CLOSED without a holding (`planted`).
- Overlapping saves overwrite each other's section, and publish may run
  twice (`disturbed`, `CheckUnpublished`).

*Onboarding*

- In the short flows publish can be pressed before the 800 ms timer has saved
  the last edit, which is then lost (`InvestorInfoStep.tsx:54-58`; `behind`,
  `Founder = FALSE`).
- A reload past the first step overwrites the first section of the draft. The
  page is rendered on the server, where the store is empty, so the browser mounts
  the first form blank; the step of the store replaces it at once
  (`founder/page.tsx:46-49,66-72`), and the form that unmounts saves what it holds
  (`useAutosave.ts:62-68`). Publish then judges the blank form, until the user
  passes the first step again (`blanked`).
- A refresh loses typed answers that the step's schema had not accepted, although
  `onboarding-store.ts:18` promises that "a page refresh or closed tab never loses
  progress".
- Blank optional numbers are published as 0; blank `durationWeeks`, `startYear`
  and `endYear` block their step without an error that is shown; an optional
  section of preferences that was never touched blocks its step as well.
- The publishers' lenient reading of the team drops the whole section when one
  member is incomplete.

*What pages offer in vain* (`OfferedInVain`, `LinksLead`)

- A session with a mentor is offered to all roles, an announcement to everybody; a
  connection, an application, a review, an RSVP and publishing stay offered
  after they were done, though the API refuses them a second time; an RSVP
  cannot be withdrawn (`community/page.tsx:205`).
- `/founder/settings` does not exist; the community asks everybody for
  `startups/me`; `/investor/meetings` links to connections that were not accepted.
- Recommendations, watchlist, portfolio and the global search ignore the
  visibility of a startup and link to pages that then answer 404.
- The middleware's comment says "Admins can open all of them", but the API's
  roles refuse an administrator what those pages read.
- The toast after declining a request says "They've been notified."; `respond`
  emits nothing then. The toast after accepting one proposes a meeting, which
  only pending cards offer.
- A request for more information has no channel for an answer before acceptance;
  a trigger outlives the watchlist entry whose page shows it.
- `QuickViewDialog.tsx:58` reads factors of the trust score that the search does
  not answer with. A startup whose slug is "me" is unreachable.

*Pages a mutation does not refresh.* They show the old answer until `staleTime` is
over and they are opened again. `QueryCache` has no pair for them; those met while
reading:

- `useStartups.ts:81-85` (adding a milestone): the community feed, although the
  service also writes a post (`milestones.service.ts:37-46`).
- `useDocuments.ts:43-57` (upload, delete): the health, activity and analytics of
  the founder's startup, which count documents
  (`profile-completion.service.ts:55-66`, `founder-activity.service.ts:77-96`).
- `useStartups.ts:61-65` (visibility): the search and the public page.
- `useInvestors.ts:27-31`: the list and the page of the investor.
- `useHiring.ts:24-45`: the public search of jobs.
- `usePipeline.ts:22-26` (closing a deal makes a holding): the portfolio.
- `useConnections.ts:85-89`: the list of all meetings; `:32-40`: the founder's own
  activity.
- `useOnboarding.ts:21-23` (publish): the state of the onboarding.

## 6. Abstractions, and what is not modelled

- Data: a document, a claim, an answer of a form is a model value or a small
  number; texts and layout are left out. Validation is modelled for the
  onboarding forms, by which kinds of answers a schema accepts and what it makes
  of them; the inputs of other handlers are already valid.
- Reads that nothing can tell apart are one step; each such merge is stated at
  its action.
- `TrustEngine` computes scores in exact tenths. The program adds floating-point
  products such as `20 * 0.3`; the two can differ only where the exact quotient
  is a half.
- The BullMQ worker, TanStack Query, the database and the host in front of the API
  are not in the repository. They do only what the code relies on.
- Counters of history (`uses`, `written`, `logins`, ...) do not influence a step.
- `OnboardingResume` watches one field at a time, because a schema judges field by
  field; `QueryCache` one query and one mutation, which may be
  pressed again before it settles; `WebVisits` the rows of one
  topic, and no two people at once. What they would show together is the
  subject of the modules about requests.
- Watchlist conditions other than the trust band read other tables through the
  same code path. The fan-out of the daily recompute is not modelled.
- `completeMfaChallenge` (`auth.service.ts:111-120`) issues a session for a challenge
  token of five minutes without asking again whether the account was deleted or
  its password reset meanwhile. `Sessions` has no such step, so `EndedStaysEnded`
  says nothing of it.
- `Navigation` leaves out that the entry of onboarding sends a reader to the wizard
  also when the query of the onboarding state failed (`onboarding/page.tsx:32-36`);
  the wizard redirects nowhere, so no loop can come of it.
- `LinksLead` asks of a page's reads whether the guards of the route let the
  reader in, not whether the service then refuses, as `mandates.service.ts:52-53`
  does for a mandate that is not the reader's.
- A deal that is PASSED and one that is CLOSED are one state in the tables of
  `WebPages` and `ApiHandlers`; no property depends on which it is.
- Not modelled: OAuth and the JWT strategies (adapters around outside services),
  the verification providers (calls to MCA, DPIIT, GSTIN), `changePassword` and
  registration, media, rendering, email templates; queries whose answer nothing
  decides on; functions without a caller in the web app (verification checks,
  phone codes, funding rounds, traction, accepting an NDA and relationship
  claims have an API but no page).
- Some hazards are modelled and only bounded, or excepted by name: the acceptance
  of earlier terms of an NDA (`consent`), overlapping saves of a draft
  (`disturbed`), and the status that overlapping recomputes leave outdated
  (`stale`). The start of the daily schedule while Redis is down is a fact of the
  start-up and not modelled.

## 7. Plan

Done: the modules, runs and proofs above.

Left: the remaining conditions of the watchlist evaluator; `changePassword` and
OAuth in `Sessions`; the fan-out of the recompute job. To prove: that the
offers and links of `WebVisits` are honoured, one topic at a time, if their
enumeration can be made short.

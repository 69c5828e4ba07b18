# Memento backend: a verification project

Memento-BE (Go module `cixing`) is the backend of an image-sharing application: users answer a daily
official keyword, or a keyword of their own, with a set of images ("a work"), others react to it.  It is
one HTTP server (Gin) over PostgreSQL (pgx pool, READ COMMITTED), Redis and an object store (Qiniu).
There is no background worker: everything happens inside a request, and what makes the program hard is
what concurrent requests, retries, expiry and failed transactions do to shared rows.

## 1. The system

| component | state | operations | what makes it correct |
|---|---|---|---|
| publishing (`internal/modules/publishing`) | `publish_sessions`, `publish_session_items`, `work_uploads`, `work_upload_images` | create a session, presign a batch, complete a batch, commit | a session is published at most once, completely, in one step; a committed session never changes; no late request has an effect |
| transactions and pool (`platform/postgres`) | connections, row locks | `WithTx`, `NewPool` | a transaction takes effect as a whole or not at all; requests do not wait for each other for ever |
| media (`modules/media`) | `media_assets`, variants | create pending, mark uploaded, processing, ready, failed, delete | an asset is uploaded only if its object was seen |
| object store (`platform/oss`) | objects by key | presign a put, head | external; a presigned target may be used late or again |
| official (`modules/official`) | keywords, `daily_keyword_assignments`, `daily_keyword_stats`, prompts | assign the keyword of a date, recompute the statistics, pick a prompt | one keyword per date; the statistics are those of the uploads |
| custom keywords (`modules/customkeywords`) | `custom_keywords`, covers | create, update, close, delete, set and clear a cover | a cover is an image of the keyword's own works |
| social (`modules/social`) | reactions, counts on uploads, notifications | react, unreact, list and read notifications | the counts are the numbers of reactions; an author is notified once |
| profile (`modules/profile`) | profiles, settings, `avatar_upload_sessions` | create, presign, complete an avatar upload; rename | a completed avatar upload stays completed |
| auth (`modules/auth`, Redis) | codes, cooldowns, attempt counters and locks; users, action sessions | send and verify a code, sign up, reset a password | a code or token is used once; attempts are bounded |
| read model (`modules/readmodel`) | none of its own | queries for the screens | the parts of a screen that are read one after the other agree; feeds are complete and private works stay private |
| transport (`transport/http`) | the buckets of the rate limit | routing, validation, authentication, rate limit | who is refused is not served; a client has the bucket that is its own |
| life of the process (`internal/app/api`) | the pool, the Redis client, the listener | start, serve, shut down | what requests use outlives them; nothing stays open; the process ends |

Interactions.  A commit reads the assignment of the date (official) or the keyword (customkeywords)
through the pool, *outside* its own transaction, writes the work (publishing) and recomputes the
statistics of the date (official) inside it.  Presigning and completing write `media_assets` and ask the
object store.  Social writes counters on the rows of `work_uploads`.  The client uploads straight to the
object store, between two requests and without the server's knowledge.

The behaviours that are hard to test are listed in `PROJECT.json` under `hazards`, each at the line where it
bites; the properties below are aimed at them.

## 2. The modules

| module | what it is |
|---|---|
| `Publication` | the abstract specification of publishing: a session becomes an album at most once, in one step, complete, for ever |
| `PublishSession` | publishing: every handler, step by step |
| `AvatarUpload` | changing the avatar |
| `MediaLifecycle` | the life of an asset and of its variants, for callers without a transaction |
| `Accounts` | the abstract specification of signing up and resetting: a token serves once, and changes the account in that step |
| `ActionToken` | the tokens and accounts in PostgreSQL: `VerifyCode` after the code, `Complete` |
| `AuthCode` | the codes in Redis and by mail: `SendCode`, `VerifyCode` |
| `Reactions` | reactions, their counts, notifications |
| `Profile` | nickname and settings |
| `MeHome` | the page of a user and the list of notifications |
| `CustomKeyword` | custom keywords, their covers and galleries |
| `KeywordCards` | the list of works of a gallery, its orders and pages; beside `CustomKeyword`, over its rows |
| `Rows` | what a query returns: its rows in the order of `ORDER BY`, up to `LIMIT` (external: PostgreSQL) |
| `DailyKeyword` | the official keyword of a date, and sessions that ask for it twice |
| `ReadModel` | feeds, details and reviews |
| `OpenApi`, `HttpApi` | the operations of the document, and the chain of middlewares, wrapper and handler |
| `RateLimit` | the token buckets per client |
| `Server` | the start, the service and the end of the process |
| `PublishSessionProofs`, `ImagesProofs`, `AccountsProofs`, `SocialProofs`, `KeywordsProofs`, `ServingProofs` | theorems and their proofs: each extends the component's module or the MC module of a run, and states the properties that run checks |
| `ReadModelProofs` | the same of `ReadModel` for every value of its constants; `KeywordsProofs` uses it for the two sizes of the run |
| `QueryProofs` | lemmas about sums over rows, rows in an order, and rows gathered into cards, for `ReadModelProofs` and `KeywordsProofs` |
| `MC...` | the instances TLC checks; constants are in the `.cfg` files |

`MCPublishSession` is one component.  The other MC modules put several components side by side
(`MCImages`: `AvatarUpload`, `MediaLifecycle`; `MCAccounts`: `ActionToken`, `AuthCode`; `MCSocial`: `Reactions`, `MeHome` in two
sizes, `Profile`; `MCKeywords`: `CustomKeyword` in three sizes, two of them with `KeywordCards`, `DailyKeyword` in two,
`ReadModel` in two;
`MCServing`: `Server`, `HttpApi`, `RateLimit`; `MCRequestsEnd`: the five whose requests must end).  Their components
share no variable, so a variable `part` chooses at the start which of them moves, and the others stay in an
initial state.  TLC then explores the sum of their state spaces and not the product, and loses nothing:
a property of one component depends on that component's variables alone.  Where components of the program
do share state (a commit meets a keyword that closes, a reaction meets a setting), the module of each
has the steps of the other that matter to it.

### `PublishSession`

State.  `status`, `context`, `expiresAt`, `link` are columns of `publish_sessions` (`link` is
`published_upload_id`), `item` is `publish_session_items` by client image id, `asset` the status of the
image and audio assets of an item, `object` what the object store has under their keys, `upload` the
works with their images, `stats` the upload count of a date, `keywordStatus` the custom keywords, `lock` the
row locks of the sessions, and `req` the requests in progress: where they are, the time they read, the
aggregate they read, and the count they computed.

Actions.  A request runs `Arrive` (it reads the clock; commit reads it later) – `Begin` (it gets a
connection and begins its transaction) – `LockSession` (`SELECT ... FOR UPDATE`, reads the aggregate) – and
then `PresignBatch`, or `CompleteBatch`, or `LookUpKeyword`, `PersistUpload` and `Publish`.  Every one of
them may instead end in `Rollback`: an error the handler returns, a cancelled request, a lost connection or
a crash of the server.  The writes of a transaction are invisible until it commits, so they appear in its
last step; `PersistUpload` is a step of its own because the aggregate over the works of the date reads a
snapshot that a later commit does not change.  A request whose guard does not hold can only roll back;
this is how every error return is modelled.  `PutObject` is the client (external), `UpdateKeyword`,
`DeleteKeyword` the owner of a keyword, `Tick` the clock.

What the model says about details that matter:

* Presign and complete write `status = expired` and then return an error, which rolls that write back: the
  status `expired` is never stored, nor is `canceled`.  Sessions end by their deadline alone.
* Items are upserted one by one under a unique index that is not deferred: an item cannot take an order
  that another item gives up only later in the same batch (`OrderTaken`).
* `ClearSessionItemCover` runs only if the batch names a cover, so completing the cover again without the
  flag leaves a session without a cover.
* A commit needs two connections at a time (`LookUpKeyword`).

Abstractions.  Content types, sizes, ETags, titles, notes and texts are data without influence: an object
is `absent`, `good` (the expected size and ETag) or `bad`.  All requests are the owner's, as every query
filters by owner.  An upload's id and images' ids are the model values `UploadIds` and `Clients`.
Keywords of dates are not distinguished (see `DailyKeyword`).  Opening a session is one step:
the check of the keyword and the INSERT commute with all that could happen in between.

### `AvatarUpload`

State.  `status` and `expiresAt` are columns of `avatar_upload_sessions`, `image` the status of a session's
asset, `object` what the store has under its key, `avatar` the profile's `current_avatar_asset_id`, `lock`
the row locks, `req` the requests in progress.  All sessions are one user's: other users' requests find
no row.  A session has one image, so its id stands for the image's too.

Actions.  `Create` is one INSERT.  A request runs `Arrive` (it reads the clock), `LoadSession` (`SELECT ... FOR
UPDATE`) and then one of `PresignNew`, `PresignAgain`, `Complete`, `CompleteAgain`, or `Abort` for every other
error and for a crash.  An expired session takes two steps: `Expire` is the transaction, whose write of
`expired` is undone by the error it returns; `ExpireAvatarSession` is the statement the handler then runs on
its own.  Between them others get the row, and a crash leaves the second out (`Abort`).

### The other components

`MediaLifecycle`.  State: the rows of `media_assets` and `media_variants`, and the copy a call read.  A call of
`LifecycleService` is a read `FOR UPDATE` and a write `WHERE status = ...`; without a transaction the lock is gone in
between (`ReadAsset`, then `TransitionAssetStatus`).  Only `CreatePendingAsset` and `MarkAssetUploaded` have callers
today; the others are modelled as the service offers them.

`ActionToken`.  State: `email_action_sessions` (status, purpose, email, expired), the password of
`user_email_identities`, and the locks.  `VerifyCode` is two statements: an UPDATE that scans and locks the older rows
one by one (`Scan`, `LockRow`, `Invalidate`) and the INSERT.  Rows are locked in any order, so two calls may each hold
what the other needs; `DetectDeadlock` is PostgreSQL aborting one of a circle (`WaitsFor`, `InCircle`).  `Complete` is one transaction: `SelectForUpdate`,
`WriteIdentity`, which waits for a concurrent insert of the same address, `Finish`, or `Refuse`.  `Accounts` is the
abstract specification, implemented by the committed rows.

`AuthCode`.  State: four Redis keys with value and time to live.  Each Redis call is a step; any of them may fail if
`RedisFails`, and a request may stop between two.  A mail is accepted, refused, or accepted with an error
afterwards.  A value is generated at most once: that two codes are equal by chance is left out.  Purposes and
addresses do not share keys, so there is one pair.

`Reactions`.  State: rows, counts, the setting, notifications, and row locks.  `React` and `Unreact` run statement by
statement under READ COMMITTED: `InsertReaction` waits for a concurrent insert of the same row,
`RecomputeReactionCounts` takes its snapshot and `UpdateCounts` may then wait for the row of the work.

`Profile`, `MeHome`.  Calls that update and read back; `GetMeHome` reads the summary and then the keywords.  A
notification appears when its transaction commits but carries the date at which it began.  `HomeAddsUp` relates the
two reads of the home screen, between which publications commit: the total shown is that of the keywords shown, and
no keyword that is still there shows less than it had at the first read, or more than it has.  The inputs of
`Profile` are nicknames that the validator lets through, as characters of a given width.  Pages are operators
over the rows; dates are unique.

`CustomKeyword`.  Handlers without transactions: `Create`, `Update`, `Delete`, `SetCover`, `ClearCover`, `ListImages`, each
statement a step, and the commit of a publication under the keyword.  One owner; text and target counts are
not modelled; `published_at` is unique.  `ListUploads` is an operator over one
statement's rows, in `KeywordCards`: a page of works (`ListUploadImages`), and the fold of `uploadCardsOutput` over it.

`DailyKeyword`.  `ReadAssignment`, `ListActive`, `Upsert` as the separate statements they are, for `GetOfficialHome`, the
opening and the commit of a session; administrators change `is_active` meanwhile.

`ReadModel`.  A random feed is one query: the works from the seed upwards, then those from the start.  Screens of
several statements (`GetOfficialUpload`, `GetReviewUpload`, `ListReviewDates`) take a step each.  The lists of the
review also join the live `media_assets` row of the cover (`uploads.sql:188-220`), which the numbers over them do not; the
model leaves the join out, since nothing in the program deletes an asset (`SoftDeleteAsset` has no caller).

`HttpApi`.  A request passes `CORS`, `RateLimit`, `AuthOptional`, `Validate` and `Bind` before its handler; `OpenApi` says
which operation needs a token and which parameters it has.  A service is reduced to succeeding, refusing
and failing.  A client may send a request again after a lost answer.

`RateLimit`.  The map of limiters under its mutex, the clock read before it, cleanup of idle entries, and the token
taken outside it.  `fair` is the bucket a client would have if no entry were ever dropped.

`Server`.  `RunWithConfig` opens eight things in order, and its deferred calls close what was opened.  A signal
before `NotifyContext` or after its `stop` kills the process.  Requests come on connections that are accepted while
the listener runs and may outlive it (`Accept`, `Serve`, `Disconnect`).  A transaction of a handler may never end (`Hang`):
`CompleteBatch` asks the object store without a timeout inside one, and a commit waits for a second connection.

## 3. What is checked

| run | instance | shows |
|---|---|---|
| `publish_one_session` | 2 requests, 1 session, 2 images, orders up to 3, clock 0..2, deadline 1 | a session is published once, completely, in one step, and is final; `ImplementsPublication` |
| `publish_audio` | 1 image with or without audio, a date and a custom keyword | `FilesAgreeWithItem` |
| `publish_two_sessions` | 2 sessions, 2 dates | `StatsNeverOvercount`: no schedule of commits counts a work that is not there |
| `publish_stats` | 2 sessions, 1 date | `StatsExactAtRest` is **violated** (see 5) |
| `requests_end` | 2 requests, 3 connections; 4 tokens, 2 of them live at first, 1 address; 1 code with every failure of Redis | liveness: `RequestsEnd`, `LocksEnd`, `CodesExpire`, `StopEnds` |
| `images` | 2 requests, 2 avatar sessions, clock 0..2; 3 calls on one asset with one variant | the avatar was uploaded and is set once; the lifecycle is followed |
| `avatar_expiry` | the same | `CompletedStays` is **violated** (see 5) |
| `accounts` | 2 requests, 4 tokens, 2 passwords; 2 codes, 2 attempts | `TokensRetired`, `CodesLimited`; `ImplementsAccounts` |
| `social` | 3 requests, 2 users, 1 work; 7 notifications; nicknames at the edges | `NotifiedWithReaction`, `CountsHeal`, `PageAgrees`, `OffIsSoonQuiet` |
| `reaction_counts` | 2 requests, both types | `CountsExactAtRest` is **violated** (see 5) |
| `keywords` | 2 requests, 2 keywords, 2 or 3 publications; days -2..1 about the anchor; feeds of 3 works | `KeywordKept`, `GalleryAgrees`, `DateKeepsKeyword`, `FeedsSteady`, `ReviewAgrees` |
| `serving` | 3 requests; every operation, sent twice; 2 clients, a bucket of 2 | `ClosedInOrder`, `TransactionsEnd`, `RefusalsAgree`, `OwnBucket` |

Every passing run also checks the type invariant of what it explores (`TypeOK`, `TypesOK`), but for those that
run a module a second time.

Bounds.  Two requests are enough for a race about one row, since a third only waits in the same queue
(the lock is all a request sees of the others); three where a count must miss the change of one while a
second overtakes it (`social`).  Two images are the least that can conflict in order or cover, and orders up to 3
leave a gap and a free slot for a swap.  Clocks pass each deadline by one tick, so a request may read them
before it and write after it.  Two avatar sessions let one replace the avatar of the other before that one
is completed again.  Two upload ids let a second, wrong upload appear.  Four tokens let
two calls retire the same two live ones, in opposite orders, and issue one each; how two come to be live is
in `accounts`, and `requests_end` begins with two (`IssuedInit`).  The rate limit's clock runs for five times `EntryTTL`, so
entries are dropped and made anew; `Limiters` bounds the limiters alive at a time.  Days on both sides of the
anchor date make the remainder of a negative number occur.  `MaxOrder`, `MaxTime`, `MaxExpired`, `MaxNotes`, `MaxOff`, `MaxUploads`,
`MaxImages`, `MaxTries`, `MaxWrong`, `MaxStall` and the finite id sets are bounds of the model; the program's own
limits are larger or absent.

Symmetry is used for ids that are interchangeable, and never with liveness.  Deadlock is checked except in
`requests_end`, `serving` (the process ends, every intent has been answered) and `keywords` (when all that the
feeds show has been published and hidden, nothing is left to do).

Fairness (`requests_end` only).  PostgreSQL queues the waiters of a row, and pgxpool those of a connection, so who is
let through again and again gets through: strong fairness of the steps that wait (`Gets`).  A handler that
holds what it needs runs on (`RunsOn`: weak fairness), and so do the main goroutine and Redis' clock (`GoesOn`).
PostgreSQL looks for deadlocks again and again, so `DetectDeadlock` is a step that runs on.
Nothing is assumed of clients, nor that a handler outside a transaction ever returns, nor that a transaction
ends that hangs (of the others `EndTx` is fair).  So `StopEnds` holds by the timeout of `Shutdown`, and says
that the process ends *or* a handler hangs in a transaction: `pool.Close` waits for its connection (`app.go:91`).

`RequestsEnd` holds with one connection more than there are requests, and the mutant
`FreeConnectionPair` – the same model with one connection less – breaks it.  This is the pool hazard of
the code: with ten connections (`NewPool`), ten requests on one session may hold all of them, nine waiting
for the row of a tenth that waits for its second connection.  Only cancelled requests resolve that.

Every property of a passing run has a mutant in `PROJECT.json`: an operator placed before the original in
its module, of a bug somebody could write, under which TLC finds the property violated.

## 4. What is proved

All proofs are for every value of the constants, except where a size is fixed by the module of a run; there
`EveryPageAgrees`, `EveryDayHasItsKeyword`, `EveryKeywordIsKept`, `EveryGalleryIsCut`, `ReadingHolds` and `SeedsStay` state
the same of the component in any size.
Every theorem about a run's property rests on an inductive invariant of its module, described below.

`PublishSessionProofs`, for all sets of requests, sessions, images, uploads and dates and all bounds:

* `TypeCorrect`, `PublishedOnce`, `UploadsMatch`, `ReadsCurrent`, `CommittedLinked`, `ItemsAreConsistent`:
  `Spec` implies the invariants of the same content;
* `CommittedFinal`, `LateChangesNothing`: no step changes a committed session, and no request that read the clock
  at or after the deadline changes a session or its items, however long it waited for the row;
* `StatsBounded`: the statistics never count a work that is not there; `FilesAgree`: items and their asset rows
  agree on what was uploaded, and that was seen in the object store;
* `Refinement`: `Spec` implies `Publication`'s specification under `album[s] <- Album(s)`.

The argument.  None of the invariants is inductive alone.  `OneUploadPerSession` needs that a session with
an upload is committed and names it (`UploadMatchesSession`, `CommittedHasUpload`); a commit
preserves that because the status it read is `created` (`CommitsChecked`) *and still is*
(`AggregateIsCurrent`); and that holds because the one who reads is the only one who writes
(`RowsHeldByOne`).  `TypeOK` itself needs `CommitsChecked`: the cover of an upload is a `CHOOSE` that only
an accepted set of items makes well defined.  Together with `ItemsConsistent` and
`RequestsNameSessions` they are `IInv`; `InitIInv` and `NextIInv` prove it inductive.  The refinement
also needs that only completed items have an order.  `LateChangesNothing` adds `Timely`: whoever passed the
check of the deadline read the clock before it, and deadlines never change.  `StatsBounded` adds `CountsKnown`:
the count that a commit computed, its own work included, is at most what is there now with its own work, since works
only become more; so overwriting the count of another is never an overcount.

`ImagesProofs`, of `AvatarUpload`, for all sets of requests and sessions and all bounds: `TypeCorrect`, `AvatarUploaded`,
`ExpiredLate`, `SetOnce` and `LateSetNothing`.  Here `IInv`
adds that the holder of a row knows its status (`RowsHeld`), and that a request about to write `expired`
read the clock after the deadline (`ExpiringIsLate`): without a lock in that step, only the fact that
deadlines never change keeps `ExpiredIsLate`.

`ImagesProofs`, of `MediaLifecycle`, for any assets, variants, sizes and calls: `CallsFollow`, that is `LifecycleFollowed`.  The copy that a
call read may be as old as you like.  `WorkersCounted` ties the number of calls that were told to start the
processing to the status; `CopiesKnowTheSize` says that whoever will move an asset beyond `uploaded` read a size
that no longer changes, which is what makes it harmless that the update writes the size back.

`AccountsProofs`, of `ActionToken`, for any requests, tokens, addresses and passwords: `OnlyNewTokensLive` (`TokensRetired`) and
`TokensImplementAccounts`, the refinement of `Accounts`.  `TokenInv` adds to the types what each call relies on: what it
was given (`Knows`), that the rows it has locked are still as it read them (`HoldsToken`, `HoldsMail`), and that what it scanned
is retired before it issues a token (`RowsRetired`).  That the live tokens of an address are no more than the calls at a time is no consequence of
that: two calls that do not see each other's rows both leave a live one.  `IssuedApart` says that an injection takes the
live tokens to the slots that issued them, and that a slot that issues again has its older one among the rows it is
about to retire; each step gives the injection for the next state.

`AccountsProofs`, of `AuthCode`, for any requests, limits and times to live: `CodesStayLimited` (`CodesLimited`) while Redis answers
(`~RedisFails`: a counter whose expiry could not be set never expires, as `CounterExpires` says), and `AccountsTyped`, also when it
does not.  With failures the rest is not so: TLC refutes `GuessesBounded`, `CounterExpires` and `AcceptedIsGone` of `AuthCode`
as soon as `RedisFails` is TRUE.  `GuessInv` is the reason: while a code can be guessed, its counter and its lock outlive it (`Outlives`); every
wrong guess has been counted or is about to be (`Counted`); and before the lock is there, each guess beyond the limit
is one of a call still in progress (`Late`).  `UnstoredApart` keeps codes under way different from stored and accepted ones.

`SocialProofs`, for any requests, users, works and types of reactions: `NotifiedOnlyOnce` (`NotifiedWithReaction`),
`CountsAreHealed` (`CountsHeal`), `PagesAgree` (`PageAgrees`), `SoonQuiet` (`OffIsSoonQuiet`), `SocialTyped`; and
`EveryPageAgrees`.  `CallsInv` says that a call which will write holds the row of its key and decided on a state of
the key that is still the case, and that counts which nothing overtook are those of the reactions the call is about
to leave behind.  For the page, notifications may become visible below older ones; how many is bounded because each of
them belongs to another transaction that was under way (`BehindBounded`: again an injection), and the badge
follows by counting what the list has no room for.  What the home screen read first is never more than what is there
(`BeforeStays`), since images only become more.

`KeywordsProofs`: `DatesKeepTheirKeyword` (`DateKeepsKeyword`), `KeywordsAreKept` (`KeywordKept`), `GalleriesAgree`
(`GalleryAgrees`), `FeedsAreSteady` (`FeedsSteady`), `ReviewsAgree` (`ReviewAgrees`), `KeywordsTyped`, and for every size
`EveryDayHasItsKeyword`, `EveryKeywordIsKept` and `EveryGalleryIsCut`.  Days: while keywords do not change, every request of a date is about
to write what the rotation takes, and that is a function of the date (`TurnsKept`); `TurnIsRemainder` shows that the index is
the remainder also before the anchor date, and `Turn` that the n-th of a finite set of keywords exists and is one.
Custom keywords: what a request has read so far is sound for as long as it may be used (`ReqSound`: an image chosen as
cover was published under this keyword, the keyword of a commit was active after the commit began, nothing of the
list is newer than the cover that will be sought), each publication has its own place (`PlacesOwn`).
Galleries: the fold that makes the cards keeps `Made` from row to row: each upload that has come has one card, newer ones
before older ones, and its images are exactly the upload's rows so far, in order.  A row that is added comes after
all others, so it goes to the one card of its upload or opens one at the end.  All cards joined are then sorted and have
the rows of the page, and only one sequence does (`OnlyOrder`).

`ReadModelProofs`, for any users, days, keywords, keys and bounds: `ReadingHolds` (types, `FeedsAreComplete`, `ReviewAddsUp`,
`ReviewViewsAgree`, `CustomStaysPrivate`) and `SeedsStay` (`SameSeedSameOrder`).  A feed lists its rows in an order that depends on
the rows' keys and the seed alone (`IsFeed`), so what is published or hidden moves no two rows past each other.  A review
is read in three parts with publications in between: `ReadInv` keeps of each part that it is at most what the
next part will read (`Sound`), because no upload leaves the review of its author, and the sums over dates and over
keywords are sums over parts of the same works (`SumOfParts`).

`QueryProofs`: what those proofs need of data.  A sum over a finite set is what one element has and the sum over
the rest (`SumRest`), over disjoint parts the sum of the sums (`SumOfParts`).  The rows of a finite set in a strict total
order, as `OrderBy` defines them by counting who comes before, are a sequence that has each row once, sorted (`Ordered`),
and any such sequence is that one (`OnlyOrder`).  The library's induction theorems cannot be used here, as they take an
operator as a parameter; the inductions are made on a *set* of numbers instead, whose complement would have a
least element (`AllNumbers`, by the well-foundedness of `<`).  That the function which a fold or a sum chooses exists is
proved likewise (`SumExists`, `FoldExists`, `JoinExists`).

`ServingProofs`, for any requests, clients, limits, users and operations: `ResourcesOutlive`, `InOrder`
(`ClosedInOrder`: nothing is closed before its users are
done or given up on, and nothing stays open), `TransactionsNotCut`, `BucketsAreOwn` (`OwnBucket`), `RefusalsAreAgreed`
(`RefusalsAgree`), `ServingTyped`.  For the process, `IInv` says what is open as a function of how
far the start and the end have come (`OpenedSoFar`, `OpenWhileServing`), that clients connect only to a running
listener (`ServedByListener`), and who may be left when the deferred calls run (`LeftBehind`).  The case that
makes it necessary is a start that fails between the pool and Redis.  For the rate limit, `BucketInv` says that the
bucket of a client with an entry is the fair one, that a client without one has a full fair bucket, that the
limiter a request holds is still its client's, and how old `lastSeen` may be when the last token was taken.
The proof corrected an assumption: an idle time of `EntryTTL` does not mean that the bucket was idle for `EntryTTL - MaxStall`,
since requests come to the mutex in another order than they read the clock, and the last token may have been taken
`2 * MaxStall` after `lastSeen`.  `TTLAssumption` now says so; with `MaxStall = 2`, `EntryTTL = 5`, a bucket of 3 and
three requests TLC finds a client with more tokens than are its own under the weaker one.  (The code's ten minutes
leave both far away.)  For the chain, `ApiInv` says at each stage what is known of who asks, and which answer each
refusal gives.

Assumptions, all evaluated by TLC in the runs: bounds are natural numbers, lengths and limits positive
(`NumbersAssumption`, `BoundAssumption`, `RemovalAssumption`, `LifeAssumption`, `ImagesAssumption`, `NotesAssumption`,
`PersonAssumption`, `CodesAssumption`, `LimitsAssumption`); slots, clients and upload ids are finite where they are counted
(`RequestsAssumption`, `SlotsAssumption`, `IdsAssumption`, and the limiters more than clients and requests in `BucketAssumption`); NULL is no id
(`NoneAssumption`, `IdsAssumption`, `KeywordAssumption`, `ApiAssumption`); days are integers and keywords numbers (`FixedAssumption`, `ChangingAssumption`);
of the feeds and reviews, days and keywords are numbers, and there is a user (`FeedsAssumption`, `ReviewAssumption`).
Those that speak of the program are: the lock of an address lives at least as long as a code (`LimitsAssumption`;
`app.go` sets ten minutes for both), and `TTLAssumption` of the rate limit.

Only model-checked:

* liveness (`requests_end`: `RequestsEnd`, `LocksEnd`, `CodesExpire`, `StopEnds`), which needs `ENABLED`;
* the violated statements of section 5, which are counterexamples.

## 5. Findings

*Lost count* (`publish_stats`).  Two commits on one date each count the works of the date in the snapshot of
their own statement, which does not contain the other's.  The second waits for the row of
`daily_keyword_stats` and then overwrites it with its own count.  The screen shows one participant too
few until the next commit on that date.

*Completed avatar session expires* (`avatar_expiry`).  `ensureAvatarSessionMutable` spares completed sessions
when it writes `expired`, but that write is rolled back, and `expireAvatarSession`, which repeats it, does not.
A presign after the deadline turns a completed session into an expired one, and so does a late complete
that loses a race with one that began in time.  The avatar itself is safe (`AvatarSetOnce`), but completing
again, which must succeed for a completed session, fails.

*Lost reaction* (`reaction_counts`).  `RecomputeReactionCounts` has the same fault as the statistics: it counts in a
snapshot and then waits for the row.  The counts heal with the next change that nothing overtakes
(`CountsHeal`).

Five more statements that the modules contradict are written down beside them, without a run of their own.
They are not invariants of the code:

* `MailedCodeStands` (`AuthCode`): `SendCode` deletes the code when sending ends in an error, also when only the QUIT
  after an accepted mail failed (`code_service.go:51`, `smtp_sender.go:161`): the mail arrives with a code that does
  not work.
* `SetCoverAnswers` (`CustomKeyword`): `SetCover` answers with what it reads again, which another call may have changed
  (`customkeywords/application/service.go:264`).
* `CreatedOncePerKey` (`HttpApi`): the document offers an `Idempotency-Key` (`openapi.v1.yaml:50`) that no handler reads;
  sending a request again creates again.
* `NicknamesOfForty` (`Profile`): the service counts bytes (`profile/application/service.go:66`), the message, the document
  and the column characters: fourteen Chinese characters are refused.
* `StopAlwaysEnds` (`Server`): the timeout of the end is there so that it does not get stuck (`app.go:232`), but `pool.Close`
  has none and waits for a connection that a hanging transaction never gives back.

Two remarks on what holds.  `LifecycleFollowed` is about the contract of `LifecycleService`, whose calls may come in any
order and number; its callers today create assets and mark them uploaded, within a transaction.  `CodesLimited` assumes that
Redis answers.  It says nothing of two requests that both accept a code, or of one that deletes a newer code: the
comparison and the deletion are two calls, and both can happen (`code_service.go:98`).

## 6. Not modelled, and what is left

Not modelled: migrations (a run of golang-migrate; the constraints of the schema are in the modules of their
tables), configuration and logging (no state others act on), generated types and the formatting of answers,
prompts that are picked at random, hashing and signing of passwords and access tokens, the client library of
the object store (an object is there or not, with the expected size or not), the headers of mails.  Integers
are unbounded; the display order and the target of a keyword, which the code narrows to 32 bits, are not
followed beyond that.

Partly modelled: transactions and pool (the behaviour PostgreSQL shows to these handlers: row locks, snapshots per
statement, waiting inserts, not the database), official keywords (no prompts), auth (hashing and signing
are external, and a login changes nothing but its code), the HTTP transport (services reduced to outcomes).

Every invariant and action property of a passing run is also proved. Left: a composition of a client that retries
(`HttpApi`) with `PublishSession`, for what a client may conclude from an error after a lost response; the check of
display orders as the loop it is, with 32-bit orders, against the set `CommitItems`.

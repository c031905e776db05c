# AuthUserAdminService in TLA+

A verification development kept beside the Go service in `src/`: a gRPC server
for accounts, logins, bans, email verification, second factors, profiles and
followers, over PostgreSQL (through gorm) with a Redis cache before the reads.

## 1. The system

One process (`cmd/main.go`) opens PostgreSQL (`db/db.go`) and Redis
(`cache/redis_cache.go`) and serves gRPC. Every call runs in a goroutine of its
own: a method of `service/user_service.go` calls methods of
`repository/user_repository.go`, and most methods afterwards delete cache keys.
There is no lock and, apart from the reset of a forgotten password, no
transaction: `InitDB` sets `SkipDefaultTransaction`, so **every statement commits
by itself**. Nothing but the tables survives a restart.

| component | state | operations | what makes it correct |
|---|---|---|---|
| Bans | `users.is_banned`, `users.ban_id`, `ban_histories` | `BanUser`, `UnbanUser`, `CheckBanStatus` (called by both user logins) | a ban stands until an administrator or its end takes it down; nobody is told he is banned without a ban of his |
| Passwords and reset tokens | `users.salt`, `users.hashed_password`, `forgot_passwords` | `RegisterUser`, `LoginWithGoogle` (first), `CreateUserAdmin`, `UpdateUserAdmin`, `ForgotPassword`, `FinishForgotPassword`, `ChangePassword` | every account can be opened by some password; a token is spent once, by its owner, on its owner |
| Email verification | `users.is_verified`, `verifications` | `ResendEmailVerification`, `VerifyUser`, `VerifyAdminUser`, `UnverifyUser`, `LogoutUser` | who is verified has shown an OTP of his own; one OTP at a time, spent once |
| Two-factor | `users.two_factor_enabled`, `users.two_factor_secret` | `SetUpTwoFactorAuth`, `VerifyTwoFactorAuth`, `DisableTwoFactorAuth` | a factor that is asked for is in its user's app; setting it up disturbs nothing else |
| Profiles, usernames, cache | `users`, keys `user_profile:id:*`, `user_profile:username:*` | `GetUserProfile`, `UpdateProfile`, `UpdateProfileImage`, every writer of a row | what is cached is what is stored, soon; usernames are unique |
| Sessions | JWTs held by clients | `LoginUser`, `LoginWithGoogle`, `LoginAdmin`, `TokenRefresh` | a token means that every gate was open |
| Follow graph | `followings`, `followers`, keys `following:*`, `followers:*` | `FollowUser`, `UnfollowUser`, `GetFollowing`, `GetFollowers`, `GetFollowFollowingCheck` | a cached list is what the tables answer, soon |
| Account administration | `users.role`, `users.deleted_at` | `CreateUserAdmin`, `UpdateUserAdmin`, `SoftDeleteUserAdmin` | only administrators are acted on |
| Listing and search | keys `search_users:*` | `GetAllUsers`, `SearchUsers`, `BanHistory`, `GetBulkUserMetadata` | who walks through the pages sees everybody, once |
| Redis client | the map `existingCache` | `Get`, `Set`, `Delete` | survives concurrent calls |
| Mail, bootstrap, configuration, logging, error codes | none that matters | | |

**How they interact.** Components meet in the one table `users`: calls of
different components write the same row, statement by statement, with what they
read some statements before. `CheckBanStatus` writes as well as reads, so a login
can take down a ban. `SetUpTwoFactorAuth` writes back the whole row and so
touches every other component's columns. The writers meet the readers once more
in the cache, where each deletes the keys it thinks of.

**What is hard here.** Two requests between each other's statements; a value read
from a row and used after the row changed; a statement that fails, or a process
that dies, between two statements; a fill of the cache that arrives after the
delete; times at their boundary and a product that overflows. None of it is
reached by a test (the repository has none). `PROJECT.json` lists each such place
with its line, and the properties that cover it.

## 2. The modules

An action is **one statement (or one Redis command) with the Go code up to the
next one**. `pc[r]` says which statement request `r` is at and `call[r]` holds the
local variables it goes on with; this is where a stale read lives. A handler that
is one statement, or whose earlier reads cannot matter, is one action.

- `BanPromise` - abstract: what an administrator is promised of a ban, without
  tables or statements.
- `BanLifecycle` - the ban calls. `BanRow`/`BanRecord` are the two statements of
  `BanUser`; `CheckRow`, `CheckRecord`, `CheckClear` those of `CheckBanStatus`;
  `Unban` is one statement. `StatementFails` and `Crash` end calls half way. `Span`
  is `time.Duration(h) * time.Hour` with its width. `StandingBan` and
  `BeingRecorded` map the tables to `BanPromise`. The empty string a new row has
  for `ban_id` and the NULL a check writes are both `None`: no code tells them apart.
- `BanLifecycleHistory` - `BanLifecycle` with `asked`: the hours that were asked for
  with each ban, which no table keeps.
- `Sessions` - logins and tokens, on the variables of `BanLifecycle` and more. It
  composes that module (`Ban == INSTANCE BanLifecycle`): the ban gate of a login *is*
  `Ban!CheckRow`, `CheckRecord`, `CheckClear`, and an administrator's deletion is
  `Ban!SoftDelete`. `LoginRow`, `LoginBan`, `LoginPassword`, `LoginFactor`, `LoginCode` are
  `LoginUser`'s gates in order, `Google*` those of `LoginWithGoogle`; `task[r].verified`
  is the flag of the first read, `task[r].email` the address that was typed.
  `AdminAsk` reads the role of the target, `AdminUpdate` and `AdminDelete` write. Right
  and wrong passwords and codes are both possible: their rules are in the next
  module and in `TwoFactor`. Role and kind of login of a new administrator's account
  are the request's, and the second factor's status is refused for every kind but
  "email" (`FactorKnown`). The `Save` of a row read before, which may revive a deleted
  account, is left out here.
- `Credentials` - a bcrypt hash is the pair of password and salt that went into
  it; `Matches` compares it with the salt column, as `CheckUserPassword` does.
  `Forgot*`, `Finish*` and `Change*` are the statements of those three calls; the
  transaction of `FinishForgotPassword` is one action, which looks at no result.
  `AdminRow` is the `IsAdmin` before `UpdateStore` and `DeleteStore`; the update writes
  address, role and bare hash in one statement, whichever of them were asked for
  (`AsAsked`).
- `EmailVerification` - `Resend*` makes OTPs, `Verify*` spends them, `Logout*` takes
  the verification back from users with two factors. An OTP is looked up by address
  and the flag written by address, as the statements do (`Rejected`, `VerifySet`);
  `UpdateStore` moves addresses and roles, `DeleteStore` deletes, `SetUpSave` puts a whole
  row back as it was read.
- `TwoFactor` - `SetUpSave` is gorm's `Save`: all columns, and an insert when no live
  row is there. `apps` is what users hold in their authenticator; a code is its
  secret. The code checks a code against whatever the row holds: where nothing was
  set up that is the empty secret, whose codes anybody can make (`VerifyRow`).
- `Profiles` - cache-aside: `Miss`, `Load`, `Fill` of a reader, one action per write and
  `Clean` for each key deleted after it. The writers differ in the keys they think of:
  `ProfileRow`/`ProfileAvailable`/`ProfileUpdate` of the id and both usernames,
  `Register`, `AdminWrite`, `AdminMove` and `SetUpSave` of the id, `OwnWrite`/`OwnRow` of what is
  found under the address afterwards, and `SilentWrite` (`LogoutUser`, `CheckBanStatus`) of
  none. `Register` takes a username unasked (the empty one for `CreateUserAdmin`).
  `Failures` lets Redis refuse a command and calls die.
- `FollowGraph` - the same for the lists of whom one follows and who follows one:
  `Miss`, `Rows` (the follow table), `People` (those not deleted), `Fill`; `Follow` and
  `Unfollow` with the keys of both ends. `Listed` of a `followers` key is empty, as no
  statement writes that table.
- `Listing` - `SearchPage`, `PageOnwards` and `PageBackwards` are the pages of the table as
  it is now, with their tokens; a *walk* is a client that goes on from token to
  token. `Hit`, `Miss`, `Load`, `Fill` are `SearchUsers`, whose pages nobody deletes;
  `List` is `GetAllUsers`. `Dies` is the end of the process, by the panic of a search
  for no rows or by two writes at once of `existingCache`.
- `SessionsHistory` - `Sessions` with two history variables and the properties that
  look back: `seen[r]`, what was true of the user at some moment of the login `r` is at
  (no ban standing, verified, no second factor, address moved), `administrators`,
  who has been one, and `overtaken`, the administrators' calls whose account another
  `UpdateUserAdmin` wrote since they asked for its role.
- `CredentialsHistory`, `EmailVerificationHistory`, `TwoFactorHistory`,
  `FollowGraphHistory` - their modules with the history variable `alone`, true while no
  call has had another's step between its own (and, where a step may fail, none that
  matters did; where there is a cache, no writer left a key behind). A property
  named `...Alone` is claimed for as long as it is true; all others are claimed of every
  interleaving, and name their exceptions one by one, for which there are more
  history variables: in `CredentialsHistory` `unforced` (no `UpdateUserAdmin` set a
  password), `admins` (who was an administrator) and `crossed` (whose salt or address
  another call wrote in the middle of a `ChangePassword`); in `EmailVerificationHistory`
  `holders` (who has had an address); in `TwoFactorHistory` `overtaken` and `unproved` (whose
  factor was switched on after a set-up was saved behind the check of his code).
- `ProfilesHistory` - `Profiles` with `overtaken` (requests whose reading the database has
  changed since), `missed` (keys that a writer did not get to: Redis refused, the call
  died, the writer deletes no key or the wrong one, or an overtaken reader filled it)
  and `unasked` (who got his username without a valid answer that it was free). Each is
  an effect of the code's steps, and each of the three properties that use it says
  that nothing else goes wrong, however calls interleave and fail.
- `ListingHistory` - `Listing` with `there`: who matched all along a walk.
- `BanLifecycleProofs`, `SessionsProofs`, `CredentialsProofs`, `EmailVerificationProofs`,
  `TwoFactorProofs`, `ProfilesProofs`, `ListingProofs`, `FollowGraphProofs` - theorems about
  the modules they are named after and their histories; `FollowGraphProofs` also about
  `MCLists`, where the lists and the pages stand side by side.
- `MCBan`, `MCBanSerial`, `MCCred`, `MCEmail`, `MCTwoFactor`, `MCProfiles`, `MCSessions`,
  `MCLists` - symmetry sets and definitions of constants for TLC. `MCLists` puts `FollowGraphHistory` and
  `ListingHistory` side by side.

A definition under a comment "Mutant:" is a plausible bug in the definition it is
named after. No specification uses it; putting it in that definition's place
shows that the property named in `PROJECT.json` would notice.

## 3. What the runs show

Passing runs:

| run | question | bounds |
|---|---|---|
| `MCBan` | two requests on two users, statements failing, crashes, deletions, hours that overflow: bans and answers name the right user, a lapse verdict never takes down the ban it judged while that ban stands, and a ban is over when the hours asked for have passed (`VerdictAsAsked`), unless a Duration cannot hold them | 3 ban ids, hours 1 and 15 in a Duration of 16 values, clock 1..3 |
| `MCBanSerial` | one request at a time: the tables implement `BanPromise`, and under fair goroutines a check that found a lapsed ban gets rid of it | 2 users, 2 ids, clock 1..3 |
| `MCSessions` | two requests, every kind of login next to bans, deletions and administrators' changes: nobody who is banned, unverified or has a second factor all through his login gets in without (unless, for the factor, his address moved); the new Google account is found; nobody is deleted, moved or given a role who is no administrator at that moment, but by a call that another `UpdateUserAdmin` overtook | 2 users, 2 addresses, 1 ban id, bans for 0 hours and 1, clock 1..2, 3 calls; at the start at most one account that is more than a fresh registration |
| `MCCred` | two requests, every operation: a reset writes only its token's owner; nobody is locked out but an administrator by the bare hash of `UpdateUserAdmin`, or whoever's `ChangePassword` was crossed by a new salt or a moved address; a change of password hits its caller and whom the address passed to meanwhile, nobody else; while calls do not overlap one usable token, spent once | 2 users, 2 addresses, 1 password, 2 salts, 2 tokens, clock to 1; updates: an address, or a password together with the loss of the role |
| `MCEmail` | two requests, failing look-ups, moving addresses, deletions, whole-row saves: verified only by an administrator, by a save of what one was, or with a spent OTP sent to one's address, and made for oneself unless the address was another's once; without overlap one usable OTP, spent once | 2 users, 2 addresses, 2 OTPs, clock to 1; no role changes |
| `MCTwoFactor` | three requests next to bans and deletions: no secret reaches another's row or app; a factor asked for is in the app, or has the empty secret, unless a set-up was saved between check and switch; without overlap set-up changes the secret alone | 2 users, 2 secrets |
| `MCProfiles` | two requests, Redis refusing, calls dying: a cached profile belongs to its key; what is outdated by id, or under a username given up, is about to be deleted or was missed for a named reason; of two accounts of one name one took it unasked or on an overtaken answer; once the writing stops the cache ends up right | 2 users, 2 addresses, 4 names: the empty one, one the lower case of another; 2 writing calls, one reader at a time |
| `MCLists` | the follow lists and the walks, calls failing, the process dying: a walk shows everybody who was there all along, once and in order; lists and pages end up right; without overlap no wrong list of whom somebody follows | 2 users and 4 ids, 2 requests, 2 writing calls, 2 changes, limits 0 and 2 |

The `.cfg` files hold the exact values. `MCLists` checks two modules in one state
space: they share Redis but no key, so that nothing either does matters to the
other, and in each behaviour (its `stage`) one of them moves.

**Why the bounds are enough.** Every hazard needs one actor between two statements
of another, so two requests reach it; a third only repeats it (`MCTwoFactor` has
three all the same, for the row saved by one, verified by another and disabled by
a third). Two users are needed for anything to land on the wrong one, and two
ids, tokens or OTPs of one user for a new one to replace an old one. With a
lifetime of one unit the clock passes every end: tokens and OTPs are refused from
their end on (a horizon of one shows both sides), bans and sessions go beyond it.
`Word = 16` with `HourLength = 1` is a Duration small enough to overflow: 15 hours come
out as -1, a ban that is over before it starts or, when it starts at 1, one whose end
is the 0 that stands for none. Four ids in pages of two give a full
last page, a short one, and a user who comes or goes before, on and after the
page a token points at; limit 0 is `GetAllUsers`' default and `SearchUsers`' panic.
`MCSessions` is the one run whose bounds are tight: three calls are a login, what
comes between its statements, and one thing more; the ban tables have runs of their
own, and the properties of logins are proved for every bound (section 4). In `MCProfiles` only
one request reads: two late fills are no worse than one. `MCEmail` has
no role changes and `MCCred` two kinds of update only; their theorems cover any.

**Violation runs.** Each shows that the code does not do what its own comment,
message or mail says; `PROJECT.json` quotes the line.

- `MCBanRace`: a check between `BanUser`'s statements clears the ban being placed, and
  the administrator is told that the user has been banned.
- `MCEmailStated`: the mail says thirty minutes, the OTP lives for one.
- `MCTwoFactorRevived`: gorm's `Save` of a row deleted meanwhile inserts it again.
- `MCProfilesRename`: two calls ask for one free username before either takes it.

**Known disagreements without a run of their own.** They were met on the way, and
are why some properties above say "without overlap" or leave something out. Each
shows itself when the condition named here is dropped from its property.

- Hours are taken unchecked: negative ones, or ones that overflow a Duration, end a
  ban before it starts (`MCBan` asks for overflowing ones; `FitsDuration` in
  `VerdictAsAsked` tells them apart).
- `UpdateUserAdmin` hashes the bare password beside a salt that a reset left
  (`OnlyAdminsLockedOut`), and may take the role in the same update: then somebody who is
  no administrator is locked out. `ChangePassword` across a reset hashes with the salt
  before it (`crossed`).
- `ChangePassword` writes by an address that may have changed hands (`crossed` in
  `ChangeHitsCaller`), two resets spend one token, two requests leave two usable tokens
  (`alone` in `MCCred`).
- OTPs likewise: two usable, one spent twice (`alone` in `MCEmail`). And an OTP that was
  sent to an address verifies whoever has that address when it is typed (`holders` in
  `VerifiedByOwnOtp`), and `SetUpTwoFactorAuth`'s `Save` restores a verification that was
  taken back meanwhile.
- `LogoutUser` is called a placeholder and takes the verification from users with two
  factors; `RegisterUser`'s comment says that it sends an OTP and it makes none.
- A second factor can be switched on before any set-up, with a code of the empty
  secret (`None` in `EnabledMatchesApp`). A set-up saved between the check of a code and
  the switching on leaves a factor required that may be in nobody's app (`unproved`), and
  `SetUpTwoFactorAuth`'s `Save` undoes a ban placed meanwhile (`alone` in `MCTwoFactor`).
- A user with a second factor whose address moves while he logs in is let in
  without a code (`"moved"` in `FactorAskedFor`); a ban placed after the first gate is
  not noticed by that login; `LoginAdmin` asks for no ban and no second factor;
  `TokenRefresh` renews the tokens of the banned and the deleted. An administrator's
  call that found the role acts although another one has taken it since (`overtaken` in
  `OnlyAdminsTouched`).
- A fill that arrives after the writer's delete serves the old row for two minutes
  (`overtaken`, `missed` in `MCProfiles`, `alone` in `MCLists`). `CheckBanStatus` and `LogoutUser`
  change what a profile shows and delete no key (`Misses`), one call after the other.
  Administrators' writes forget the key by username (which is why nothing is claimed
  of the flags shown under a username).
- Registration never asks whether its username is taken, and `CreateUserAdmin` gives
  everybody the empty one: two such accounts share it (`unasked` in `MCProfiles`).
- A username with capitals is never seen as taken. Worse: whoever is stored as
  "Ann" may become "ann" without being asked (`ToLower` of the old name is the new
  one) although somebody else took "ann" before: one call after the other, two
  accounts with one username (`NamedUnasked`); and the key "Ann" is never deleted (`Leaves`).
- `GetFollowers` "retrieves users following a given user"
  (`src/service/user_service.go:1242`) from a table nobody writes: it answers nobody.
- A short page of `GetAllUsers` reached backwards has no next token although users
  come after it, and a last full page has one although nobody does. A garbled
  token of `SearchUsers` starts over instead of being refused.

Deadlock is checked where the model cannot come to rest. It is not in the runs of
`Credentials`, `TwoFactor`, `Sessions` and `MCLists` (`CHECK_DEADLOCK FALSE`): with every
account deleted, every token, salt or secret drawn, or all calls made, there is
nothing left to do.

**Fairness.** `BanLifecycle!FairSpec` and `MCLists!MCSpec` ask weak fairness of
`Advance(r)`: the Go scheduler runs every runnable goroutine and a started statement
returns. Nothing obliges a client to call or to go on with a
walk, a statement to fail or a process to die, so those actions have none. Where
there is a cache it is asked of `Tick`: keys in Redis expire. `Profiles` needs no more
than that: a request that stops for ever delays nobody.

## 4. What is proved

For every value of the constants that satisfies the named assumption of the module
(`ConstantsAssumption`; in `Sessions` `TokenAssumption` and, for the ban tables it shares
with `BanLifecycle`, `BanAssumption`; in `FollowGraph` `FollowAssumption`; of `Listing`
`ConstantsFit`, a hypothesis of its theorems that `MCLists` assumes and TLC evaluates),
by TLAPS. The assumptions say that bounds are numbers, that `None` is not a value of
the sets it stands beside, and in `Profiles` that ids are no usernames and a username
in lower case is one. In each proof the invariant is about what a request *holds
between statements*; the property alone is not inductive, because it says nothing of
the stale value that the next statement acts on.

**Bans** (`BanLifecycleProofs`). `RecordNamesUser` is not inductive: a state in which a
request that bans Alice holds the id Bob's row carries satisfies it, and the next
insert breaks it. `IInv` therefore says who may *hold* a ban id: a row, a request in
flight, a record. All holders of an id speak of one user (`OneHolder`); a held id was
issued (`HeldIssued`), so a fresh one has no holder; an id awaiting its record has
none yet and one request works on it (`RecordPending`), so records never change; and
a verdict "past its end" stays true because the clock and the record only move one
way (`LapsedJudged`). From `Invariance` follow `TypeCorrect`, `RecordsNameTheirUser`,
`BannedAnswersAreJustified` and `LapseVerdictsAreSound`. `LapsedChecksEndRight` is what
`LapsedCheckEnds` says of steps: the one step such a check has left ends it rightly.
`VerdictsAreAsAsked` has no condition on the hours: a record holds the span of the hours
asked for with its ban (`AskedInv`), and a span is the hours themselves exactly when a
Duration can hold them (`SpanExact`).

`BanKept`, the refinement of `BanPromise`, does not hold of `Spec`: `MCBanRace` shows a
check that clears a ban while it is being placed. `SerialBansAreKept` proves it for one
request at a time, whatever fails, dies or is deleted: then a check's read is still
true when it writes (`ReadStillTrue`). Each statement is a step of `BanPromise` or a
stutter, in a lemma of its own (`PromiseBanRow`, `PromiseRecord`...).

**Sessions** (`SessionsProofs`). `Sessions` is composed of `BanLifecycle`'s actions, and so
what is proved of bans holds with logins around them: `BansStayTrueBesideLogins` takes
it from `BanLifecycleProofs` by `INSTANCE`. `NewGoogleAccountsAreFound`: the row a first Google login has
just made stays live under its address until it is read again (`NewAccountKept`),
since an administrator's call is only ever about an account that was there before
(`TargetsExist`) and the new one is no administrator's.

`TypeCorrect`: besides the types of rows, tokens and bans, while a login or an
administrator's call is under way the only statements of the ban tables that its
request runs are those of the login's check (`WorkFits`).

**What a login's tokens say** (`SessionsProofs`, second half). `HInv` follows a login through
its reads. `Backed(r)`: past the ban gate `seen[r]` holds "free"; while the check judges a
record, the row still carries the ban id that was read or has been seen free since
(`BanIdMoves`: a row changes its ban id only in a step that leaves no ban standing,
because an id nobody has drawn leads to no record, `RecordedIssued`); the flag that
was read first is backed by "verified". `EmailsUnique` makes the row that is asked for
the second factor the user's own, unless his address moved. `Earned` and `AInv` carry the
roles: the target of an administrator's call is an administrator until another
`UpdateUserAdmin` overtakes the call. From `HInvariance` follow `BannedAreKeptOut`, `UnverifiedAreKeptOut`,
`FactorsAreAskedFor`, `AdminTokensAreEarned` and `OnlyAdminsAreTouched`.

**Passwords** (`CredentialsProofs`). `ResetsHitTokenOwner`: the token a request is about
to spend was made for the user it found (`HoldsOwnToken`), and a token row is never
another user's (`TokenRowsNameOwner`). `NobodyLockedOutsUnforced` and `OnlyAdminsAreLockedOut` need that the
salt a hash was made with stands beside it (`SaltStands`) unless the hash is bare and
was forced on an administrator (`Bared`), and `ChangesHitCaller` of a `ChangePassword` at
its write that whoever has the address it will write by is its caller and has the
salt it read, or is crossed (`StoreSound`, from `EmailsUnique`); what a step may do to a
hash is in `Written`. They hold of every interleaving. The two theorems for calls that
do not overlap rest on `AInv`: while `alone` is true at most one request is busy
(`OneBusy`), what it has read is still true (`ReadStillTrue`), and `TokenStep` says what a
step may do to usable tokens.

**Email verification** (`EmailVerificationProofs`). `VerifiedOnlyByOwnOtp`: past the
look-up a request holds an OTP sent to the address it will write by, and at the write
a spent one (`OwnOtp`); OTP rows only grow (`Grows`), so that stays true while addresses
move and rows are saved back. The OTP's user had that address when it was made
(`HoldInv`), so that an address with one holder has only OTPs of his.
`OneUsableOtpsAlone` and `OtpsAreSpentOnceAlone` follow from `AInv`, as for passwords.

**Two factors** (`TwoFactorProofs`). `SecretsAreNotMixed`: the secret in a row that a
request is about to save was made for that row's user (`SavesOwnSecret`), however
stale the rest of the row is. `EnabledMatchesApps` holds of every interleaving: a
row to be saved has the factor off (`SavesDisabled`), so that only a switch turns it on,
and the code it was given stands until a set-up is saved (`ChecksStands`).
`SavesSecretsOnlyAlone`: while calls do not overlap, the row in hand is the row in the
table.

**Profiles** (`ProfilesProofs`). `KeyMatchesProfile` is not inductive either: a reader may
be about to fill a key with a profile that is not its own. The invariant adds what
readers hold: the profile in a request at `fill` carries the key it will be stored
under, as it was answered for that key. Usernames change meanwhile; the profile in
hand does not. `IdKeysAreFresh`, `NameKeysAreFollowed` and
`AskedNamesAreUnique` hold of every interleaving and failure. They rest on `HInv`: what a
request has read is still true or the request is overtaken (`RequestOk`), and every key
is right, or missed, or some request is going to delete it (`KeyOk`, `Pending`).
`CacheOnlyHeals` is what `SettlesFresh` says of steps, with calls overlapping and failing
as they like: while no row changes, a key that no stale profile is on its way to
(`FillsRight`) gets none, what is right stays right, and what is wrong only grows older.

**Listing** (`ListingProofs`). `WalksAreComplete` holds for any table, any limits and any
number of pages. The invariant says of a walk (`WalkFits`) that what is on the screen
is in order, lies on the near side of the token, and leaves out nobody who was there
all along and lies between the start and the token; of a cached page (`PageFits`) and of
one about to be cached (`SearchFits`) that it leaves out nobody who was there from the
very start, however old it is. It is inductive once every page is known to *answer*
its token: its users lie beyond the token, nobody between them and the token it
returns is missing, and without a token nobody beyond is (`SearchPageAnswers`,
`PageOnwardsAnswers`, `PageBackwardsAnswers`). Those rest on facts about the lowest `n` of a
set and the sequence that lists a set in order (`LowestAnswers`, `OrderExists`), proved by
taking a least counterexample (`LeastExists`, from the well-foundedness of the naturals)
where one would use induction. `PagesOnlyHeal` is the counterpart of `CacheOnlyHeals` for
pages, which nobody ever deletes.

**Follow graph** (`FollowGraphProofs`). `TypeCorrect`; `ListsAreKeptAlone`, for calls that do
not overlap: a cached list of whom somebody follows is `Kept` or `Pending`;
`ListsOnlyHeal`. `ListsStandTogether` puts both modules into one state space, as `MCLists`
does: a step of one leaves the other's variables alone, so `MCSpec` implements both
and keeps what each was proved to keep; `WalksAreCompleteBesideLists` is the part of
it that `MCLists` checks as `WalksShowEverybody`.

**Only model-checked:** liveness (`LapsedCheckEnds`, `SettlesFresh`, `ListsSettle`), which the
prover cannot do. What is proved of it is the part without fairness: the steps that
must come, when they come, lead where they should (`LapsedChecksEndRight`,
`CacheOnlyHeals`, `ListsOnlyHeal`, `PagesOnlyHeal`). The violation runs are TLC's too.

## 5. What is left out

Left out because no property of the tables or tokens turns on it: well-formedness
of passwords, emails and names, gRPC codes and wording, logging, mail delivery, TOTP
windows, the order and layout of a page's fields, `TotalCount`; whether a password
or a code is right, in `Sessions` (both answers are possible there; `Credentials` and
`TwoFactor` have the rules).

Left out because it changes no state: `GetFollowFollowingCheck`, `BanHistory`,
`GetBulkUserMetadata` and the other single reads; `UpdateProfileImage`, which updates a
column the table does not have and always fails; functions that no handler calls.

Not modelled: start-up (`mustConnect` retries for ever; no call runs before it is
done), configuration, the constants of error codes, deployment files.

The whole-row `Save` of `SetUpTwoFactorAuth` is an action of `TwoFactor`,
`EmailVerification` and `Profiles`, where it can undo what their properties are about. It
is left out of `BanLifecycle`, `Credentials` and `Sessions`: what is said there of bans,
passwords and logins is said of the time in which nobody sets up a second factor.
Lists show a user's name, email, role and socials beside his id; `FollowGraph` and
`Listing` model who is in a list, not what is shown of him.

What could come next: that `Save` next to bans and logins; and, for the properties
still claimed without overlap, their exceptions named one by one, as the others have
them.

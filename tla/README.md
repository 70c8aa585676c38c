# A TLA+ model of social-media-subscriber

The program collects posts of LinkedIn and X accounts from paid scraping
providers, merges them into a snapshot (accounts, post records, archived media,
retry queues) and publishes it: to a local directory that a web reader opens, or
to the one-commit git branch `dist`. The modules here model the parts where
failures, retries, crashes and concurrent runs make that hard. Paths are
relative to `src/src/social_media_subscriber/` unless they begin with `docs/`
(under `src/docs/`) or `.github/`.

## 1. The system

| component | state it keeps | operations | hard behaviour | what makes it correct | modules |
|---|---|---|---|---|---|
| local refresh (`service/local.py`, `application/collect.py`) | `run.lock`, `/state/work`, `/state/candidate` | lock, replay, resume or collect, save, archive, write, publish, remove | kills between any two steps, a second worker, storage errors | one worker at a time; a candidate is published before anything builds on it; saved posts are not lost | `LocalRefresh` |
| local publication (`publishing/local.py`) | `/data`, file by file | `publish_local`, `atomic_file`, cleanup | a reader sees each intermediate state; temporary files survive kills | media before records before indexes before `state.json` | `LocalRefresh`, `RollForward` |
| snapshot repository (`storage/`) | a directory tree and its promotion | load, write, promote, roll back | partial renames, replaced entries | a load accepts only a whole tree; a failed write leaves the old one | `Promotion`, loads in `LocalRefresh` |
| provider router (`adapters/`) | health of each credential, routed accounts, collected posts | batching, failover, disabling, acceptance, abort | failover must stop once a run may have been paid for | nobody is paid for twice; every account gets one outcome | `Router` |
| provider clients (`providers/apify`, `providers/brightdata`) | one remote run: started, polled, fetched | start, repeat, poll, fetch, classify errors | a lost answer to a start, timeouts, partial rejections | what they report is what happened remotely | `ProviderClients` |
| collection phases (`application/`, `storage/merge.py`) | accounts, posts, first-seen dates, watermarks | windows, outcomes, merge, resume | late posts, partly failed runs, resumed runs, explicit windows | nothing collected is lost, no post is missed; a post keeps its identity, owner and first-seen time | `Collection`, `PostIdentity` |
| media archive (`media/`) | retry queues, work files, the media slots of each post | visit, download, convert, link, queue; refresh a post | failed, killed and resumed runs, expiring URLs, payloads that leave media out | fair retry budget, newest URL, finished work kept; archived media stays in its slot | `MediaArchive`, `MediaSlots`, `LocalRefresh` |
| git publication (`publishing/git.py`, `cli_application.py`, `.github/workflows/collect.yml`) | `refs/heads/dist` and the lease on it | observe, check, push | concurrent runs, late or lost pushes | no push takes posts away | `DistPublication` |
| scheduler (`service/scheduler.py`) | `status.json`, the worker process and its group | cron instants, startup run, deadline, stop, restart | SIGTERM then SIGKILL of a worker at any step, missed instants, runs that skip or only resume | each interruption costs one instant; the status is true; nothing of a worker outlives it; a stop ends it | `Scheduler`; its kills in `LocalRefresh` and `MediaArchive` |
| payload mapping, accounts and platforms (`providers/*/normalize.py`, `accounts/`, `platforms/`, `domain/`) | none of their own | owner of a record, canonical ids, duplicates, conflicts | two providers and an operator spell the same thing differently | one post is one post, in whatever order records arrive | `PostIdentity`; the translation of fields is not modelled |
| X media backfill (`providers/x_syndication.py`, `application/x_media_backfill.py`) | fetches under way, answers by id | eligibility, limiter, check of an answer, merge, candidate | an unofficial source: misses, exceptions, wrong answers, any order | no wrong post is attached, as far as the answer can tell; nothing is taken away | `XEnrichment` |
| command line, settings, schemas | none | construction, exit codes | none | tested with data | exit codes in `Scheduler`, else not modelled |

How they interact: the scheduler (or an operator, or the workflow) starts one
process per run. The process takes the lock, and `collect_snapshot` calls the
router once with all requests; the router awaits its adapters one after the
other, and each adapter drives one remote run. The merged snapshot is saved
before any media work, `archive_media` then visits its slots, the result is
written as a candidate, and the candidate is published. Everything two runs
share is on disk or at the remote.

## 2. The modules

`MC*.tla` give constants for TLC, `*Proofs.tla` hold the theorems: one module of
them for each specification, except that `RouterProofs` has `Router` and
`ProviderClients`, `DistPublicationProofs` has `XEnrichment` as well, and
`PostProofs` has `PostIdentity` and `MediaSlots`. No module about which something
is proved uses a RECURSIVE operator.

Four MC modules check two specifications each: `MCRouter` has `Router` and
`PostIdentity` (what happens to the posts of an answer), `MCCollection` has
`Collection` and `Scheduler` (when collections happen), `MCDistPublication` has
`DistPublication` and `XEnrichment` (whose candidates it publishes), and
`MCMediaArchive` has `MediaArchive` and `MediaSlots`. The two share no variable
and a behaviour is one of either, as the variable `part` says; this is a saving
of runs and not a composition.

### LocalRefresh and RollForward

A snapshot is a function from posts to `absent`, `pending`, `failed` or
`archived`: every post has one media slot, and an account file behaves as a post
record. The public tree is four things a reader can see change separately:
`media`, `record`, `index` (`posts.json`) and `queue` (`state.json`).
`pc[w]` follows `_refresh_locked` and the calls under it:

    idle -> recover -> publish ... -> rmwork -> rmcandidate -> load
    load -> collect -> save -> archive -> write -> publish ...
    save -> moved -> swap -> discard -> archive     over a saved snapshot
    discard -> rollback -> restore -> idle          its handlers
    swap -> restore -> idle
    publish -> staged (-> linked) -> publish        one file

"staged" has a `.publishing-*` file, "linked" has linked media but not unlinked
the temporary name. A run that resumes saved posts saves them again, and that
replaces a snapshot: `promote_directory` renames the prior one to a backup with a
random name ("moved"), checks it outside of any `try`, renames the new one into
place ("swap") and removes the backup ("discard"), file by file
(`DiscardBackup`). Of the handlers, the first puts the backup back (`SwapRaises`,
`Restore`); the second moves the new tree away before that (`DiscardRaises`,
`Rollback`), and puts back whatever is left of the backup, while `write` removes
the new tree. A snapshot that lost only its `state.json` still loads, without the
memory of what failed for good (`WithoutState`); one that lost another file is
`Damaged`, and every later run ends at it (`ResumeRejected`). `RemoveWork` and
`RemoveCandidateFile` take `rmtree` apart, so a kill can leave a damaged work
snapshot or a partial candidate. `Kill` may strike at every step in
`Interruptible`, and a storage call may raise at every step in `Failing`:
`SwapRaises` and `DiscardRaises` where a handler follows, `StorageError` at all
others, the handlers among them. `Repair` is the manual repair of
`docs/media-and-docker.md:82`. `Promotion` has one such call of `write` in more
detail.

`RollForward` is what a reader of `/data` is promised, in 100 lines without
workers, locks or files: a snapshot that extends the public one is staged as a
whole, public files change only towards it and in order, and it is retired when
all of them show it. `ImplementsRollForward` is the refinement, with the
candidate directory as the staged snapshot.

### Router and ProviderClients

`Router` is one call of `Router.route`: requests are validated (`Begin`,
`RejectRequests`), cut into batches of one kind (`TakeBatch`), and each batch is
offered to the instances in order (`Ask`) until one settles it. `Answer` is the
contract of `adapters/instance.py`: any attempt an adapter may return, where
only an attempt without a paid run behind it may be one that passes the batch
on. `runs` is the history of paid runs.

`ProviderClients` extends it with the two real clients below that contract:
starts that are lost before or after they were carried out, repeats, polling,
fetching and the error categories. `started` is what really happened at the
provider. `ClientsHonourContract` says that router and clients together implement
`Router`. `HidesAcceptance` names the drivers whose timed out start may have been
carried out; an HTTP error is taken as "not carried out".

Some things the code does and the module therefore does: Apify ignores the
status seen by its last poll; a progress answer of Bright Data that is not JSON
is a schema abort although the snapshot has been accepted; best-effort results of
the X actor count as success; a failed enrichment is ignored. Exceptions of
`httpx2` other than timeout, connect and network errors leave `route` and end the
process; that is not modelled.

### Collection

Many runs, one step each. `Window` is the window of a request (a first
collection reaches back to the platform's earliest date, a later one
`OverlapDays` from today), `Merge` is `merge_snapshot` with the watermarks, and
`CollectKilled` / `Resume` are a run that saved its posts and the one that
publishes them. Posts become visible up to `MaxLatency` days after their date.
Two consequences of the code are visible in the definitions: the window is
counted back from today, so it does not grow after an outage; and a first
collection with an explicit window makes the account known, so its history is
never fetched. An account is `regular` when neither happened to it, and never
more than `MaxGap` days lie between two collections. How long that gap can get is
the subject of `Scheduler`.

### PostIdentity

One platform over many runs: an operator requests accounts under several URLs, a
provider answers a batch with any records, `Normalize` folds them into posts
(owner, canonical id, merge hash, choice between duplicates), `TakeIn` is
`RouterRunState.accept`, and `Merge` compares the run with what is published. A
URL is a name with or without capitals and query, an id a number with or without
the URN prefix that only Bright Data uses, and of the other fields one is in the
hash and one is not. A conflict aborts the run (`SchemaAborts`, `MergeAborts`).
Provider failures are in `Router`. `NormalizedFirst` is the loop of
`normalize_posts`, a recursive function of the number of records seen, and
`OrderDoesNotMatter` compares an answer with each of its rearrangements.
`RecordsAssumption` says that ids and encodings can be compared.

### Scheduler

`serve` with `run_worker`, the container around it, and the `refresh-local` runs
that the service or an operator starts under one lock. Time is the number of cron
instants that have passed. A run is reduced to the lock, the posts it saves, and
their publication; `Resumes` and `ArchivesOnly` are the runs that publish without
collecting. `Terminate` and `KillGroup` are the two signals to the process group;
a stray is an ffmpeg whose worker is gone, and one of a worker that died alone
("lost") is in no group the service knows. A container that ends takes every
process with it.

`excused` counts the interruptions since the last collection: a run that failed,
died, was terminated, found the lock taken or every provider exhausted, an instant
that passed while the service was busy or down, and each end of the service.
`EachInterruptionCostsOneInstant` says `clock - collected <= 1 + excused`. It is
the link to `Collection`: its `MaxGap` (in days, for the daily schedule of the
documents) is one more than the interruptions in a row. With the code's overlap
of three days and posts that show up within a day, one interrupted run is made up
for and the second in a row is not.

### MediaArchive

Many runs, down to the attempts on a slot. An `Entry` is what a snapshot says of
a slot: its queue, its counted failures, the URL queued and the URL in the post.
`published`, `saved` (`/state/work/snapshot`) and `mem` are three snapshots;
`input` and `final` are the completed downloads and the outputs with their final
name. `Queue` is the except-branch of `archive_media`, `SourceOf` its choice of
URL, `Link` and `Finish` the two sides of `os.link`. Each slot is in a post of
its own and slots are visited in any order. Publication and the removal of the
work directory are one step (`LocalRefresh` takes them apart), and `Repair`
happens only when nothing is saved (`local_repair` is the other case). Kills are
not bounded. When every provider is exhausted but media is pending, the run goes
on: that is `Collect` with nothing found.

### MediaSlots

One post of the snapshot over many runs, with the algorithms of `media/slots.py`:
the slots of a post (`XSlots`, `LinkedInSlots`), the choice of the video variant,
and what a refresh does to what is published (`XReconcile`, `LinkedInReconcile`).
`Refresh` is `merge_snapshot` for a post it knows, `PostInit` for one it does
not; `Archive` is a pass of `archive_media` in which any of the slots succeed. A
post has only the fields that can hold a URL. Of the nested posts, the cover and
the logo there is one each and they follow the rules of the fields modelled, so
they are left out; an absent list and an empty one are the same here; a file name
is its slot, without the extension. `SlotsAssumption` says what a payload is (lists
of any length) and that no provider gives an owned URL.

The properties hold for payloads that are `Expected`, and the code needs that.
Otherwise: an empty string, unlike a missing field, is not filled with the
published URL, and the file is lost (`NothingEmpty`); the same goes for a video
whose payload lists only streams that cannot be downloaded, and a photo that
becomes a video gets a URL of the wrong kind, which the next load rejects
(`SameItems`, which also keeps the empty string out of X items).
`FreshUrlsAreTaken` has two conditions more: a payload with fewer variants
leaves an expired URL in place (`SameVariants`), and a fresh poster under
`video_thumbnail` is hidden by an old one under `videos[0].thumbnailUrl`
(`SamePosterKey`). With a condition taken out TLC finds the property violated.
Which of these the providers do send the repository does not say.

### XEnrichment

`XMediaEnricher` asks for each requested id once, at most `MaxConcurrent` at a
time; `Fetched` returns one of the `Answers` to that id, or a miss. `Matches` is
the check of the answer: for a reply its id, for a repost only its author, since
the code has no id to expect. The result goes into a refresh (`RefreshPublishes`: merge, archiving and
publication) or into the candidate of `enrich-x-media` (`BackfillWrites`), which
an operator publishes if the snapshot it was made from is still the public one.
An entry of a snapshot has the quoted post, the post whose media its slot shows,
and whether the slot is archived; they differ when a later quoted post takes the
place of an earlier one. The adapter treats an exception as misses, the command
fails.

`ReferencesAreRight` says that what is attached to a post, and the media shown for
it, is of the post it refers to. `reposts` of a status is that post for a repost;
no action reads it. For replies the property holds whatever is answered. For
reposts it needs `RepostsAreKnown`: an answer by the author named in the text is
the post that was reposted. The instance assumes it and the theorem has it as a
hypothesis; without it, TLC finds another post of that author attached. An answer
by anyone else, such as the repost itself, is ruled out by the code, and TLC finds
it attached when that check is dropped. Nor is a post that only looks like a
repost of its own account ("RT @me: ...") covered: its own id is asked for, and the
answer is itself.

The property also leaves out posts to which the provider itself gives a quoted
post. Such a reply, once its quoted post is left out by the provider, gets the
target of the reply in the same place, with the archived media of the other; TLC
shows this when the condition is dropped. No document says whose place it is.

### Promotion

One call of `SnapshotRepository.write`, each call on the file system a step
that may also raise; `Failing` is the set of steps that do. Root, temporary
sibling and backup are trees with an identity, which renames keep, and a set of
files, so a removal can stop half way. The handlers are the code's:
`_rollback_candidate`, `_restore_backup` and the `finally` of `write`. A kill is
not an exception: it leaves everything as it is, and is in `LocalRefresh`.

### DistPublication

Runs of the workflow and of `publish-dist`. Each check of the branch is a step of
its own (`Precheck`, `FetchBaseline`, `Compare`, `VerifyUnchanged`,
`VerifyLease`), so the branch may move between any two. `RemoteDecides` carries a
push out or refuses it by its lease, at any time after `Push`, also when the
client has given up (`PushBreaks`); `Repeat` is an operator running a failed
publication again, which the documents advise against. Commits are numbered, so
two pushes never have the same commit; a candidate extends the snapshot the run
observed, as `Collection` shows.

## 3. The runs

| run | asks | result |
|---|---|---|
| `local_safety` | two workers, kills at every step, storage errors, repairs: is what a reader sees consistent, and does the refresh implement `RollForward`? | holds |
| `local_durability` | with kills and storage errors at the tolerated steps: do saved posts survive, and is every candidate and every saved post published in the end? | holds |
| `local_temporaries` | may a worker be killed while a media temporary is out? | `CandidateIsPublished` is violated |
| `local_repair` | is the documented manual repair kept after an interrupted run? | `RepairsAreRetried` is violated |
| `router` | one call with four accounts, three kinds and three configurations: paid once, all answered, decisions final? And two runs whose answers spell accounts and ids in every way: does a post keep its identity, does the order of records matter? | holds |
| `provider_clients` | do the real clients keep the contract, is nobody charged twice, does `route` end? | holds |
| `provider_lost_trigger` | is a batch that moves on from Bright Data never paid for? | `FailoverBeforeAcceptance` is violated |
| `provider_rejection` | is only a bad account reported invalid? | `RejectionsAreAccountScoped` is violated |
| `collection` | four days of runs that fail, are killed, resumed or use explicit windows: is a post missed or forgotten? And the service that starts runs: what does an interruption cost, is the status true, is a worker ever left, do runs end? | holds |
| `dist_publication` | two runs, three commits, late and lost pushes, repeats: does `dist` ever forget, is a report ever untrue? And three X posts that are enriched, refreshed and backfilled: is a wrong post attached, is anything taken away? | holds |
| `media_archive` | two slots over many runs: is the budget fair, the URL the newest, finished work kept? And four posts over any number of refreshes and archivings: does a refresh keep archived media, move none, and take fresh URLs for the rest? | holds |
| `promotion_rollback` | does an error while the backup is removed keep the previous root? | `PriorKept` is violated |

The five violated properties are sentences of the documents or of a docstring;
the findings in `PROJECT.json` quote them and tell the run. In short:

1. A kill while `atomic_file` has a temporary media file out leaves a file under
   `/data/media` that the validation of the candidate rejects. The cleanup that
   would remove it comes after that validation, so no later run gets past it.
2. A repair of `state.json` is overwritten by the run that resumes a saved
   snapshot, because the queues were read before the repair.
3. A Bright Data trigger whose answer is lost is handed to the next instance,
   although it may have been accepted and paid for.
4. One bad account in a Bright Data batch makes every account of the batch
   `invalid_account`.
5. `promote_directory` removes the backup of the prior root inside the `try`
   whose handler rolls back. An error half way puts what is left of the backup
   back as the root, and `write` then removes the complete candidate. For a run
   that saves again what it has resumed, the posts that were paid for are gone.

### Steps excluded from `local_durability`

Saved posts do not survive everything. `ToleratedSteps` are all steps but six at
which a kill is known to do harm, `ToleratedErrors` all but five at which an error
is:

| step | kill | error |
|---|---|---|
| "staged" | leaves a temporary (finding 1) | tolerated: the `finally` removes it |
| "linked" | the same | the same, if it is the unlink that raises |
| "moved" | the saved posts have only the name of the backup, which nobody looks for | the same: the checks at `storage/safe_promotion.py:30` are in no `try` |
| "swap" | the same | tolerated: the backup is put back |
| "discard" | tolerated: the new snapshot is in place | a partial backup becomes the work snapshot (finding 5): no later run gets past it, and its posts are lost |
| "restore" | as "moved" | as "moved": the backup keeps its name |
| "rmcandidate" | a candidate that is partly removed does not validate, so each later run fails | the same |

These are facts about the code, not about the model: with any one of them added,
TLC finds a violation of `SavedPostsSurvive` ("moved", "swap", "discard",
"restore") or of a liveness property (the others). The safety run has kills and
errors at every step.

### Bounds

- `LocalRefresh`: two posts are the least for which two records, or a record and
  an index, can disagree; two workers for the lock; two faults let a recovery be
  interrupted as well. The liveness run has one worker, as the lock leaves only
  one inside, and three faults: one that makes a run save again, one that raises
  in its promotion, and one more in the handler of that.
- `Router`: four accounts of three kinds with `MaxBatch` 2 give a full batch, a
  partial one and a second batch for the same instance; the configurations have
  two providers, one provider with two credentials, and a kind that is
  registered but has no instance. `ProviderClients` has three accounts, two
  polls instead of 360 and one repeat instead of two: what matters is that a
  poll may be the last.
- `Collection`: overlap 2, delay 1, gap 1, four days: a post can appear after
  the run of its day and be caught by the next, with one day to spare for
  nothing. The assumption `MaxGap + MaxLatency <= OverlapDays` is tight there.
- `MediaArchive`: the code's own budget of three; two URLs make an old one and a
  new one; two slots so that one may fail while the other succeeds.
- `MediaSlots`: a post of one item with every list of up to two variants (two
  are the least among which one is chosen), a post of up to two items, and
  LinkedIn posts with images and avatar or with videos and posters, since the
  code treats the two groups independently. Two URLs of providers let a payload
  differ from the one before, and the empty string is one more value of a field;
  nothing else is bounded.
- `PostIdentity`: two runs, answers of up to two records, the least for a
  duplicate; two accounts, one of which has four spellings; ids with and without
  prefix, two texts and two values of the rest.
- `Scheduler`: two instants and one interruption in a row. The theorem has no
  bound, and the cost of an interruption shows with one.
- `XEnrichment`: two replies to one post (one of which also quotes) share an
  answer, a repost is checked in the other way. The endpoint may answer with the
  right post (for the repost also without its media), with two others for a reply,
  with the repost itself, or with none; two fetches at a time.
- `Promotion`: two files, the least for a tree that is removed half way.
- `DistPublication`: two runs and three commits let one run overtake another
  twice.

`MaxFaults`, `MaxUrl`, `MaxCommits`, `LastDay`, `LastInstant`, `MaxExcused`,
`MaxRecords` and `LastRun` only bound what happens, and the theorems of the
modules that have them hold for every value. Deadlock is checked except in the
router's runs, where `route` returns, and in `promotion_rollback`, where `write`
does.

### Fairness

`local_durability` and `local_temporaries` assume that some worker keeps taking
steps (`WF_vars(\E w \in Workers : WorkerStep(w))`): cron starts a run at every
instant, and the operating system schedules a process that has been started. It
is weak fairness of the disjunction, so it promises nothing about a particular
worker or the outcome of a step; kills are bounded by `MaxFaults`. Collections
and archivals may fail forever in the model, except that a saved post needs no
success to become public: it is published with its media pending.
`collection` assumes weak fairness of `ServeStep`, the steps of `serve` and
`run_worker` (and that only for the scheduler): `serve` is one process that the
operating system schedules, its waits have timeouts, and its steps need nothing
but what their guards say. Nothing is assumed about the runs it starts, which may
hang: `RunsEnd` says that a stop and a deadline get the service out all the same.
`provider_clients` assumes `WF_vars(Next)`: `route` awaits its adapters, each
request has a timeout, and nothing else runs.

## 4. The theorems

Each holds for every value of the constants allowed by the module's assumption.
Type invariants are proved (`TypeCorrect`, `ClientTypes`) and not listed in the
runs. All follow one pattern: `IInv` is inductive (one lemma for each action), and the
properties follow from it.

- `LocalRefreshProofs`. `CommittedTreeIsWhole` alone is not inductive: it must be
  known what a candidate guarantees while it exists (`CandidateFits`), what holds
  when there is none (`NothingHalfDone`), and how far a publication has come
  (`PublishesTowards`: each file no longer in `pub` shows the candidate).
  `Refinement` maps each step to a step of `RollForward` or a stutter;
  `NeverRegresses` follows from the same lemmas. `SavedSurvive` has two hypotheses:
  no kill comes at a step of `Harmful` and no error at one of `HarmfulErrors` (the
  table of section 3). Then every candidate has all saved posts and all its files
  (`CandidateIsWhole`), and without one they are public, in the work snapshot, or
  in the backup of the worker that is replacing it (`NothingLost`). It says
  nothing of errors while the backup is removed: there the code loses them.
- `RouterProofs`. `Partition` (an account is waiting, in the batch or settled),
  `Payment` (an attempt that has paid settles its batch) and `PassedOver` (every
  instance behind `at` refused or is disabled) carry `PaidOnce`,
  `EveryAccountAnswered` and `ExhaustedMeansRefused`. `DecisionsStand` is the
  action property. `BatchesSuit` adds that a batch on its way is one account
  unless all who serve it take batches (`Sized`), from the fact that the first
  account of a set is one account (`FirstIsOne`).
  For `ProviderClients`: `Reported` relates `started` to `runs`.
  `ClientsImplementContract` is the refinement of `Router`; with it the router's
  `PaidOnce` gives `ChargedOnce`, under the hypothesis that only an Apify start
  can be carried out unnoticed.
- `CollectionProofs`. What the newest snapshot of a regular account may lack was
  published within `MaxLatency` days of its last collection (`Recent`), and the
  next window reaches back at least that far; hence `NothingMissed` for every
  overlap, delay and gap with `MaxGap + MaxLatency <= OverlapDays`.
- `SchedulerProofs`. The debt of the service is the time since the last collection
  less the interruptions since; it is at most one, and one only while a run is due
  that has not collected (`Debt`). Saved posts that nobody is archiving stand for
  an interruption that a resuming run has to spend (`SavedDebt`); without that,
  such runs would add up to a gap that nothing explains. `StatusTrue` and
  `GroupsEnd` follow from what each phase of `serve` knows (`Control`,
  `Instants`).
- `DistPublicationProofs`. Every commit extends the snapshot its lease names
  (`CommitsExtend`), and no commit that landed has a lease on the present tip
  (`TipIsFree`). For `XEnrichment`: every answer is one for its id or
  none, every entry fits the post it belongs to (`GoodEntry`; for reposts under
  `RepostsAreKnown`), and the candidate of a backfill
  extends the snapshot it was made from (`BackfillFits`, `Extends`).
- `MediaArchiveProofs`. The counted failures of an entry are those of the
  history, plus one in memory while the current run has charged the slot
  (`Counts`); each entry's URL is the newest (`IsNewest`), for the published
  snapshot as long as nothing is saved.
- `PromotionProofs`. The theorems name the steps that may raise as a hypothesis.
  `ReturnIsPromoted` needs none; `RootStaysWhole` excludes only the removal of
  the backup; `ErrorsBeforeDiscardKeepPrior` is the sentence of the documents for
  errors before that removal, outside the checks that precede the `try` and with
  handlers that succeed. The invariant tells, for each step, which tree has which
  name. The checks outside the `try` come right after the
  prior root was moved away; when one raises, the root stays missing and the
  prior tree keeps its backup name.
- `PostProofs`, for `PostIdentity`. What the first n records come to is described
  without the loop (`Outcome`): refused if a record gives no post or two records of
  one post disagree, else, of each post, the record with the smallest encoding. An
  induction over n (`NormalizedIsOutcome`) shows that the loop computes this, and the
  description does not mention the order of the records, hence
  `OrderDoesNotMatter` for every rearrangement of an answer of any length. The same
  description makes posts canonical and one of each id (`IdentityInv`), which
  `TakeIn` and `Merge` keep, hence `PostsKeepTheirIdentity`.
- `PostProofs`, for `MediaSlots`. `OwnedUrlsAreReused` and `RefreshStaysValid` speak
  of slots and are not inductive: an owned URL may be in a variant that is not
  selected at present, or in the thumbnail of a post while the first video has one
  of its own, and could come back as a slot by a later refresh. `PostInv` says of
  every owned URL of a post that it is the one of its place and that its file is
  there, and that each archived file is shown at its place. The proof reads a post
  as a function from places to URLs (`XAt`, `LinkedInAt`): restoring a list, an
  item, the variants of a video or a single field does one thing at each place,
  and so does the reuse of owned URLs (`After`). `FreshUrlsAreTaken` and
  `WaitingSlotsStay` follow from the same facts. The largest number of a set
  (length of a restored list) and the preferred variant of a video exist because
  the sets are finite; that is proved by induction too.

The library's theorem of induction takes an operator and cannot be used. Its
theorem that a well-founded relation has minimal elements (`WFMin`) takes a set;
`LeastNumber` and `SetInduction` are proved from it, and the set in question is the
set of the numbers for which the claim holds.

Only model-checked: liveness (`CandidateIsPublished`, `SavedIsPublished`,
`RouteEnds`, `RunsEnd`), which the prover cannot do. Every other property of a
passing run is a theorem.

## 5. What is not modelled

- Contents: the text of posts, the JSON encoding, digests, path and symlink
  checks, and the reading of directory trees. Properties here do not tell two
  encodings apart.
- Which picture a slot shows: a slot is its position, as the documents define
  it, so a list of images into which one is inserted keeps the old file at the
  old place.
- The inside of a download (redirects, sizes, attempts) and ffmpeg.
- Translation of payload fields into content, the syntax of URLs, settings,
  command line, logging and schema generation: stateless, and covered by tests
  with data. For the same reason a `quotedTweet` that is `null` is not told from
  one that is there (the code tests the key).
- The parsing of cron expressions and time zones, and a schedule that has no next
  instant. Missed instants are not made up for, by design.

Behaviour of the code that no property covers, met while modelling:

- A worker killed alone leaves its ffmpeg behind ("lost" in `Scheduler`), and the
  lock is free. The next run encodes into the same `.encoding-N` directory
  (`media/archive.py:121`) and overwrites (`media/convert.py:240`), so two
  processes can write one file. Only a file-level model of the work directory
  would show more.
- A backfill passes all posts to `archive_media`
  (`application/x_media_backfill.py:72`), so it also archives media that waits in
  posts which `docs/operations.md:347` says remain unchanged.
- A reply that quotes a post, when the provider leaves that out later: see
  `XEnrichment` above.

## 6. Plan

In order of importance:

1. done: `LocalRefresh` with `RollForward`; `Router` with `ProviderClients` and
   `PostIdentity`; `Collection` with `Scheduler`; `DistPublication` with
   `XEnrichment`; `MediaArchive` with `MediaSlots`; `Promotion`; their theorems.
2. done: theorems for every safety and action property of the passing runs.
3. The work directory of one slot, file by file: download, conversion, a stray
   encoder and the next run.
4. `safe_directory`: the walk from a root to a file, without following links,
   while entries are replaced.

# JWC24 in TLA+

JWC24 revives discontinued Japanese WiiConnect24 services: a mail service, a content
server, publication tools for a television guide, News, a shopping channel and a
delivery channel (Demae), and a Wii Shop experiment. This directory holds TLA+ modules
translated from its source, the TLC configurations that check them on small instances,
and theorems that TLAPS proves for every value of the constants. Paths below are
relative to the repository.

`PROJECT.json` lists the components, runs, theorems, findings and hazards, and for
each definition the source lines it models. Every property of a passing run has a
mutant there: a plausible bug in a mapped definition (the `Name_Variant` operators in
the modules) with which TLC finds the property violated.

To check: `tlc -workers 2 -config <run>.cfg <module>` and `tlapm <module>.tla`.

## 1. Inventory

### Parts that keep state

| component | state | operations | modules |
|---|---|---|---|
| shared mail store (`jwc24/mail.py`, `mail_server.py`) | accounts.json, per mailbox a generation marker, `.eml` (queued) and `.sent` (outstanding) files and an acknowledgment intent; quarantined payloads; one lock | register, check, send, quarantine, receive, delete; HTTP threads | `MailQueue`, `MailStore` |
| console mail transaction (`tools/patches/dolphin_wc24_mail_receive.patch`) | receive list, saved flag, friend list, the KD scheduler's minute check | check, receive, import, count-only delete | `MailDelivery` |
| Demae notice outboxes (`demae_handoff.py`, `demae_database.py`, `demae_mail_queue.py`, `tools/demae_phone_server.py`) | handoff and closure rows in two SQLite files, retry thread | create, confirm, expire, dispatch, record closure | `NoticeDispatch` |
| Wii Shop challenges (`wii_shop_challenges.py`) | one SQLite table of challenges | issue, consume | `ChallengeStore` |
| Rakuten shop catalog, artwork, product pages (`rakuten.py`, `shop_catalog.py`, `wii_no_ma.py`, two tools) | catalog file with identities, card and checkout images | import, build, list, open | `ShopCatalog` |
| Demae area registry (`demae_area_registry.py`, its tool) | registry of local town codes, codes saved in consoles | assign, save | `AreaRegistry` |
| guide and News publication (`hbnj_publication.py`, `news_publication.py`, `news_server.py`) | generation directories, pointer file, snapshot of each server | publish, load | `EditionRegister`, `Publication` |
| asset batches (`tools/asset_publication.py`, `publication_lock.py`) | output files, one lock per directory | capture, lock, check, write, restore | `AssetPublication` |
| content server, prepared snapshots (`server.py`, `prepared_delivery.py`, `wc24_delivery.py`, `readiness.py`, `manifest.py`) | live payload files, publications, the snapshots that a process has loaded | preflight, serve, answer a route; legacy update, publish | `ContentServer` |
| task list, account configuration, launcher, command line (`dl_list.py`, `wc24_config.py`, `launcher.py`, `__main__.py`) | two binary profile files with dated backups, accounts.json, service processes | provision, bootstrap, mail-config, launch, preflight | `Provisioning` |
| Wii no Ma interactions (`wii_no_ma_interactions.py`) | one SQLite table of receipts | migrate, record, submit | `InteractionStore` |
| JMA capture (`jma_capture.py`, `jma_weather.py`) | a new evidence directory per capture | four requests, accept or refuse | `WeatherCapture` |
| Forecast Channel files (`forecast.py`, `forecast_bundle.py`) | a pair of signed files, built apart | build, sign, read, check the pair | `ForecastBundle` |
| News records (`news_records.py`, `news.py`, `news_bundle.py`) | snapshots and the slots that hold them | build, inspect, check the bundle | `NewsBundle` |
| compression (`forecast.py`, `lz11.py`) | none beyond a call | encode, decode | `NintendoLz` |
| Nintendo Channel transfer (`nintendo_http.py`, `nintendo_load.py`) | native buffer and counters of a download | callback, poll, retry, hand over | `NintendoTransfer` |

The parts that are left out, and why, are in section 6.

### How they interact

- Consoles call the mail service over HTTP. Each request has a handler thread; the
  store's operations exclude each other by `MailStore._lock`, but a console's
  transaction is three requests (check, receive, delete) and its timed-out request can
  still be running when the next arrives.
- The Demae phone server's handlers and its retry thread drain the outboxes into the
  mail store, inside a SQLite transaction that the mail does not take part in.
- Tools publish files that servers and other tools read: by atomic replacement of one
  file, by a pointer to a directory, or in batches under directory locks.
- The Wii no Ma pages and the artwork tool both number products by their position in
  the catalog that an import replaces.
- Commands prepare a console's profile while the console, the launcher and the mail
  service use the same files; `preflight` judges beforehand what `serve` will judge
  again.
- Files that refer to each other are built apart and at their own times (the forecast
  pair, News snapshots); a check of all of them together decides.

### What is hard

Interleaving of handler threads with file operations that are not atomic together;
stops between two renames; a delete that names a count and no mail; retries after a
lost answer; lock timeouts; state read before a lock and used after it; clocks that
pass, or move back, while something is verified; numbers that are reused when rows
leave and return; files edited in place beside a backup copy; a provider that
publishes between the requests of one capture; references that only a later check
resolves; two checks of one thing that must agree. `PROJECT.json` lists each hazard at
its line with the properties that would catch it.

## 2. Modules

**MailQueue** is the abstract mailbox: a set of queued mail and a batch that is
offered, sealed when a receive has answered, and acknowledged as a whole.

**MailStore** is `mail.py` and the handlers of `mail_server.py`, one action per file
operation. `eml`, `sent`, `intent`, `generation` and `registered` are the disk and
survive `Restart`; `lock`, `pc`, `request`, `todo` and `picked` are the process. A
send serves its recipients in order (dedup, marker, file); a receive replays an
outstanding batch or selects one within the batch limit and the byte budget and
renames file after file; a delete checks the count, commits an intent and unlinks file
after file; every operation first completes a retirement that an earlier one left
(`UnlinkRetired`, `EndRetire`, mail.py:136-142). A send without a known recipient is
refused: its payload is written into `rejected/` without the lock (`OpenRejected`
empties the file, `WriteRejected` fills it) and the sender is told so, but a payload
that shows one known corruption (`Corrupt`) is acknowledged (mail_server.py:120-134).
`Fail` is an exception at any point: the handler's `with` gives the lock back.

**MailDelivery** composes the console's patched KD code with the service at the grain
of requests. `wire` holds the request or answer in flight, `late` requests that the
console has given up and that the service may still handle. The receive list, its
limit and the identity comparison of `AddMessage` (Message-ID, From, To) are modelled;
`savedFlag` is saved only where the patch saves it. A claim passes over mail that
exceeds the byte budget by itself and ends at the limit or the budget (`IsSelection`).

**NoticeDispatch** models both outboxes: rows, write locks, marks that a rollback
undoes, and the mail store as the set of pending notices. The worker's loop stops on
an exception it does not name (`LockTimeout` of the worker).

**ChallengeStore** has one step per database operation of `issue` and `consume`; the
proof is verified between two of them, without a lock. The clock is the system's and
can be set back.

**ShopCatalog** models documents with and without identities, overlapping imports
(search, lock, read, replace, report), the numbers that the pages give, and artwork
builds that no lock keeps apart: each opens and writes two files for each row of the
catalog that it read (`OpenFile`, `WriteFile`), and a stop leaves the open one torn.

**AreaRegistry** reads the registry before it takes the lock, as the tool does.

**EditionRegister** is the abstract register of whole editions, and **Publication**
the generation directories that implement it, for both channels: the variable
`channel` selects the order of steps, since the guide is validated under the directory
lock (and rechecked when the validators end) and News before it.

**AssetPublication** models `publish_assets` with three jobs that share files and
directories.

**Provisioning** makes every command a process of its own: it reads a profile file,
copies it to a dated backup, empties it and writes it again, and may stop between any
two of these; accounts.json is read and replaced by `mail-config` and by the running
service, which know nothing of each other. The table is edited slot by slot as
`provision` does (prune, reject duplicates, adopt, update, create), and `TaskIssues`
and `AccountIssues` are the separate judgments of the preflight. Launchers own or
borrow the mail service. `raced` observes which files a process has written from an
older reading than the one it found.

**ContentServer** has the preflight, a later `serve` with the same arguments (or one
without a preflight), which loads the publications anew and repeats the checks in
places of its own (`LoadFaults`, `Faults`), what neither can know of (`Surroundings`:
a certificate without its key, a request log or listener that cannot be opened), and
the routing of `do_GET` over lists of manifests: the News snapshot, the guide
snapshot, handlers of their own, and live files by area. A path is a sequence of parts
with empty ones between repeated slashes and after a trailing one; requests lose them
(`Normalize`), declared routes keep them. A legacy update replaces one live file after
another, a publication switches a pointer, and the clock closes editions between any
two of these steps. A payload is the edition it was built from.

**InteractionStore** is one transaction per form, its failures before the commit and
after it, and the migration of a database of the earlier schema on first use.

**WeatherCapture** takes the four requests of a capture in turn while the provider
goes on publishing its two kinds of observations separately; responses may be late,
cut or absent, and the process may stop between any two files.

**ForecastBundle** writes, reads, signs and checks the pair of forecast files. A file
is a sequence of cells and an offset counts cells, so that shared names, six tables
and the reader's bounds keep their meaning without byte layouts.

**NewsBundle** does the same for News: the record writer, the inspector of one
snapshot, and the check that resolves references between slots.

**NintendoLz** steps through encoder and decoder of both formats, token by token, with
the source's constants as parameters. The decoder reads what the encoder wrote;
its refusals (`Reject`) are part of the model, and that none of them is reached is part
of `EncodedReadsBack`.

**NintendoTransfer** is the callback that copies chunks into the fixed buffer, the
poll that restarts a failed attempt once, and the conditions for handing over a list.

Two modules are suites of parts that share no state, where a behaviour is one of a
single part (`active`): **Parts** extends `ShopCatalog` and instantiates
`AreaRegistry`, `InteractionStore`, `WeatherCapture`, `ForecastBundle`, `NintendoLz`,
`NintendoTransfer` and `NewsBundle`; **Downloads** extends `Provisioning` and
instantiates `ContentServer`. A property of a suite is that of its part, when the part
is active.

`MC*` modules extend a module and give its constants their values. **MCParts** and
**MCDownloads** also let the parts that are not active rest in one of their initial
states (`RestingSpec`, which implies `SuiteSpec`), so that the states of the parts add
up instead of multiplying. For the same reason `RestingNext` explores the shop's pages
without artwork builds, which they do not meet, lets two builds meet one import only,
and makes a legacy update one to the second edition. The theorems are about
`SuiteSpec`, without these bounds.

## 3. Runs

| run | asks | bounds | distinct states |
|---|---|---|---|
| mail_recipients | nothing acknowledged is lost, quarantined corruption included, or held twice, and new mail changes the flag, with two recipients and two threads | 2 mailboxes, 1 mail sent 3 times to one, both or nobody known, recognised as corrupt when it is refused, with one other send then, 2 threads | 2.4 M |
| mail_batches | batches can be replayed whole, the files refine `MailQueue`, the lock always returns | 3 mails of 2 sizes, batch limit 2, 2 budgets | 397 k |
| console_transfer | replays are listed once, only a mistaken delete loses mail, all other mail that fits is announced and arrives | 4 mails of 3 sizes, batch limit 2, budget 3 (one mail exceeds it, two exceed it together), 2 posts, 2 faults, 1 late request, list of 2 | 172 k |
| console_registration | (violation) a registration retry is idempotent | no faults | 2.6 k |
| notice_outbox | marks mean stored, copies need a rollback, the outbox drains | 3 notices, worker and handler, 1 fault, 1 wait | 324 k |
| notice_retry | (violation) retries deliver once | 1 fault | 415 |
| challenge_race | one receipt per challenge, in its window, durable | 2 nonces, 2 threads, 4 calls, clock 0..3, one set-back | 457 k |
| shop_pages | (violation) an in-channel identifier names one product | 4 products, 2 imports | 266 |
| generations | the pointer names a whole, current edition; loads refine the register | 2 editions, 2 publishers, 1 server, 2 generations, clock 0..3, 1 damage | 563 k |
| asset_batches | sources hold, failed batches are undone, no circle of waits | 3 publishers, 3 jobs over 5 files in 3 directories | 220 k |
| separate_parts | eight parts, see below | see below | 509 k |
| downloads | a torn profile file has a backup; a configured console is known to its service; a prepared profile passes preflight and stays as it is when prepared again; a launched service outlives no console's need; serve refuses what preflight passed only for what has changed or was not looked at; a route, padded or not, gives its task's payload, from one edition | 2 commands run 2 times, 2 launches, 2 manifests over 3 slots, 2 tables, 2 seconds; 15 lists of manifests, 20 request paths, 2 editions, clock 0..3 | 637 k |

`separate_parts` asks of each of its parts:

| part | question | bounds |
|---|---|---|
| shop | `IdentityIsForever`, `CardsFitPages`: identities survive overlapping imports; cards fit pages when overlapping builds have ended | 4 products for 3 identities, 2 imports, pages of 2 rows; 2 builds, which meet one import |
| areas | `LossNeedsOverlap`: a saved code resolves to its town | 3 towns, 2 codes, 3 runs |
| receipts | `FirstReceiptAnswers`: every retry is told the first row, attempts add up | 2 forms, 2 handlers, 4 submissions, 3 earlier databases |
| weather | `RecordsAreOneMoment`: a record exists when the capture is complete, and is of one window and moment | clock 0..4, windows of 2, timeout 1 |
| forecast | `FileReadsBack`, `AcceptedPairIsUsable`: the reader finds what the builder laid out; an accepted pair can be shown | 24 catalogs, 5 weathers, 2 keys, clock 0..2 |
| compression | `EncodedReadsBack`: every payload decodes to itself | payloads of up to 9 of 2 bytes, window 3, 4 markers, 2 long codes, groups of 3 |
| transfer | `HandoffIsWhole`: the list decoder is given one whole body | 7 bodies, 3 CSData, buffer of 3 |
| News | `AcceptedBundleResolves`: every reference of an accepted bundle finds its target | 2 of 65 documents, 3 slots |

Why the bounds are enough for the questions: each is the smallest at which the case
that the property is about happens (two recipients for a partial send, three mails for
a batch that leaves one behind, two nonces for a retry, one more product or town than
there are numbers, three publishers for a circle of three, payloads longer than the
scaled window, a mail larger than the budget, a route that normalises to another's,
references past the last short code, a group of flags that is not full,
two snapshots of one timestamp), and each mutant, a bug of that kind, is found inside
it. Where a constant could matter beyond them the theorems below do not depend on it.
Symmetry is used for handler threads and callers only, and never in a run with a
liveness property.

`CHECK_DEADLOCK FALSE` stands where the bounds on calls, posts, ticks or runs let the
system come to rest; mail_recipients and mail_batches check for deadlock.

### Fairness

- `MailStore`: weak fairness of each busy handler thread's steps. A handler in Python
  always goes on; it waits for nothing but `_lock`, and its failure is a step of its
  own. Used by `LockIsReleased` only.
- `MailDelivery`: weak fairness of the KD scheduler's check (every minute), of the
  receive that follows it, of the service's handlers and of the console's next step.
  None for posts, faults, restarts, discards or friends. Faults are bounded: a network
  that fails for ever delivers nothing.
- `NoticeDispatch`: weak fairness of the worker's wake (`wait(5)` in its loop) and of
  threads with work. None for confirmations, registrations or faults.

### Findings

1. `console_registration`: a friend registration that is retried after its first copy
   was acknowledged is stored again (the digest key covers pending mail only), and the
   console that lists the first copy answers it with `WC24_ERR_BROKEN` and does not
   acknowledge the batch. mail.py:246 promises idempotent retries.
2. `notice_retry`: a notice whose transaction was rolled back after its storing, and
   whose copy was acknowledged meanwhile, is delivered twice. demae_handoff.py:120 and
   phone_handoff.md say the digest prevents it.
3. `shop_pages`: catalog_publication.md says returning products keep in-channel
   identifiers apart; the pages number rows by position and never read `movie_id`.

Behaviour that the passing properties state openly, because no text of the repository
promises otherwise: a delete that meets another batch of the same length loses mail
(`LossNeedsMistakenDelete`); mail that `send.cgi` accepts and that exceeds the
console's byte budget once its line ends and the multipart prefix are counted is never
delivered, and a receive that passes over it saves the flag that counts it
(`FlagNeverHidesMail`, `EveryMailArrives` except such mail); a payload quarantined as
corrupt is acknowledged, and a copy of it that a later, equal refusal opens and does
not finish stays cut (`AcknowledgedMailIsKept`); artwork builds of different catalogs
can leave a mix (`CardsFitPages` is of builds that read the served one); a notice to a
recipient unknown to the mail service keeps its whole outbox from draining, and a
database wait of more than ten seconds ends the
retry worker (`OutboxDrainsUnlessBlocked`); overlapping runs of the area tool can drop
saved codes (`LossNeedsOverlap`); commands that overlap on one profile file, or
`mail-config` beside a registering service, can undo each other's writes (the `raced`
exceptions of `TornFileHasABackup`, `ConfiguredConsoleIsKnown` and
`PreparedProfilePasses`); an adopted task keeps the native entry's type and flags, of
which preflight then complains (`Inherited`); a guide route of a numbered area, with
no snapshot loaded, is answered from a file that preflight did not look for, and a
task declared at a route with repeated or trailing slashes, which `load_manifest` and
preflight accept, is answered 404 or by the task of the normalised route
(`Reachable` in `PreflightedTaskIsServed`); and preflight, which is not told of TLS,
the request log and the listener, does not foresee their refusals
(`PreflightAgreesWithServe`).

## 4. Proofs

The theorems below hold for any constants that satisfy the named assumptions of the
modules, which TLC evaluates on every run. They cover every invariant, action property
and refinement that a passing run checks. In each module an inductive invariant is
proved with one lemma for each conjunct and one step for each action.

**MailStoreProofs**: `TypeCorrect`, `AcceptedMailIsKept`, `MailIsHeldOnce`,
`NewMailIsAnnounced`, `BatchIsReplayed`, `FilesImplementQueue`, `ClaimIsDetermined`,
`OperationsAreFinite`. That owed mail is pending is not inductive: a thread in the
middle of a send may find a duplicate that another thread's retirement is about to
unlink. `IInv` adds that the lock's holder alone is active (`LockHeld`), what each phase
implies about the request (`PhaseOK`), that a committed retirement holds all `.sent`
files of its mailbox (`RetireOK`), what the thread has established about its mailbox
(`WorkOK`), that recipients already served hold the mail (`ServedOK`), that refused mail
is in quarantine before it is answered (`KeptOK`), that flags carry old markers
(`FlagsOK`), and that claimed mails number at most the limit and fit a budget that
consoles ask for (`BatchWithinLimit`, `BatchFits`): a claim that is cut short leaves a
part of a batch that fits, and the sum of the sizes of a part is no more than that of
the whole. The refinement maps a mailbox to its live files; only `Publish`,
`RenameOne`, `AnswerReceive` and the commit of an intent are abstract steps, all others
stutter. `IsSelection` describes the loop of `claim` by what it selects;
`ClaimIsDetermined` shows that this is exactly one batch for any queue and budget, so
that a claim neither gets stuck nor has a choice that the code has not.
`OperationsAreFinite` is the part of `LockIsReleased` that needs no fairness: an
operation that has the lock is a number of recipients, phases and files from its end,
and each of its steps reduces that number.

**PublicationProofs**: `TypeCorrect`, `PublicationIsWhole`, `PublicationIsCurrent`,
`PublicationMovesForward`, `DirectoryImplementsRegister`. `PointerIsWhole` says
nothing of what a publisher is about to switch to, so `IInv` adds that every
generation with a name is whole (`GenerationsAreWhole`), what holds of a publisher's
private copy after its validation (`CopyOK`), that the lock's holder switches to the
latest generation (`TargetOK`), the order of steps of each channel (`ChannelOK`), and
what a server has read (`LoadOK`). The switch is the abstract publication; the read of
the pointer begins the abstract load.

**ChallengeStoreProofs**: `TypeCorrect`, `ReceiptIsSingle`, `AnswersSurvive`,
`ConsumptionIsInTime`, `RowsStay`. `OneReceipt` counts receipts that were returned;
between the commit and the return another caller must not commit. `IInv` adds which
call belongs to which phase (`JobOK`), that the row a transaction is about to write is
new, or is the verified row, still unconsumed, with a time inside its window
(`DraftOK`), and that a receipt about to be returned is the only one of its challenge
(`AnswerOK`). The clock appears in no conjunct: the theorems hold wherever it is set.

**AssetPublicationProofs**: `TypeCorrect`, `SourcesHoldStill`, `BatchesStayWhole`,
`NobodyWaitsForHimself`. A batch is torn while it is being written, so that it is whole
at other times needs to be known of what it would restore: `IInv` adds what each phase
has of its batch (`BatchOK`), that locks are held by batches that want them, in order,
and all of them before anything is written (`LocksOK`), that each output has the run
of the batch or its original (`ProgressOK`), that originals are whole (`OriginalsOK`)
and that files nobody writes are (`WholeOK`). Exclusion follows from the locks: two
batches that share an output share a directory. A circle of waiting publishers has one
that waits for the greatest directory; the holder of that one would have to wait for a
greater one.

**NoticeDispatchProofs**: `TypeCorrect`, `NothingForgotten`, `CopiesNeedRollbacks`.
That copies are counted by rollbacks must be known between the storing and the mark:
`IInv` adds that threads send inside write transactions only (`WriterOK`), what a
transaction has marked and has still to send (`RoundOK`), that what is marked was
stored (`StoredOK`), and that an unmarked notice was stored at most as often as a
transaction was undone (`UnmarkedOK`).

**MailDeliveryProofs**: `TypeCorrect`, `NoDuplicates`, `OnlyMistakesLose`,
`FlagShowsMail`. Batches are numbered by an observer. `IInv` adds what may be on the
wire in each phase (`PhaseOK`), that pending mail has distinct digests (`KeysOK`), that
the batch that the console was shown is the outstanding one until it is acknowledged,
with the rest of it still to be imported (`NumbersOK`, `ShownOK`), that a delete for it
follows the import of all of it (`DeletesOK`), and, for the flag, that one of the
current generation names all pending mail, and more than that as soon as a batch was
acknowledged (`CheckedOK`, `SavedOK`): the set of names only grows. `ServiceIsTheQueue`
shows that the service implements `MailQueue`, as the files of `MailStore` do, with a
batch that is closed as soon as it has a mail: what the console is composed with and
what the files are keep one promise.

**ProvisioningProofs**, the profile: `TypeCorrect`, `TornFilesCanBeRestored`,
`ConfiguredConsolesAreKnown`, `ServicesOutliveConsoles`, `ProvisionsConverge`,
`PreparedProfilesPass`. `IInv` adds what a command holds between two steps (`HeldOK`,
`CopyOK`, `CutOK`), that an undisturbed file is torn only by the one command about to
write it (`WriteOK`), and how configuration, credentials and accounts belong together
while they are being changed (`FitOK`, `KnownOK`, `CredentialsOK`); each is claimed of
files that no command wrote from an older reading. `PreparedProfilesPass` adds `PassOK`
and assumes that no two manifests name the same file of one title (`ManifestsApart`):
such manifests take the entry from each other. The server: `PreflightIsEnough`,
`PreparedTasksAreServed`, `AnswersAreOfOneEdition`. Time passes and files change
between preflight, `serve`, its checks and each request, so `ServerInv` says what stays
true from stage to stage: that no step of an update or publication takes a file away
(`FilesOK`), and that what preflight found of the lists, with whichever editions are
loaded later, is found again (`Vetted`, `StagesOK`); only whether the publications are
loaded matters to the checks, not which editions they are (`VettedAnew`).

**PartsProofs**: the shop: `TypeCorrect`, `IdentitiesStay`, `ArtworkFits`. `IInv` adds
that the importer who has read the catalog holds its lock and nobody writes it in
between (`LockOK`), that numbers are below the high-water mark and belong to one
product each (`Sound`), that a build writes the file it has next (`WritingOK`), and, of
the builds that overlap and read one document, that each file shows the product of its
row, or is open, or is still to be written by each of them that has not finished
(`RoundOK`). Area codes: `LossNeedsTwoRuns`. Weather: `WeatherIsOfOneMoment`, from what
a capture has stored before each request (`CaptureInv`). Receipts: `FormsAreCounted`,
from who leads the rows of a form (`MarkedLead`), what was answered (`AnswersOK`) and
what the attempts add up to (`CountOK`), the migration of an earlier database
included. Lists: `ListsAreWhole`; what was copied and what is still to come are the
body, as long as no chunk was refused (`UnderWay`, `Done`, `PollOK`). Forecast:
`ForecastReadsBack`, `AcceptedPairsAreUsable`. `ForecastInv` says that a file is what
its builder made of its remembered input and that an accepted pair would be accepted
again, for signed files do not change; that the reader finds what the builder laid out
(`FullIsRead`) is proved from where each text and each section lies in the file
(`Lies`), for names in the shared pool too (`PoolFacts`). Compression:
`CompressionReadsBack`. The decoder's state has to be related to everything that the
encoder did; `LzInv` says that there is a place in the payload before each cell of the
output (`Places`), that each cell makes the bytes from its place to the next one
(`CellOK`) as its group announced it (`GroupOK`), and that cursor, output and group of
the decoder are those of one place (`Decoding`). No match that the search finds reaches
before the payload, and one that runs into its own copy repeats what the payload
repeats (`Repeats`). News: `AcceptedBundlesResolve`.
`NewsInv` says that each build is the encoding of its document and that the slots of an
accepted bundle would be accepted again; that links, titles and images are read back
as written is proved from where the pieces lie behind the tables (`BlobLies`,
`SnapshotIsRead`), that an identity names one article from the inspector's count of
them, and that every slot of a timestamp will do from the bundle's refusal of ambiguous
ones (`LinkIsResolved`, `PictureIsResolved`).

Sums, joined sequences and the pool of names are defined by recursive functions and
folds. The induction theorems of the library take an operator and cannot be used here;
the lemmas about them (`SizeOfMore`, `AttemptsMore`, `PortionOfTail`, `FoldExists`,
`JoinsExist`, `TextsLie`, `PartsLie`, `PairsAreJoined`) take instead the least number,
or the smallest set, for which the fact fails. `PartSteps` and `ServerSteps` reduce a
step of a suite to one of its part; the theorems are about `SuiteSpec`, which leaves the
parts independent.

`TypeCorrect` of each module, `PublicationMovesForward`, `RowsStay`,
`ClaimIsDetermined`, `OperationsAreFinite` and `ServiceIsTheQueue` are proved only; no
run checks them again.

Only model-checked is liveness: `LockIsReleased`, `EveryMailArrives` and
`OutboxDrainsUnlessBlocked`. What holds under fairness is outside the prover's reach.

## 5. Assumptions and limits

- `os.replace`, `unlink` and the rename of a directory are atomic and take effect in
  order for a process that stops. Lost writes after a power failure are modelled in
  `Publication` only (`Damage`): files are written with fsync before they take their
  names, directories are not synchronised.
- The operating system gives a directory lock back when its holder ends.
- SQLite: `BEGIN IMMEDIATE` admits one writer, a commit is atomic, an open transaction
  of a stopped process is rolled back.
- The clock moves forward in `Publication`, both ways in `ChallengeStore`.
- A send request of `MailStore` carries one payload; the code stores or refuses those
  of one request one after the other and answers them together. The name of a
  quarantined file stands for its sender and digest.
- The image of a product is the same whenever it is fetched, so that two builds of one
  catalog write the same bytes; a file that one has written where another's longer one
  was can hold a mix of both and counts as showing nothing.
- One process serves a mail store. The second writer of accounts.json, `mail-config`
  (`jwc24/__main__.py:124`), is modelled in `Provisioning`, where mail itself is left
  out, and excluded in `MailStore`.
- The lock of `MailStore` excludes handlers of one process, SQLite's transactions
  those of several.
- Message digests, nonces and proofs of possession are ideal: equal names are equal
  mails, a proof is valid or not.

- Byte layouts are abstracted to cells (a header, an entry, a character), so that
  offsets, bounds and sharing are kept while field widths and checksums are not.
  Encryption, signatures and TLS are ideal: a file carries the key that signed it.
- `ForecastBundle` has six of the seven tables of a forecast file: the pollen table has
  the form of the others, as the country's text has that of the other texts. It counts
  offsets in cells, so that a wrong stride or padding of a row cannot be seen, and leaves
  out the comparison of locales (forecast_bundle.py:97): it accepts more pairs than the
  code, and what holds of them holds of those that the code accepts.
- Texts hold no terminator (`CatalogAssumption`): the builder of the forecast file does
  not refuse U+0000 inside a name, which its reader would take for the end.
- `AssetPublication` assumes finitely many files and distinct outputs of a job;
  `Provisioning` manifests that `load_manifest` accepts (`ManifestAssumption`);
  `ShopCatalog` searches without repetition; `Parts` that News documents have the fields
  and sequences that the encoder admits (`NewsAssumption`), and that the compression has
  a window, at least two markers and a code for longer lengths
  (`CompressionAssumption`); the others only that markers such as `None` are no values,
  and that bounds are numbers.
- The constants of the compression (a window of 4096, classes of lengths from 17 and
  273) are scaled down with every comparison kept; the code computes with unbounded
  integers.

## 6. Not modelled, and why

- **Demae directory, menus, archive** (`demae_directory.py`, `demae_menu*.py`,
  `demae_towns.py`, postal tools): parsers and lookups over static catalogs. One
  process writes each file, by atomic replacement; the image store compares hashes of
  what it reads while a batch replaces both, so a mix is refused.
- **Demae native responses, CMOC message inspection and gate, Body check**: each is a
  function of its arguments that keeps nothing between calls; a model would repeat its
  conditions.
- **Wii Shop registration and device status**: planners over states that no process of
  the repository keeps; the cryptography of a challenge is a Boolean in
  `ChallengeStore`.
- **Wii Shop preview**: read-only routes over packs verified when they are loaded.
- **Forecast index policy and freshness, News locations, headlines and pictures, the
  tables of the Nintendo Channel** (`nintendo_listdata.py`, `nintendo_csdata.py`):
  single checks of one buffer, or tables of the same form as those that are modelled.
- **Theatre, room and Mii pages of `wii_no_ma.py`**: static files.
- **Pages, wording, MIME, cryptography, field offsets**: data, not control.
- **Tools that verify, inspect, audit or patch**: they run native code or read files
  by hand and change no state of the services. They are the greater part of the
  repository's lines.
- **Tests and vendored code** (`mobipeg-gui`).

What would extend the project next: models of the forecast index policy and of the
tables of the Nintendo Channel.

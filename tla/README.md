# Vault Unified: specification and verification

TLA+ models of the parts of Vault Unified whose correctness depends on order:
crashes between file-system operations, remote calls with an unknown outcome,
computers that synchronize without a server, vaults that are locked while
something else is under way, and approvals that are used after what they
approved has changed. The Python code under `src/src/vault_unified` is the
reference. `PROJECT.json` maps every definition to the lines it models.

Contents: [the system](#the-system), [modules](#modules-and-how-they-read-the-code),
[runs](#runs), [fairness](#fairness), [proofs](#proofs),
[what the models showed](#what-the-models-showed),
[what is not modelled](#what-is-not-modelled).

## The system

One desktop process (a Tauri shell with a web view) starts one Python API
process. The API opens an encrypted vault file, keeps the unlocked vault in a
session and serves the desktop UI, a browser extension and two kinds of
synchronization; a CLI opens the same vault file from a process of its own.
FastAPI runs the handlers in a thread pool, so two handlers interleave wherever
no lock is held.

| Component | State | Operations | What makes it correct |
| --- | --- | --- | --- |
| Atomic storage (`storage.py`) | live file, lock file, and per transaction a temporary file, backup, journal | `atomic_write_bytes`, `recover_atomic_file`, `quarantine_stale_lock` | one writer at a time; a call takes effect at one instant, on the version it was built from; a crash anywhere is recoverable |
| Vault file and device keyring (`v3_crypto.py`, `crypto.py`, `device_keyring.py`) | the container with its key slots; device keys and rollback anchor in the credential store | create, open, save, upgrade, enrol, remove, rotate, enable and disable device unlock and the anchor | file and credential store never contradict each other after a crash; what was withdrawn opens nothing |
| Migration (`migration.py`) | receipt, legacy copy, candidate | apply, resume, roll back | the evidence stays; what stopped is finished; a migrated vault can return |
| Local vault (`local_store.py`, `models.py`) | entries, metadata, generation, digest on disk | edit, trash, delete, whole-payload commits | a commit built from an old version is refused, and a refused one leaves no trace |
| Backups, restore, import, merge, upgrade (`backup_manager.py`, `restore_preview.py`, `import_flow.py`, `duplicate_merge.py`, `organization.py`, the routes) | one-shot approvals bound to what was shown; backups and their catalog; receipts | preview, apply, undo, clean up, pin, manual copies and kits | what is applied is what was approved, once; no unseen edit is lost |
| External sync saga (`sync/engine.py`, `ledger.py`) | per entry a ledger: base, acknowledged revision and pending operation of each replica, conflicts, tombstone | pull, push, delete, resolve, abandon, purge | no blind repetition of a create, no lost edit, no clean entry that is not synced |
| Sync preview (`sync/preview.py`, `api/routes/sync.py`, `sync_prefs.py`) | one-shot intents with a fingerprint and a plan digest | preview, execute, preferences | only what was shown is replaced |
| Personal computer sync (`personal_sync/`) | per device: sequence number, version vectors, baseline, outbox, conflicts, tombstones, members; a folder of immutable records | start, join, run, resolve | nothing lost, the computers agree in the end, no edit silently overwritten |
| Sessions (`session.py`) | table of sessions, epoch, blocked flag | unlock, lock, lock_all, Windows lock/suspend, renderer replacement, idle expiry | no vault open while Windows is locked; a slow unlock does not outlive a lock |
| Browser connection approval (`browser_connect.py`, `browser_trust.py`) | request records; device records and their index in the credential store | request, approve, deny, poll with its claim, revoke | a device only by the right code at the first try; the browser is told what is true of its device |
| Passkey requests (`passkey_requests.py`, `passkeys.py`) | pending requests, remembered cancellations | begin, status, cancel, approve, reject | one approval per request; none after a cancel, lock or edit |
| Encrypted sharing (`sharing/`) | the service's rows of shares, family, invitations, join requests, nonces; each desktop's outbox and copy of the family | create, read, revoke; invite, accept, approve, remove, write; retry, refresh, discard | view limits and revocations hold under retries; the family document loses nothing and is read by members only |
| Browser pairing and fills, source adapters, Hello, formats, health, codes, generator, clipboard, CLI, routes, UI, shell, scripts | none that outlives a call, or one record under one lock | pure functions, look-ups, I/O | tested directly |

How they meet. Every durable write of a vault goes through `atomic_write_bytes`
with the digest it was built from, so **storage** is a compare-and-swap register
for everything above it: the other modules use the vault file as `ManagedFile`
promises it. **Both synchronizations** and the **desktop's sharing state** live
inside the vault payload and are committed together with the entries, under the
vault's generation. **Sessions** own the unlocked vaults; when one goes, the
session manager calls, with its guard held, the hooks of the connection requests
(`retain`), of the passkey requests (`clear`) and of the personal-sync
connections. The lock order is session, request, vault.

What is hard here: a process that dies between two file-system operations
(Windows' `ReplaceFileW` is two steps); a file and a credential store that are
written one after the other; a remote call that took effect and whose answer was
lost; a request that reaches the service long after a later one; records that
arrive in any order; a lock event in the second that a key derivation takes;
checks made in one critical section and used in another. `PROJECT.json` lists
these hazards by line, with the properties that would catch each one going wrong.

## Modules and how they read the code

**ManagedFile** is the abstract promise of storage: a register with `Request`,
`Install`, `Answer`. A call takes effect at one instant, only on the version it
was built from, and `ok` means that it did.

**AtomicStorage** is `storage.py`, one action per file-system operation. `W` is
the set of calls of `atomic_write_bytes`, each with its own transaction id, so
that temporary file, backup and journal are functions on `W`; `R` are processes
that run `recover_atomic_file`. Contents are members of `Data` (they validate),
`Bad` or `Absent`. `pc` follows a call through its try block, `Fault` is any
operation that raises followed by the handler, `LockFails` the same inside
`__enter__` of the lock, which unlinks the lock path or leaves its lock behind,
`Crash` the death of the process anywhere. `Inspect` is `inspect_recovery` with `_candidate_matches`.
`_sync_directory` follows each operation on POSIX and does nothing on Windows:
there the model speaks of process death only, and on POSIX of power failure too.
With `Windows` the live file is moved aside before the new one takes its place.
`QuarantineLive` lets an operator move away the lock of a call that still runs;
`Interference` is what other programs leave at the live path.

**VaultFile** is the vault container, its slots, the device keys and the anchor.
Encryption is what it binds: a wrapped data key opens with the credential that
wrapped it and only under the header fields of its associated data, and so does
the ciphertext; a nonce makes every file another one. Each process runs one
operation at a time; reading, the compare-and-swap and every call to the
credential store are steps of their own. `enable_device_unlock` that finds a slot
loads its key and reports success (`LoadDeviceKey`). The credential store may
refuse (`KeyringFails`), a replacement may raise after it took effect
(`LateFailure`), and the deletion of the new key that follows (`DeleteOrphan`) is
a later step, so that others use the slot in between. A process may die anywhere,
and an older version of the file may be put back.

**Migration** is `apply`, `resume` and `rollback` of `migration.py`: every write
of the legacy copy, the candidate, the live file and the receipt is a step, a
process keeps in memory the receipt it read, two processes may work on one
receipt, and another program may edit the vault. `inspect_v3_migration` is the
dry run.

**ReviewedChanges** is everything the owner approves before it is applied.
`approvals` are the one-shot previews of the routes, `request` a worker thread
between its critical sections, `session` the `LocalVault` of an unlock with its
entries in memory, `backups` the copies with the bytes they have now. The
content of the vault is, per entry, the change that wrote it last. A deletion is
what the route does: `delete_entry` resolves the object, `replace_entry` puts it
back with its history, `MarkDeleted` marks what is in memory then, and a second
`replace_entry` saves that, with other requests between any two of them.

**SyncEngine** is `sync/engine.py` with `sync/ledger.py`: one entry, the sources
`S`, and for each source what the ledger remembers (`base`, `acked`, `pending`,
`linked`, `conflict`). The engine works under the vault lock, so there is one
operation at a time; a push is cut where the code calls out or saves (`PushBegin`,
`Reconcile`, `Intent`, `CallUpdate`/`CallCreate`/`CallDelete`, `Link`,
`Acknowledge`, `Confirm`, `Finish`), because a crash (`Crash`) or a lost answer
(`CallFails`) matters there. `entry` is memory with the engine's conflicts,
`saved` the vault file with the conflicts embedded last: `Save` is
`replace_entry`, `Persist` is `_persist_conflicts`. What an adapter can do is
three constants (`IdempotentCreate`, `DeleteConfirm`, `AbsenceIsDelete`).

The user does not wait for the engine. A save is `Prepare` (a copy of the entry
with the ledger of that moment, made at any time, also while a push is under way)
and `Commit` (under the lock, refused only when `updated_at` is another:
`Redated`). A deletion is `MarkDeleted` (on the entry itself, at any time) and
`SaveMark`; or `Hold` and `PutBack`, when a commit has meanwhile put other objects
in the place of the one that it resolved. A push decides at its start whether it
deletes (`deleting`). `forgotten` is history and read by no action: the sources
of which such a copy took a link, a pending operation or a conflict back, or which
were linked after the deletion was marked. The properties of a create, a purge
and an open conflict are about all other sources.

**SyncPreview** extends it with the way the desktop drives the saga: `Issue`
files a preview as an intent, `Expire` and `Consume` end it, `Recheck` plans
again, `Lock` takes the vault lock, `ExecutePull` and `ExecutePush` are the
engine's operations in the plan's order, `Executed` ends it. `Handler` is what
other requests do to the vault while no plan holds its lock, `Unlocked` what they
do before they ask for it, `Elsewhere` a
device that changes a source, and `Die` loses intents, which are in memory.

**PersonalSync** is `personal_sync/`: `queue`, `receive` and `reconcile` are
operators with the code's names. `queue` numbers all changes at once, each by its
place among them; `receive` goes through a listing as the code's two loops do,
one record after the other in the order of names, in passes, until none is
ready. A run is `Begin` (queue and commit), a `Put` per
outbox record, and `Finish` (download, receive, commit, refused when the vault
changed); `Interrupted` stops it anywhere. A listing may be partial. An entry is
its fields and its state (active, trash, deleted).

**SessionManager** is `session.py`. Every method holds the manager's guard and is
one action; an unlock is `BeginUnlock` and `Register`/`UnlockFails`, for the key
derivation between them holds nothing. It has no specification of its own: the
modules that extend it conjoin their hook to `Locking`.

**BrowserConnect** extends it with the requests and devices of
`browser_connect.py` and `browser_trust.py`. A request is filed in three steps
(`Ask`, `Count`, `FileConnection`) as the code looks at sessions, devices and requests in
turn. The poll that finds an approved request becomes its claim: `ClaimCheck`,
`Enroll`, `Recheck`, `Undo` or `Publish`, with no lock between them. `Retain` is
the session manager's hook. Deadlines (`ExpireConnection`, `Forget`) may pass at any time,
and the browser's rate limit or refusal minute refuses at any time (`Refuse`).

**PasskeyRequests** extends it with `passkey_requests.py`. `Begin`/`File` and
`StatusCheck`/`StatusReturn` are split where the code leaves its lock. A thread
in `approve` goes `Approve`, `Take`, `Snapshot`, `VerifyWrong` or `VerifyRight`,
`BrowserCheck`, one of `Refused`, `Exclude`, `CommitCreate`, `CommitGet` (under
the three guards), and `Release`, the `finally` clause. A request is identified
by its identity and the number of the begin that filed it, as the code compares
objects and not names. Clearing is `Clear` for one session and `ClearAll`, which
forgets cancellations too.

**Sharing** is both ends of `sharing/`: `share`, `fam`, `invites`, `pending` are
the service's tables, and each request is one transaction there; `desk` is the
sharing state in each person's vault with its outbox. A request in `call` is
answered, lost, or left in `flight` when its desktop stops waiting, from where it
may be served later, once, since its nonce is spent then. `verify_family` is
what a desktop accepts as the family: who signed, whose key, which epoch.

The `MC*` modules give TLC symmetry sets and constants; `*Proofs` modules hold
the theorems.

## Runs

| Run | What it asks | Instance | Size |
| --- | --- | --- | --- |
| `storage_windows` | the live file stays within the journalled pair, journals stay while they are needed, and `AtomicStorage` implements `ManagedFile` | Windows; two calls of any mode, three contents, one recoverer, one failure of it | 637,954 states, 30 s |
| `storage_slow_owner` | even with an operator who quarantines a running call's lock and a program that damages the file, this code never replaces a whole version by a partial one | POSIX; one call, one recoverer, one interference | 20,713 states, 2 s |
| `vault_file` | no false rollback alarm, an enabled device opens, a withdrawn credential does not | two processes, four operations, four fresh values, one restored copy, refusing credential store, late failures | 373,325 states, 1:20 |
| `migration` | the evidence stays, a migrated vault can return, what the dry run offers to finish is finished | two processes, two migrations, one edit, one stop, one rollback | 280,868 states, 1:15 |
| `reviewed` | no unseen edit is lost, only what was shown is applied or deleted, a refused save leaves no trace | two sessions, two threads, two entries, five fresh ids, two requests besides the applications | 271,981 states, 25 s |
| `sync` | clean means synced, no duplicate create, purge is complete, pulls keep edits, only shown versions are replaced | through the command line or previews; two sources that confirm deletions, one preview, every resolution, a deletion, and two of: a prepared save or a deletion that holds a copy, one remote edit, one failure | 1,722,338 states, 1:45 |
| `sync_live` | an interrupted operation whose outcome can be told is completed | one source that confirms deletions and whose complete listings prove them, every resolution, a deletion, and three of: two saves or copies held, one remote edit, two failures | 385,455 states, 1:10 |
| `personal` | nothing lost, truthful acknowledgements, convergence, no blind overwrite | two computers, an entry held by one, three edits or deletions | 686,338 states, 1:35 |
| `personal_conflicts` | conflicts stay until somebody who knew them decides; a deletion that was taken up is not undone by an old record | two computers with copies of one vault, two edits or deletions, one resolution | 704,101 states, 1:25 |
| `connect` | the session table, chosen devices, truthful answers | two unlocks, two vaults, two requests with two keys, two lock events, room for one request and one device | 2,139,292 states, 1:30 |
| `passkeys` | one approval per call, none after an end, no lost edit, lock-out, results only while unlocked | two approving threads, one identity begun twice, one edit, one lock event, two wrong passwords | 2,332,539 states, 2:15 |
| `sharing` | view limits, revocations, no lost edit of the family document, its readers, truthful completion | the owner and one more, one share of one view, two threads, three fresh values, two repetitions | 284,349 states, 43 s |

Why the bounds are enough to be interesting. Two writers are what a mutual
exclusion, a second journal or a lost update takes, and the third content
tells "the other call's version" from "the old one". Storage calls do not come
back, so a run covers every pair of concurrent or consecutive calls. Four
operations on the vault file allow a credential to be added, to be used by one
process while the other withdraws it, and a write that comes after. Two
migrations are needed for a receipt that another migration has made obsolete.
Two sessions and two threads let an application be overtaken by an edit in its
own session and in another one. One entry is enough for the saga because the
engine never relates two entries (an unlinked remote object that becomes a
second entry is left out); two sources are needed for the tombstone and for an
entry that is copied on. `MaxEvents` bounds saves, remote edits and failures
together: two of them are what it takes to lose an answer and then be edited, or to
commit a stale copy over a push that failed, and every pair is covered; marking a
deletion costs none. Two computers are the smallest number that diverges;
three values keep the two sides of a conflict apart from its base, and a third
edit lets one side change its mind while the other's change is on its way. Two unlocks
and two lock events allow a lock and an unlock in the middle of a slow
operation. Room for one request and one device is what lets two checks race for
the last place. One passkey identity begun twice is what lets a late
cancellation, a retry and a successor meet. One share of one view and a request
that is sent again is what lets a repetition reset a count; the same instance
with three repetitions was explored once (4.2 million states) with no violation.
Symmetry is used only for invariants and action properties over sets whose
members the modules never compare or order; the liveness runs use none.

Every property of a run has a mutant in `PROJECT.json`: a definition changed as
a plausible bug would (a dropped check, a missing reset, a swapped order), named
`Definition_What` next to the original, under which TLC finds the property
violated.

Checked by TLC during development and not repeated by a run: the type invariants
(`TypeOK` of each module that states one), `AckedKept`, `MutualExclusion` and
`OneJournal` of storage, `CausallyClosed` of
personal sync, `BlockedMeansLocked`, `WithinLimits` and `ClaimingIsServed` of
the connections, `VerifyingIsHeld` of the passkeys, `ContentKept` of the
migration and `EditsKept` of the vault file. Several of them are theorems. The inductive
invariants of the proofs were checked the same way before they were proved.

`CHECK_DEADLOCK FALSE` is set everywhere because the systems do stop: calls
end, budgets of edits, operations and lock events run out.

## Fairness

Safety runs assume none. `SyncEngine!FairSpec` assumes that a push that began is
carried on and that the user runs `push_all_dirty` again and again, strongly
fair because a pull or a resolution may get in its way; it says nothing of
pulls, and failures are bounded, since a source that is down for ever proves
nothing. `Migration!FairSpec` assumes that a command that runs goes on to its
end (no step of it waits for anybody) and that the owner runs `resume` on a
receipt again and again, which is what the dry run's report asks for; it is
strong because a second command may hold the receipt's place meanwhile. Stops
are bounded. The other modules claim no liveness: what must not get stuck there
is stated as an invariant (`ClaimingIsServed`, `VerifyingIsHeld`).

## Proofs

Checked by TLAPS for every value of the constants that satisfies the named
assumptions. Those assumptions are the shape of the parameters (distinct model
values, naturals), nothing about behaviour, except where said below.

*AtomicStorageProofs*, for any number of calls, recoverers, crashes and contents,
on POSIX and on Windows:

- `TypeCorrect`: `TypeInv`, which adds to `TypeOK` that a recovery beyond its
  planning has a target. Every other proof rests on it.
- `LockIsExclusive`: `MutualExclusion` is not inductive, because it says nothing
  of the lock file. `LockInv` is: whoever is between taking and releasing the
  lock owns the file. One lemma, `LockStep`.
- `JournalIsUnique`: `OneJournal`, from `LockInv` and `JournalInv` (a call past
  `require_clean_storage` sees no journal but its own).
- `LiveFailsClosed`: `FailClosed` as an action property, from `CandidateInv`:
  what is on its way to the live path is one of the two journalled versions.
- `JournalsAreKept` (`JournalOutlivesDanger`), from `ProtocolInv`: what each call
  and each recovery knows of the live file at its place in the protocol, and
  that a journal whose owner is gone can still be recovered.
- `AcknowledgedIsKept`: what was reported as saved is the live file or the
  backup of a later call.
- `WholeFilesOnly` (`NeverTorn`), from `WholeInv`: a temporary file on its way to
  the live path is whole. It needs no assumption about locks.
- `RegisterImplemented`: the refinement, `Spec => ImplementsRegister`. Every
  step but the one that moves the file into place, the answer and the request
  is a stutter of the register.

The lock results and `LiveFailsClosed` assume locks are honoured
(`~QuarantineLive`), the journal's and `AcknowledgedIsKept` also that no other
program writes the file, as the properties themselves say. `RegisterImplemented`
assumes both of the constants (`Honoured`: `~QuarantineLive` and
`MaxInterference = 0`): a register that others write behind its back is none.

*SyncProofs*, first the engine alone, for any number of sources, contents, edits, failures and
crashes and for every choice of what the sources can do: `TypeCorrect`,
`CleanIsSynced`, `CreatesAreNotRepeated`, `PullsKeepEdits`, `PurgeIsComplete`.
`CleanMeansSynced` and `NoDuplicateCreate` speak of `entry`, but a crash brings
back `saved`, so `Inv` says the same of both copies: `Sound` = `Founded` (what
each field of the ledger stands for), `Settled` (what a status promises) and
`Knows` (a conflict is about a linked object), with `PushInv` for the push under
way, `Filed` (in what the file is behind the memory) and `Copied`: a copy that a
request holds was sound once, of sources where nothing had been created or
acknowledged yet. All of these say nothing of the sources in `forgotten`, and
`ReplaceStep` shows that this is the whole damage that a stale copy can do: put in
the entry's place, it is sound for every source of which it takes nothing back.
One lemma per operator of the ledger shows that it keeps a copy sound, and one per
action that the step does.

Its second part carries these over to previews: `PreviewSteps` shows that a step of
`SyncPreview` is a step of the engine or a listing, so that the same invariant
holds and `CleanIsSyncedThroughPreviews`, `CreatesAreNotRepeatedThroughPreviews`,
`PullsKeepEditsThroughPreviews` and `PurgeIsCompleteThroughPreviews` follow.
`OnlyShownIsReplaced` needs `JobInv`: from the second plan on, an execution
knows of each selected source what it holds, or that it could not be read, or
that it changed since. `IntentInv` is the form of an intent.

*BrowserRequestsProofs*, first the connections (`ConnectSpec`), for any number of unlocks,
vaults, requests, keys, lock events and for any limits:

- `SessionsSafe`: a blocked Windows session has no open vault and an interrupted
  unlock opens none. The strengthening is `Outdated`: an interrupted unlock that
  is still under way began in an older epoch, which is what registration compares.
  `SessionStep` is about the session manager's steps alone and is reused by
  any module that extends it.
- `DevicesAreChosen` and `ClaimsAreServed`: from `ChoiceInv`. What is undecided
  carries no choice and no claim; what is approved, claimed or enrolled was
  chosen; a request in `claiming` has its claim under way.
- `HandedOverIsEnrolled`: from `HandoverInv`; a claim that has enrolled its
  device and not ended has told nobody yet. Nothing is assumed of `IndexFails`:
  a device that its own claim takes back with a revocation that deletes the record
  and fails on the index is in `torn`, the property's one exception (below).
- `RefusedHoldsNothing`: from `SettledInv`; a device belongs to a request that is
  enrolled or whose claim is still under way, and no claim revives a refusal.
- `LimitsHold`: the first check is repeated under the lock that files, so that
  devices and open requests stay finite sets within their limits.

Its other part is about passkeys (`Spec`), for any number of browsers, identities, approvals,
begins, sessions and lock events. `RequestInv` says of every request and of
every thread in `approve` what they owe each other: `Numbered` (a request in the
table comes from a begin that is over), `Once` (what was approved
is decided for good), `Attempted` (wrong passwords end it),
`Reached` (a cancellation reaches its call, also before that has filed),
`Completed` (a result has its session), `Taken` (one thread at a time holds a
request, and only it can wear it out). From it:
`OneApproval`, `LockoutIsFinal`, `ResultsEndWithSession`, `OnlyStandingApproved`.
`EditsKept` rests on `EditInv`: a snapshot of the vault's present generation is
the vault (`Captured`), and every edit made is in it (`Kept`).

*PersonalSyncProofs*, for any number of computers, entries, fields, edits and
resolutions and for every listing. The invariant `Safe` is a predicate of all
replicas and the storage, not of the variables, because joining queues and
receives in one step. It says that every number belongs to one record, which
its author knows as its own (`Numbered`, `Own`), that each number given is
somewhere (`Kept`), that nobody has seen what was not written, or is believed to
(`Behind`, `Truthful`), and what a receive relies on (`Informed`): what was taken
up was understood (`Understood`), its authors have announced themselves, and a
device's own records wait in its outbox until it sees them. `QueuedIsSafe`,
`PutIsSafe` and `ReceivedIsSafe` keep it.

A receive takes up as many records as a listing has, in an order the listing
decides, so nothing about it follows from its definition alone.
`ReceiveEnds` is the rule used instead: a set of working copies
that holds the first one, and that taking up a record does not leave, holds the
result. (That the function which `receive` defines exists is `Stages`, by
way of the least number without a chain of copies of that length.) `ReceiveKeeps`
applies it to the copies that have moved as a receive may (`Moved`) and still give
the user what is owed (`Owed`): what was replaced, brought back or settled on the
way was so by a record that knew of it. Both compare a copy with the one that the
receive began with, not with the one before it.

- `NothingIsLost`, `AcknowledgementsAreTrue`, `SeenInCausalOrder`
  (`CausallyClosed`) are parts of `Safe`.
- `ReceiveNeverFails`: no listing meets one of `receive`'s refusals, so that a
  synchronization that fails points to another program or a vault put back.
- `DeletedStaysDeleted` (`NoRevival`), `EditsAreKept` (`EditsNotOverwritten`),
  `ConflictsAreKept` (`ConflictsStay`): from `Owed`, with the lemma that only a
  receive changes what a device has seen.

*MigrationProofs*, for any number of processes, migrations, edits and stops:
`EvidenceIsKept`, `ReturnIsPossible`, `EditsSurvive` (`ContentKept`: no step but
an edit changes what the vault holds). `EvidenceStays` is about receipts on
disk, but a process writes the receipt it has in memory over whatever is there;
`EvidenceInv` therefore says the same of every receipt in memory.

*VaultFileProofs*, for any number of processes, calls, files put back and
failing writes and credential stores. `TypeInv` gives every file the form that
`v3_crypto` builds; `Began` says what a call knows when it starts, `Effect` what
each step does, and the three invariants are proved from those two:

- `NoFalseAccusation` (`NoFalseAlarm`), from `AnchorInv`: until somebody puts an
  older version back, the file of an anchor, and of every check or anchoring
  under way, is the live one or one that it descends from.
- `EnrolledDeviceOpens` and `WithdrawnStaysOut`, from `CredInv`: which credentials
  the live file, the copy and every frame on its way there have a slot for. A call
  that is about to delete the key it stored (`Orphan`) has a slot that the file does
  not have and never will, or one in `raised`, the exception of `EnabledOpens`.
- `NoEditIsLost` (`EditsKept`), from `EditInv`: a frame that passes the
  compare-and-swap holds every edit of the file it replaces.

*SharingProofs*, for any number of people, shares, threads, repetitions and late
requests: `ViewsAreLimited` (from the service's rows alone), `RevocationIsFinal`,
`DocumentOnlyGrows`, `MembersOnlyRead` and `ReportedWasAccepted`. All but the
first need what travels. `Based` says that every proposal, in an outbox, in a
thread or in flight, was made from the family as it is or from an earlier
revision (`Made`); that one of the present revision contains its document; and
that one which removes a member brings a key that nobody has held (`Held`).
`Copied` says the same of every copy of the family, `Members` is who belongs to
it and who is about to. For the last theorem, `AckInv` adds that what the family
and its invitations carry the numbers of was accepted, so that a conflict taken
for a repetition (`matches`) is one.

*ReviewedChangesProofs*, for any number of unlocks, worker threads, accounts,
backups, refused saves and overwritten files: `RefusalsStayOut`,
`NoUnseenEditIsLost` (`EditsKept`), `OnlyTheShownIsApplied` (`AppliedAsShown`) and
`CleanupDeletesTheShown`. All rest on what an id names. `Pictured`: of all images
of the vault, on disk, in a backup, in an approval or in a request that may put
one in place, two with the same id are the same, and none holds a refused
change. `Fit`: a session knows what the file with its revision holds, but for
deletion marks, so that compare-and-swap is about content. `Exact` and
`Upgrading`: an upgrade was approved for the content of the file with the id it
names, and its session does not change while it is on its way. The lemma `Holds`
is the frame: a step keeps the invariant if all that is new in it is in order.
`NoUnseenEditIsLost` bounds what a deletion overwrites unseen to the entry it
deletes, in the content of its own session (`Deleting`).

Where a property and the run that checks it differ: `FailClosed` is checked on
Windows and proved for both systems; `sync` leaves `AbsenceIsDelete` empty
because no adapter shipped with the program sets it (its tests do), `sync_live`
and the theorems cover it. In `sync` both sources confirm deletions by read-back,
which makes them interchangeable; the same instance with one of two confirming
(3.6 million states) and with none (1.9 million) was explored once with no
violation, and the theorems leave the set open.

Only model-checked: `Converged` and the liveness properties `Finishes` and
`PendingClears`. `Converged` is not true for every value of the constants: it
fails when both computers start from copies and when two resolutions cross (next
section), so `personal` checks it for one holder and no resolution. For those
constants it relates the values that an entry had on both computers, one change
after the other; an invariant would have to carry that history, of which the
state keeps only the records, and the proof would be an induction over it.
Liveness under fairness, `ENABLED` and induction over data are beyond the proof
system's backends.

## What the models showed

Where the code differs from a document, a comment or what a user would expect,
each with a counterexample at the time. They are kept here and not as runs; the
properties that hold are stated so that they exclude exactly these cases.

Storage, vault file, migration:

- A POSIX recovery that dies once can be stuck: it copies the unexpected live
  file to `.pre-recovery.<id>`, and every later recovery finds that name taken
  and raises (`storage.py:195`).
- A valid file that another program puts in place while a recovery runs is
  replaced without a re-check (`storage.py:537`;
  `docs/atomic-storage-recovery.md:46-48`).
- Enabling device unlock deletes the new key when the write raises late,
  although the file got the slot (`device_keyring.py:237`, `:250`). In between
  another process may find the slot, load its key and tell its owner that device
  unlock is enabled (`device_keyring.py:228-231`), and the key is deleted then.
  `EnabledOpens` leaves out such slots (`raised`) and nothing else.
- When the directory cannot be synced after the lock file was made, `__enter__`
  unlinks the lock path or, if that fails, leaves a lock of a live process behind.
  The unlink is by name: after an operator's quarantine it removes another call's
  lock, against the comment at `storage.py:234` (`LockFails`).
- The anchor is checked and advanced after the file is read, with no lock over
  both: a second process can make it look like a rollback, and the anchor can
  move backwards (`device_keyring.py:320`). Opening the vault alone is never
  refused, which is `NoFalseAlarm`.
- Restoring a registered backup while the anchor is enabled replaces the live
  file and then reports a failure (`api/routes/backups.py`;
  `docs/vault-v3-keyring.md:65-71`).
- A command writes the receipt it read over a later one, so that `rolled_back`
  or `activated` can be replaced by an earlier state; two racing applications
  leave a second active receipt that blocks further migrations; resuming an
  interrupted rollback activates again; the dry run refuses a receipt that was
  planned again although `resume` could finish it (`migration.py:434`).

Reviewed changes:

- A deletion puts the object that it resolved, and then the one that it marked,
  back in the place of the entry (`api/routes/entries.py:339`, `manager.py:1212`).
  An edit that another request of the same session commits between is lost
  unseen; the entry is marked deleted, but its history has the older version.
  This needs the command line or a payload before version 3. `EditsKept` leaves
  out exactly this entry; edits of other entries, and of other sessions, are kept.
- `apply_import` reads the digest and generation for its receipt after the
  commit and without the lock: an edit made in between enters the receipt, and
  undo destroys it. The backup catalog is saved without an expected digest, so
  a pin can be lost; a pin set between the listing and the unlink is ignored.
- `manager.delete` (`manager.py:1200`) and the route's `delete_entry` change the
  entry before the snapshot that a refused save restores: the mark stays in
  memory and the next save writes it. Two overlapping creations with one
  `transaction_id` create two entries; a retry after a lock and an unlock is
  not recognised.

Synchronization:

- A save prepared before a push and committed after it puts the ledger of its copy
  back: `commit_entry` compares `updated_at`, which a push does not change
  (`manager.py:1143`, `local_store.py:217`). The link or the pending operation of
  the push is gone, and the next push creates a second object. A deletion that
  holds an object which a commit has displaced does the same
  (`api/routes/entries.py:339`), and can put a clean object back while the engine
  has a conflict open. `NoDuplicateCreate`, `PurgedIsGone` and the conflict part
  of `CleanMeansSynced` leave out the sources of which that happened (`forgotten`).
- A deletion marked while a create waits for its source makes a tombstone that does
  not ask that source; the engine links it afterwards, and the purge leaves the
  object there (`manager.py:1205`, `sync/engine.py:542`). `PurgedIsGone` leaves
  that source out.
- A save prepared before a pull that takes a deletion at a source over removes the
  tombstone again, for the deletion does not change `updated_at`
  (`sync/engine.py:315`, `local_store.py:217`).
- A push that reached the source without acknowledgement, then a local edit:
  the next pull reports a conflict although nobody edited the source
  (`sync/engine.py:313`; `docs/sync-ledger.md:25`).
- A push replaces a version of the source that was never pulled
  (`sync/engine.py:532`; `docs/sync-ledger.md:26-28`). No property forbids
  it, since the code promises no more; `ShownIsReplaced` is about executions of
  an approved preview only. With previews, a
  push-only plan does not read the sources; when the pull of an execution
  fails, its push still replaces a version that the preview showed as a
  conflict; an edit between the second plan and the lock is pushed unapproved.
- A deletion inherits an unfinished create or update and is judged by the old
  kind for ever (`sync/engine.py:647`). A create whose id was saved, followed
  by a local edit, is never acknowledged (`sync/engine.py:497`;
  `docs/sync-ledger.md:59-61`). A clean entry copied to a further source keeps
  its pending operation unseen by `push_all_dirty` (`sync/engine.py:528`).
- When both computers start from copies, a deleted entry can come back on the
  device that deleted it: its own deletion becomes a tombstone only when it
  receives its own record (`personal_sync/replica.py:110`), and the computers
  then differ. `NoRevival` is about deletions taken up from the storage.
- The same conflict resolved on both computers at once leaves two different
  values and no conflict; a resolution that crosses an edit can swap the two
  values (`personal_sync/merge.py:84`; `docs/personal-sync-protocol.md:55-56`).
- Two computers can differ without a conflict when one of them changes a field
  and changes it back: A goes from 1 to 2 while B goes to 2 and, in a second
  record, back to 1. A finds B's first change to be its own, takes up the
  second and ends with 1; B, whose value is the base of A's record, takes 2
  (`personal_sync/merge.py:84`; `docs/personal-sync-protocol.md:55-56`).
  `Converged` leaves out aspects that somebody brought back (`BroughtBack`).
- Two automatic computers answer each other's announcements for ever
  (`personal_sync/replica.py:44`). A vault restored from a backup reuses
  sequence numbers it has already published.

Connections and sharing:

- A lock between a claim's re-check and its publication, and a second poll that
  reads `locked`: the extension discards its key and the device record stays
  (`browser_connect.py:256`).
- A connection request filed after the lock hook ran stays pending for a locked
  vault until its deadline (`browser_connect.py:153`); a revocation that
  deletes the record and fails on the index hands over a device that does not
  exist (`browser_trust.py:184`): `ApprovedIsEnrolled` names these devices
  (`torn`) and speaks of all others.
- `NoApprovalAfterEnd` counts a cancellation of a begin that is under way or
  filed. One that arrives before its begin is remembered and refuses the filing
  (`passkey_requests.py:90`), but only until it is forgotten.
- Refreshing and retrying read the desktop's sharing state before its
  generation, so that a change between the two is written over, a creation of
  the family that waits among them, after which a second one can be founded
  (`sharing/desktop.py:285`); a delayed
  invitation creates a revoked or used one again, for the service keeps no trace
  of it; an accepted write on which another member has already built is reported
  as a conflict.

## What is not modelled

- Byte formats and ciphers: that a digest identifies a content, that a key opens
  what it closed and nothing else, and that a validator accepts whole files
  only is assumed. Torn reads and weak memory: the tables of
  sessions, requests, intents and approvals are read and written under a lock of
  their own, except that `browser_session` and `is_unlocked` read the session table
  in one step of the interpreter. The entries of an unlocked vault have no such
  lock: `commit_entry_transaction` copies them and `manager.delete` marks them
  outside the vault lock. `SyncEngine` and `ReviewedChanges` model these as steps
  of their own at any time; that a copy is taken at one instant, and not while
  another thread writes the same entry, is assumed.
- In `VaultFile`: sizes, the exhaustion of 63-bit generations, which keyring
  backend is approved. In `Migration`: artifact names, the free-space estimate,
  the normalisation of a version-1 payload.
- In `ReviewedChanges`: read-only checks (verifying or testing a destination,
  the rehearsal on a temporary copy), the preparation of a desktop update,
  credentials (a backup is readable or not), retention by day and week (a number
  of newest copies), parsing and classification of imports.
- In `SyncEngine` and `SyncPreview`: a second entry, the fields inside a
  content, saves that fail, the legacy conflict sidecar, disabled sources, and
  the counts, labels and results a plan reports.
- In `PersonalSync`: disconnecting and reconnecting, settings, lists merged by
  item identity, encryption and validation of records, a third computer (its
  state space is beyond a run of some minutes).
- In `SessionManager`, `BrowserConnect` and `PasskeyRequests`: touching of
  sessions, codes and rate limits, signing, the choice among credentials, the
  bound of 256 remembered cancellations, two sessions of one vault file.
- In `Sharing`: a second family of one owner, quotas and size limits (a refusal
  changes nothing), the storing
  of the administration token, the viewer in the browser, read-only views.
- Whole components: the Windows Hello grant and the first start (one sealed
  record in memory; what an unlock may do after a lock is in `SessionManager`);
  browser pairing, discovery and fills (each is one look-up and removal under
  one lock); the adapters (one external command each, their contract is a
  constant of `SyncEngine`); password health, codes, generator and clipboard
  (pure functions); routes and CLI beyond those named above (translations of
  requests); UI, desktop shell and scripts. `PROJECT.json` gives each with its
  reason.

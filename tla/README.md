# Keys Keeper: a verification project

Keys Keeper stores credentials for coding agents: metadata in `data.json`,
secret values in a platform key store or an encrypted file, and two kinds of
synchronisation over a relay that sees only ciphertext.  This directory holds
TLA+ models of the parts where order, failure and concurrency decide whether a
vault stays whole, the TLC instances that check them, and TLAPS proofs of the
results that matter most.  Paths below are relative to `src/keys_keeper/` in
the repository unless they say otherwise.

## 1. Inventory

| Part | State it keeps | Operations | What is hard | What makes it correct |
| --- | --- | --- | --- | --- |
| Master journal (`master_journal.py`, `operation_journal.py`) | pending index, encrypted records, receipts, the profile lock | create, update, delete, bulk create, apply snapshot, recover | two stores that cannot be written together; crashes; rollback that fails half way; several processes | a mutation is all or nothing wherever anybody may look |
| Metadata store (`store.py`) | `data.json`, revision, tombstones, metadata lock | transactions, catalog edits | writers that do not know of the journal | revisions name contents; no lost update |
| Services (`service.py`, `project_service.py`) | none | entry mutations, folders, projects | recover and mutate are two critical sections | nothing stale is applied |
| VPS relay (`sync_server.py`, `relay_storage.py`) | commit log, device table, invitations (SQLite) | head, commits, append, devices, invite, claim, approve, revoke | authentication and service are two transactions; compare and swap; restores | one head; a revoked device cannot append |
| VPS engine (`sync_vps.py`, `cli_sync_vps.py`) | trust sidecar (anchor, revocations, pending revocation), configuration | pull, push, status, refresh, revoke, invite, join, approve, finish | several requests per verification; retries; lost answers; durable intent | only descendants of the anchor; no update lost; a revocation seen stays seen |
| KK2 formats, transport (`sync_protocol_v2.py`, `sync_vps_client.py`) | none | sign, verify, seal; requests | encodings | what a signature binds |
| Snapshot merge (`vault_snapshot.py`) | none | merge of entries and tombstones | ties, renames | convergence |
| Project relay (`project_server.py`, `project_protocol.py`) | publications, epochs, receipts, grants | publish, receive, revoke, rekey | idempotent retries, fencing | each recipient gets what its grant allows |
| Project runtime (`project_sync.py`, `project_replica.py`, `project_runtime.py`) | replica, outbox, pending publication | publish, resume, receive, revoke | crash between local and remote steps | exactly-once effects |
| Project import (`project_importer.py`) | proposals | inspect, apply | stale proposal | an import applies what was shown |
| Project backup and recovery (`project_backup.py`, `project_recovery.py`) | bundles, the recovery proof, fences | back up, invite, migrate, restore, takeover | a proof read long after it was written; two roots with one identity | an invitation and a migration rest on a bundle that holds them; a restored root is fenced |
| Personal sync, pairing (`personal_sync.py`, `pairing.py`, `pairing_server.py`) | one-shot codes | offer, claim, confirm | expiry, replays | one code, one device |
| Automatic sync (`auto_worker.py`, `auto_schedule.py`) | time of the last attempt | claim the daily slot, run, kill at the deadline | two workers; a kill inside a mutation | one attempt a day, also a failed one |
| Secret backends (`backend*.py`, `macos_keychain*.py`) | accounts | get, set, delete | a write that fails after it took effect | last write wins |
| File primitives (`private_files.py`, `_locking.py`) | files | atomic replace, lock | durability | old or new, never torn |
| Audit (`audit.py`), clipboard (`clipboard.py`) | log; clear timer | append; copy, clear | a newer copy | only the own copy cleared |
| Web API, CLI, desktop shells, agent rule files | sessions | routing, text | input formats | not the subject here |

Interactions.  A command or a web request calls a service; the service calls
`recover()` and then a mutation of the master journal; the mutation writes the
record, the secrets, the metadata, in that order, and closes the record.  Sync
engines read a snapshot under `projection_guard` and write what they merged
through `apply_snapshot`.  Devices interact only through the relay.  Lock order
is VPS operation, journal profile, metadata.

A project scope has one master and any number of replicas, joined by the relay:
the master publishes a projection of its vault, a replica installs it and sends
proposals back, the master imports them through the mutation path and answers
with a receipt.  Personal sync is such a scope that holds the whole vault, and
pairing is how a computer enters it.  The automatic worker runs both kinds of
synchronisation in a process of its own.

The hazards these parts are exposed to are listed in `PROJECT.json`, each at the
line where it bites, with the properties that would show it going wrong.

## 2. Modules

| Module | Role |
| --- | --- |
| `VaultData` | entries, tombstones, secret accounts, plans: the data a mutation moves |
| `AtomicVault` | the promise: a vault changed by whole mutations, seen only whole |
| `MasterJournal` | the journal pipeline, recovery and catalog edits, step by step |
| `MasterJournalProofs` | the inductive invariant, type correctness, the whole vault; write-ahead rule; `MasterJournal` implements `AtomicVault`; the receipt ledger; required secrets; recovery by one process |
| `VpsRelay` | signed records of KK2 and what syncd does with them, as operators |
| `VpsSync` | the engines of several devices over `VpsRelay` |
| `VpsSyncProofs` | logs agree, no lost update, revocations cut off, trust only grows; no false alarm while the relay is not restored |
| `VaultMerge` | the merge of two snapshots, and devices that exchange them |
| `VaultMergeProofs` | a merge is sound and the same on either side, a free name is always found; no resurrection, references keep their target |
| `ProjectRelay` | a project scope at the relay: policies, head, blocks, as operators |
| `ProjectSync` | publication, revocation and installation over `ProjectRelay` |
| `ProjectSyncProofs` | one unsettled publication, numbers that vouch for what is published, withdrawal in time |
| `ProjectInbox` | proposals, import and receipts over `ProjectRelay` |
| `ProjectInboxProofs` | whole imports, one outcome, no import for a revoked device, no lost proposal |
| `DevicePairing` | connecting a computer: invite, join, approve, finish |
| `DevicePairingProofs` | one grant and one connection per code; what was received is kept; a revoked device stays out |
| `ProjectBackup` | verified backups, and the invitations and the migration that rely on them |
| `ProjectRecovery` | restore of a backup into a fenced root, takeover |
| `ProjectRecoveryProofs` | of `ProjectBackup`: what an invitation names, what a migration changes; of `ProjectRecovery`: the seven phases of a recovery root, one authority |
| `AutoSync` | the daily slot and the processes that work in it |
| `LocalServer` | connections, threads and stopping of the HTTP servers; the clipboard |
| `LocalProcessesProofs` | of `AutoSync`: attempts a full interval apart, workers contained; of `LocalServer`: slots and connections accounted for, a server stops completely, copies cleared |
| `MC...` | the instances for TLC |

The state machines hold a few operators marked `Slip:`.  No specification uses
them: each is a definition as a plausible mistake would have it, kept as the
counterpart against which a property is tested.

### MasterJournal

Each process runs one operation at a time and `pc` names the point of the
pipeline it has reached: `Transact` and the five mutations build a plan under
both locks; `WriteRecord` is `begin` (marker first, then the record);
`ApplyAccount`, `StageApplied`, `Publish` are
`_execute_inside_transaction` and the end of the metadata transaction;
`RestoreAccount`, `RestoreDone` the rollback; `OuterHandler` the second
exception handler, which compares the revision before it undoes anything;
`Verify` is `_commit_record`; `CloseRecord`, `ArchiveReceipt`, `RemoveMarker`,
`UnlinkRecord` the archive; `Recover`, `NextRef`, `Scan*`, `Compact` recovery;
`Project` the projection guard; `EditCatalog` the catalog edits of
`project_service.py`, which take the metadata lock alone.  `Crash` drops a
process with its locks at any point, `Fault` makes the write at hand fail,
before or after it took effect where `atomic_write_bytes` can do either.

Abstractions: the value of a secret is the operation that wrote it; stamps are
a counter; the encrypted record is what it holds; `data.json` is replaced in one
step because the code replaces it by rename.  Readers that take no lock are not
modelled; a projection is what sync and the UI see.

### VpsRelay and VpsSync

`chain` and `table` are the relay's log and devices, changed only by actions
that stand for one SQLite transaction.  `VpsRelay` has an operator for each: when
it is accepted (`AppendAnswer`, `RevokeAnswer`) and what the table is afterwards
(`Invited`, `Claimed`, `Approved`, `Revoked`).  `trust`, `known`, `intent` are
the trust sidecar; `joined` and `bundle` the enrolment and invitation files;
`run[c]` the one operation device `c` has in flight under its operation lock.
Verification is a request per action: `GetHead`, `ListDevices`, `GetCommit`,
`ReadPage`; the relay may change between any two.  `Merge`, `Save`,
`AppendCommit`, `SaveOwn` are push (pull is the first two); `PrepareRevoke`
makes the intent durable, `PostRevoke` is the relay's compare and swap,
`ResumeRevoke` the loop of `revoke_device`, which accepts only the same evidence
seen at the relay as confirmation.  An approval is sent after the operation lock
was released, so it is a separate step (`approving`).  `Authenticated` keeps the
fact that a request is authenticated in a transaction before the one that serves
it.

Abstractions: a commit id is fresh and names its ancestry, as a hash does; a
signed statement is the device and the checkpoint it binds; the vault is a set
of updates and merge is union (`VaultMerge` has the real one); expiry of an
invitation is an invitation nobody uses; a full relay is the bound `MaxIds`.
`Fail` ends an operation at any point: a crash, a timeout, a lost request, or,
after a step at the relay, a lost answer.  `BackUp` and `Restore` are there
because `docs/architecture/VPS-SYNC-KK2.md` tells the operator to keep the
database in the disk backups.

### VaultMerge

`Merged` and `Applied` are `merge()` and `_apply_payload`, as operators over two
snapshots: the winner per entry (`RemoteWins`, with the content breaking ties of
one second), the latest tombstone against it (`Resolve`), unique names
(`DisambiguateLiveNames`), the reference check (`RebindsReference`), and whose
secret is taken (`SecretsFromRemote`).  As in the code the names are made unique
on the dictionary of the live entries: the `Losers` of a name get theirs one after
the other, each the first that is free of those `_unique_suffix_name` tries.  A
name is a sequence of numbers, a suffix appends the id and a counter; truncation
to 64 characters, which leaves the suffix whole, is left out.  `Push` and `Pull` exchange whole
snapshots over one head; the users' edits are those of the services, with a
clock of seconds that moves at will.

### ProjectRelay, ProjectSync, ProjectInbox

`ProjectRelay` gives the scope's policies, head and blocks, and when the relay
accepts a publication (compare and swap of the head, idempotent by operation id)
or a block.  In `ProjectSync` the master's `job` walks through `_resume`
(`Resume`, `Reconcile`, `Send`, `Answer`, `AdoptMark`, `AdoptSave`) and
`_publish_locked` (`VerifyAndCapture`, `Preview`, `Compare`, `Build`, `Prepare`);
`cat` is the catalog with its publication intents, `state` the durable state of
the scope.  A revocation (`RequestRevoke`, `PostBlock`, `StartRekey`) takes the
lock of the state only, and so falls between any two steps of a job.  `wire`
holds requests on their way, which arrive late or not at all.  A replica pulls,
installs and saves its checkpoint in three steps.

In `ProjectInbox` a device creates a proposal, `submit` works through a copy of
the outbox while it changes (`submitter`), the relay keeps rows and receipts,
and the master's `job` is `receive` and the importer: journal, secret, metadata
transaction with the recorded outcome, finish, receipt, and the resumption of
what a crash left (`Resume`).

### DevicePairing

The main computer's `invites`, `pairings`, `minted` grants and `published`
policies; the relay's `mailbox` per code; a computer's `settings` and the `roots`
of its attempts.  A connection begins in two steps with a lock each: `Invite` is
`ProjectRuntime.invite`, and `RecordPairing` stores the pairing that the code
speaks of, unless there are too many; an invitation whose pairing was never stored
stays unused.  A job of the main computer approves (check, allocate, publish,
build the answer) or flushes answers after a sync; a computer's `worker` joins,
or polls and finishes (install, save the state, register).  Codes expire, grants
are revoked and attempts are cancelled at any time.

### ProjectBackup

The master's `metadata` (schema and content), the registry (`profile`), the
relay's scopes (`hosted`), the published `bundles` and the `proof` file.  Several
processes back up at a time (`backup[r]`): they list the scopes, take the locks
of their states, capture, publish, read the bundle back, write the proof, and,
for `migrate` and the setup of personal sync, go on to `migrate_catalog_v3` in
two steps (copy of the old file, new schema).  An invitation reads the proof,
compares it and is saved, under the lock of its scope's state only, so edits and
other backups fall between any two of these steps.  `BackupFails` and
`InvitationFails` end them anywhere, `DamageBundle` damages a published file
before it is read back.

The revision of the metadata is a hash, so metadata that are changed back have
their old revision; the model keeps the metadata themselves, for the same effect.
Three things of the code that are easily expected otherwise, and are modelled as
they are: the copy `data.v2.json.bak` may be from an earlier migration that was
interrupted; the setup of personal sync migrates without naming the revision it
backed up; and an invitation does not ask for the scope's profile to be active.

### ProjectRecovery

The recovery root's `marker`, `disk` (for each file the backups or plans it comes
from), `journal` with the plan, its sources and the scopes created so far, and
`activation` record; the scopes that takeovers made on the `relay`.  Restore and
takeover write one file per step, `Crash` ends them between any two, also where an
answer of the relay is lost, and `Damage` makes a backup unreadable at any time.
Of a backup only its files are used, so `ProjectBackup` is not composed with it.

### AutoSync

Two levels of `run_auto_worker`: a watcher guards a supervisor, the supervisor
guards the worker, each with the signal handler of `_cancel_on_termination`
(`Cancelled`, `Acquired`).  `Claim` is `claim_auto_sync` on the marker and on the
one of the profile's old identity.  `Tick` moves time when nothing that takes
only seconds is under way.  `JobObject` tells Windows from POSIX.

### LocalServer

One action per step of a connection's life in `BoundedThreadingHTTPServer`, with
the admission thread, the handlers, the relay's request slots, and `stop` by the
watchdog, the owner, `/api/shutdown` or a signal.  The clipboard is written by
the copy handler and by `keys copy`, and cleared by the UI's scheduler thread and
by the command's daemon; each of them looks first and clears afterwards.  The
helper that they call may fail after it took effect (`HelperFails`, `ClearFails`),
and `SchedulerDies` is the end of the scheduler thread by an error it does not
catch.  `excused` is history: why nobody clears what the clipboard holds.
`AtWork` lists what is left to do for the threads of a server, with the guards of
their actions, so that `StopsCompletely` is stated, and proved, without `ENABLED`.
That a read of a client's request ends is taken from the deadline and the cancel
reader of `http_resources.py`, not checked (`ReadFails`, `BodyFails`).
The names `ServerSpec`, `InitServer` and so on keep this module and `AutoSync`
apart where both are proved about.

## 3. Runs

| Run | Instance | Question |
| --- | --- | --- |
| `mj_crash` | 1 process, 2 entries, 2 operations, any 2 failures, schema 2, fair | can recovery decide and close every record a crash leaves? |
| `mj_race` | 2 processes, catalog edits, 3 operations, 1 entry, 1 failure, receipt ledger of 2, schema 3 | is the vault atomic, whole and complete for all who look, although processes do not see each other's recovery? |
| `vs_revoke` | root and 2 members, 2 commits, no failure; 1 update and a revocation, or 2 updates and none | a cut older than the head it is published at; does every commit hold what its predecessor held? |
| `vs_restore` | root and a newcomer, 2 commits, page size 1, 1 restore, 1 failure | enrolment, and a relay set back in time |
| `vm_merge` | 2 devices, 3 entries (2 shared), 3 edits in 2 seconds, clashing names | does every pair of vaults merge soundly, and do they converge? |
| `ps_publish` | 1 entry, 1 device, 3 publications, 1 edit, 2 failures | is a publication accounted for, withdrawn in time, delivered? |
| `pi_import` | 2 proposals, queue of 1, 1 failure | one entry and one outcome per proposal |
| `dp_connect` | 2 codes, 2 attempts, limit of 1 open connection, 1 failure | one grant and one connection per code |
| `pr_takeover` | master: 2 processes, 1 scope, 2 contents, 2 bundles; recovery root: 2 scopes, 2 backups, 2 plans, 4 failures | does an invitation, or a migration, rest on a bundle that holds what it needs? is an operable root always one whole authority? |
| `as_daily` | a loop and a launcher, interval 3, timeout 1, 2 signals or switches | one attempt a day and no orphan |
| `ls_serve` | 3 connections, 2 threads, 1 request slot, 2 entries, 1 command | resources, stopping, clipboard |
| `vs_diverge_revoke` | root and one member, 1 commit, fair | a revocation that can never finish (expected violation) |

Why the bounds suffice.  In `MasterJournal` an operation touches an entry's two
accounts and one metadata image, and operations meet only through the state of
the vault and the records on disk: two operations on two entries (`mj_crash`) give every
pair (same entry, different entry, rename by replacement), two failures give
a failed recovery after a failed mutation and a failed rollback after a failed
write.  `mj_race` has one entry, for which two processes and the catalog edits
compete.  A ledger of two receipts is trimmed by the third operation.  In `VpsSync` three
devices are what a cut older than the head needs (root, target, a third that
moves the head); two commits let the cut and the head it is published at both hold
one, and fill the log, so the limit of the chain is met; two updates of two
writers let a payload go stale between its preparation and its publication, and
`RevokeSpec` leaves the second update to behaviours in which nobody is revoked, as
neither question needs the other; page size 1 makes two commits two pages; two
tries let each retry loop both retry and give up; one restore gives two branches,
and the failure a device that merged one of them without anchoring it.  In
`VaultMerge` two seconds give ties and order, three entries a reference, its
target and a third that takes a name; the second clashing name is the one the merge would invent.  In `ProjectSync`
two failures interrupt a publication and its retry, or lose its answer and
interrupt its reconciliation; a key epoch of two publications ends within
three.  In `ProjectInbox` two proposals meet a queue of one; in `DevicePairing`
two codes meet a limit of one, and two attempts compete for a code.  In `ProjectBackup`
two processes back up at once, the scope is added after the first listed them, and
the second bundle replaces the first one's proof; two contents give an edit and its
reversal.  The recovery root shares with the master the files of bundles and
nothing else, and begins with any of them, damaged or not; `pr_takeover` therefore
runs each of the two from the other's initial state (`SystemSpec`) and not their
product.  A takeover of two scopes can be interrupted between them, and four
failures interrupt a restore, its resumption, a takeover and its resumption.  In
`AutoSync` seven ticks hold three intervals.  In `LocalServer` three connections
overflow two threads, and two threads one request slot.  `MaxFaults`, `MaxRestores`, `MaxEdits`, `MaxOps`
and their like bound failures and work.  The properties that section 4 names as
proved hold for every value of these bounds and for sets of any size.

Symmetry is used for what a model does not tell apart: the processes of `mj_race`,
the members of `vs_revoke`, the browsers' connections and the entries of
`ls_serve`, the contents and the processes of `pr_takeover`.  The first three check
no liveness; in the last the master stands still, and with it what is permuted, in every behaviour that the
liveness property speaks of.

Deadlock is checked in `mj_crash`, `mj_race`, `vs_revoke`, `vs_restore`
and `ps_publish`.  Elsewhere the bounded system really stops (all connections closed,
all edits made, the clock at its end, a takeover finished), and the liveness
properties, or `StopsCompletely`, say in which states it may.

Fairness.

- `mj_crash`: weak fairness of a process's steps, because the holder of the
  profile lock runs on and the lock is released by the operating system when it
  dies; and of starting recovery, because every command and the worker call
  `recover()` before anything else.
- `vs_diverge_revoke`: weak fairness of the root's steps and of its user's retries
  of a pending revocation, which is what the error message asks for.
- `vm_merge`: each device syncs again and again (the daily job); written out as
  states and steps, because nothing is assumed of a device whose merge is refused.
- `ps_publish`, `pi_import`: the automatic worker starts a publication again and
  again (strong fairness, as other jobs may hold the lock whenever it tries), jobs
  and requests go on unless they fail, replicas pull and submit again.
- `dp_connect`: approval, flush and poll are started again by sync and by the
  waiting computer; strong fairness of polling, as a cancel or join may hold its
  lock.  Nothing is assumed of cancellation, revocation or expiry.
- `pr_takeover`: a restore or takeover that runs goes on, and an interrupted
  takeover is run again, as its error messages ask.  `TakeoverCompletes` excepts
  takeovers whose backup cannot be read any more.
- `as_daily`: time passes and processes go on; nothing makes a worker end by
  itself.
- `ls_serve`, and the master's half of `pr_takeover`: none; `StopsCompletely` is an invariant about
  states in which no thread has work left.

Findings: what the runs showed of the code.  Where a property has an exception,
the exception is named in the module and is one of these.

- Revocation (`vs_diverge_revoke`, `sync_vps.py:1009`).  A revocation overtaken by
  its target between intent and request can neither be finished nor abandoned.
- Journal.  A catalog edit between publication and verification of a mutation
  (`master_journal.py:390`), or a mutation that passed `recover()` before another
  process failed (`service.py:156`), leaves a record that matches neither of its
  revisions; recovery refuses it on every later attempt.  `OpenRecordsDecidable`
  is therefore checked and proved for one process without catalog edits.  The vault stays
  whole all the same (`mj_race`).
- Sync.  The first commit and a statement signed at it, published between the head
  request and the device list (`sync_vps.py:908`), make an honest relay look
  dishonest; the next attempt succeeds.  `FalseAlarmsExplained` says that this and
  the overtaken revocation are the only false alarms.
- Merge.  A deletion with `--cascade` strips references without a new timestamp
  (`master_journal.py:216-219`), so a peer's copy that still refers wins or ties
  and the merge reports a reference conflict until a user edits (`Blocked`).  Two
  tombstones of one second keep their own names (`vault_snapshot.py:186`), so
  vaults agree up to the names kept in tombstones (`Unnamed`).
- Publication.  A replica that dies between installing a generation and saving its
  checkpoint (`project_sync.py:545-548`) refuses the next generation
  (`project_replica.py:96-100` raises before the idempotent return) once the head
  has moved on (`Torn`).  `ReplicaCatchesUp` leaves this crash out, and says only that
  a replica catches up after every other.  A publication that was sent and then
  withdrawn stops the job until the master is recovered (`Uncertain`), which is by
  design.
- Import.  A proposal accepted before its author is revoked has a receipt the relay
  refuses for good (`project_server.py:526-528`), and the import stops there
  (`Jammed`).
- Pairing.  A computer that dies between saving its state and its registry entry
  (`project_runtime.py:1108-1110`) is connected by its next poll, unless the code
  expires before (`personal_sync.py:364-365`): then it holds entries that no
  setting leads on from.  `ReceivedIsKept` says that the connection stays on
  record; `ApprovedConnects` excepts expired codes.
- Automatic worker.  On POSIX a supervisor that is killed outright, also by the
  five seconds' grace of its watcher while it is in `Popen`, leaves its worker
  running past the "hard process-tree deadline" (`auto_worker.py:163`); the
  properties except workers whose supervisor was killed (`killed`).
- Clipboard.  Two copies in the UI at once may schedule in the other order than they
  wrote; the timer of the newer secret is then replaced and the secret stays
  (`clipboard.py:240`; `ux-spec-2026-05-04-keys-keeper-admin.md:55` says that the
  server clears the clipboard "if it still contains the value it wrote").  A
  clipboard that does not decode as text raises an error that the scheduler thread does not catch; it ends, no other is
  started, and no later copy is cleared (`clipboard.py:275`).
  `CopiesCleared` excepts both, and besides them a user who asked for no clear, a
  helper that failed, and a process that exited early.  What a user copies between
  the look and the clear is lost.

## 4. Proofs

The theorems below are about the specifications that the runs check, for every
value of the constants that the named assumptions admit.  They are temporal
theorems `Spec => []P`, each from an inductive invariant of its module; the
module proves that the initial states satisfy the invariant, one lemma per
action that the action keeps it, and that it implies the properties.  Those
invariants were checked by TLC on the instances of section 3 before they were
proved.

| Module | Theorems | State properties proved | Assumptions |
| --- | --- | --- | --- |
| `MasterJournalProofs` | `PipelineInvariant`, `TypeCorrect`, `VaultWhole` | `ProjectedVaultWhole` | `VaultAssumption`, `JournalAssumption` |
| | `WriteAheadRule`, `Implements`, `OutcomesRemembered`, `SecretsComplete`, `AloneDecidable` | `WriteAhead` with `TypeOK`, `ImplementsAtomicVault`, `FinishedRemembered`, `ProjectedSecretsComplete`; `OpenRecordsDecidable` for one process without catalog edits | the same |
| `VpsSyncProofs` | `Inductive`, `TypeCorrect`, `NoLostUpdateHolds`, `StateSoundHolds`, `RevocationCutsOffHolds`, `TrustOnlyGrowsHolds`, `NoFalseAlarm` | `NoLostUpdate`, `StateSound`, `RevocationCutsOff`, `FalseAlarmsExplained`, and the action property `TrustOnlyGrows` | `SyncAssumption` of `VpsSync` |
| `VaultMergeProofs` | `MergeInductive`, `MergeCommutesHolds`, `MergeSoundHolds`, `NoResurrectionHolds`, `ReferencesKeepTargetHolds`; `Disambiguated`, `SuffixFound` | `MergeSound`, and the action properties `NoResurrection`, `ReferencesKeepTarget` | `MergeAssumption` |
| `ProjectSyncProofs` | `PublicationInvariant`, `PublicationAccountedHolds`, `WithdrawnInTimeHolds` | `PublicationAccounted`, `WithdrawnInTime` | `SyncAssumption` of `ProjectSync` |
| `ProjectInboxProofs` | `InboxInvariant`, `ImportsWholeHolds`, `RevokedNotImportedHolds`, `ProposalsKeptHolds` | `ImportsWhole`, and the action properties `RevokedNotImported`, `ProposalsKept` | `InboxAssumption` |
| `DevicePairingProofs` | `PairingInductive`, `PairingSoundHolds`, `ReceivedIsKeptHolds`, `RevokedStaysOutHolds` | `PairingSound`, `ReceivedIsKept`, and the temporal property `RevokedStaysOut` | `PairingAssumption` |
| `ProjectRecoveryProofs` | `BackupInductive`, `MasterTypeCorrect`, `InvitedRecoverableHolds`, `MigratedFromBackupHolds` | `InvitedRecoverable`, `MigratedFromBackup` | `BackupAssumption` |
| | `RecoveryInductive`, `RecoveryRootWholeHolds`, `OneAuthorityHolds` | `RecoveryRootWhole`, `OneAuthority` | `RecoveryAssumption` |
| `LocalProcessesProofs` | `AutoInductive`, `AttemptsDailyHolds`, `WorkersContainedHolds` | `AttemptsDaily`, `WorkersContained` | `AutoAssumption` |
| | `ServerInductive`, `ResourcesAccountedHolds`, `StopsCompletelyHolds`, `CopiesClearedHolds` | `ResourcesAccounted`, `StopsCompletely`, `CopiesCleared` | `ServerAssumption`, `EntriesAssumption` |

The assumptions only type the constants, with these exceptions: a deadline is
shorter than the interval (`AutoAssumption`; 300 seconds against a day in the
code), and the sets a proof counts are finite.  `EntriesAssumption` says that no
entry is one of the three model values the clipboard holds besides entries.

The arguments:

- Journal.  `ProjectedVaultWhole` says nothing of the states in between and is
  not inductive; `PipelineInv` says for each point of the pipeline what is on
  disk: every open record describes a difference between disk and history
  (`Records`, `Covered`), a process between two writes has changed exactly the
  accounts before its position (`AtRecord` to `AtArchive`), and the before images
  of open records are explained by the metadata (`Old`).  The refinement maps the
  abstract vault to the history of the closed mutations and of the catalog edits
  (`vault`); `Undecided` says that the record at hand is open until it is closed, the
  step that closes it is shown to be one abstract step, and so are edits and
  projections; all others stutter.  `AtomicVault` lets a mutation make any vault of
  the present one, so the refinement says that mutations are whole, once and seen
  whole, and not which vault they make: that is `ProjectedVaultWhole`.
- Receipts.  An operation is closed when its record is gone, and that is two
  steps after its receipt was written, with recovery perhaps archiving it again
  in between.  `LedgerInv` says that the ledger holds one receipt per operation
  (`Single`), within its limit, and that between receipt and unlink the receipt is
  there: it was written last, and trimming keeps the last ones.  A full ledger
  stays full: merging never shortens it, by an injection from the old receipts into the new ones.
- Required secrets.  `SecretInv` says of every live entry in the metadata, and in
  every image a record or a plan holds, that each secret the entry requires is in
  the vault or is written by an operation still open.  An operation that may yet
  be given up does not vouch for itself.  What plan validation leaves of a plan is
  exactly what the step to the new metadata needs (`KeepsSecrets`).
- One process.  `SoleInv` says that one operation is open at a time and that the
  metadata on disk is one of its two images, which is all recovery needs to
  decide.  With a second process, or an edit of the catalog that takes no lock,
  the metadata may be neither: that is the finding of section 3, so the theorem
  assumes one process and no such edit.
- VPS sync.  A commit id is fresh and names its whole ancestry, so any two logs
  at the relay, in a backup, in memory or in a trust file that share an id share
  everything before it (`Agree`).  A restore only chooses one of the logs there
  already were.  That is why `NoLostUpdate` and `RevocationCutsOff` hold with
  restores too: what a device publishes extends what it merged, and a revoked
  device's statement names the cut.  `StateSound` follows from what each engine
  has read so far (`EngineSound`).
- False alarms.  Without a restore, the relay only moves forward (`Forward` for
  the table, prefixes for the log), so whatever an engine read, in any order and
  however late, is part of what the relay is now; a check that fails has no
  excuse but the two that `FalseAlarmsExplained` names.  With a restore the
  property says nothing, as the alarm is then due.
- Merge.  `Newer` is a strict total order on versions up to their names, so
  `Resolve` gives the same version whichever side is local.  The losers of a name
  are renamed in a strict order of a finite set, which makes the recursive function
  `NewNames` well defined: by taking a minimal entry on which two functions would
  differ, or at which none exists.  Before each renaming fewer names are taken than
  there are live entries (each name in use has a holder that keeps it), and
  `_unique_suffix_name` tries one name more than that, so by counting it finds one
  that is free (`SuffixFound`).  Names are therefore unique afterwards
  (`Disambiguated`), the conflict is symmetric, and since names never decide which
  version or secret wins, the outcome is the same on either side.  `MergeInv` says
  that every vault and the published snapshot are `WellFormed` and that each live
  entry has the secret recorded with its version.
- Publication.  At most one publication is unsettled, and the relay tells whether
  it has arrived (`HeadSound`): a request still under way is the pending one or
  has been applied before.  Whoever changes an entry raises its number or leaves
  it to a draft (`Follows`), so content that was read under a number vouches for
  the entry as long as that number stands (`Vouches`), through every later edit,
  lost request and crash.  Marking asks for no more than what was captured under
  such a number.  That the compacted numbers exceed all others rests on a finite
  set of numbers having a greatest one, proved by well-founded induction.
- Withdrawal.  A publication goes out only after a look at the revocations under
  the same lock, so what is sent after a revocation is not for that device, and
  what was sent before has the sequence number `limit` records.
- Import.  The outcome of a proposal is written once, to the master's ledger.  A
  secret without an entry belongs to the one open import, which is still
  undecided (`SecretsSound`), and what the job has checked stays true until it
  commits, because a revocation waits for it (`ImportSound`).  Receipts and
  outboxes follow the ledger (`KnownSound`): they copy an outcome that is there,
  and a recorded outcome never changes.
- Pairing.  Nothing locks the two computers and the relay against each other.
  Each fact is written once: a mailbox has one request and one answer, an
  invitation one device, one grant and one bundle; who reads one of them may rely
  on it however late it acts.  `JobSound` and `WorkersSound` say which facts each
  job and each worker relies on, `WithinLimits` counts the open codes.
- Revoked before it was answered.  `RevokedStaysOut` speaks of all later states,
  so its proof finds a predicate that lasts: `Shut` says that the grant is revoked
  and that neither the mailbox, the running job, a worker nor a root holds an
  answer of that code.  `LinkInv` gives what keeps it shut: a device belongs to
  one code, its connection names it, so the grants by which `Due` would choose the
  answer are the revoked one; and what a device installs was in the mailbox.
- Backup.  A bundle is never changed once it is published, but for damage, and a
  proof or a migration comes only after it was read back; `BackupInv` says for each
  point of a backup which bundle it has and that it holds what was captured.  An
  invitation compares a proof it has read before: the proof may have been replaced
  since, but the bundle it names has not.
- Recovery.  A root is in one of seven phases (`Untouched`, `BeingRestored`,
  `Restored`, `Planned`, `Complete`, `Activated`, `Retired`), each of which says
  which files come from which backup or plan.  A crash changes only the running
  process and never the phase, and every property of the root follows from each
  of the phases.
- Automatic worker.  The claim is a lock on time: it is made only a full interval
  after the last one, and a worker lives at most `Timeout`, which is shorter.  The
  invariant says since when each guardian waits and that time does not pass its
  deadline while it does.
- Server.  A slot is free or held, by counting connections per state; the cancel
  reader is closed only when no connection is listed, after which none is
  admitted.  `StopInv` says who will close the server once it was asked to stop: as
  long as it is open some caller of `stop` is on its way, and as long as the loop
  runs shutdown was requested or is about to be by a caller that saw the loop;
  hence nobody can rest before all is closed.  `CopiesCleared` follows from who is
  still about to look at the clipboard; of a copy that another one overtook, or that
  follows the end of the scheduler thread, it says nothing, since those do stay.

Left to TLC: every liveness property, as it rests on fairness
(`RecoveryCompletes`, `Converges`, `ChangesDelivered`, `ReplicaCatchesUp`,
`RevocationRotates`, `InboxDrains`, `ApprovedConnects`, `TakeoverCompletes`,
`WorkersEnd`).  These are beyond the prover.  Every other property of the passing
runs is proved; `OpenRecordsDecidable` for one process without catalog edits, where it holds.

## 5. Plan

The modules are those the code calls for, and of the properties the runs check
the proofs state each one but those just named.  The order was: the journal and
its refinement, the relay and its engines, the project scope, and last the merge
and the processes of one computer.
Nothing of it is open; section 6 says what was left aside and why.

No module declares a `RECURSIVE` operator, so each may be proved about; the
recursion of `NewNames` is a function on a finite set.

## 6. Not modelled

Request parsing and routing, text output, archive and record encodings, platform
key stores behind their C interfaces, desktop shells, agent rule files, the audit
log, and the conversion of data files older than schema 2: formats, calls into other
systems and conversions with no protocol of their own.  A merge that is applied to a
vault which has moved on since its projection is refused by the code; the refusal is
modelled (`ApplySnapshot`) but no property states it.  Of the modelled parts,
`PROJECT.json` says under `components` what is left out.

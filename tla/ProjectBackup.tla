---------------------------- MODULE ProjectBackup ----------------------------
(***************************************************************************)
(* The master's verified backups and what relies on them: backups are made *)
(* by any number of processes (ProjectRuntime.backup, project_backup.py),  *)
(* an invitation needs a proof that the latest of them covers it           *)
(* (_require_recovery), and the catalog migration is made on one           *)
(* (MetadataStore.migrate_catalog_v3).                                     *)
(*                                                                         *)
(* The metadata are edited by other processes at any time: edits of the    *)
(* catalog take neither the journal's lock nor the lock of a scope's       *)
(* state.  A revision is a hash of what the metadata hold, so metadata     *)
(* that are changed back have their old revision again; here a revision is *)
(* the schema and the content themselves.                                  *)
(***************************************************************************)
EXTENDS Naturals, Sequences

CONSTANTS
  MasterScopes,  \* the scopes that the catalog can hold
  Contents,      \* what the metadata can hold
  Runs,          \* processes that make backups
  MaxBundles     \* bound on published bundles

ASSUME BackupAssumption == MaxBundles \in Nat

VARIABLES
  metadata,  \* the master's metadata: <<schema, content>>
  legacy,    \* data.v2.json.bak: a content, or "none"
  profile,   \* per scope: its record in the registry: none, pending or active
  hosted,    \* the scopes that the relay has
  bundles,   \* published bundles, in order
  proof,     \* project-recovery-proof.json
  backup,    \* per process: the running backup
  invite,    \* per scope: the running invitation and the proof it has read
  invited,   \* invitations made: the scope, the bundle named and the metadata of the moment
  migrated   \* the migrations made: the goal of the run, its bundle and the content migrated

masterVars == <<metadata, legacy, profile, hosted, bundles, proof, backup, invite, invited, migrated>>

Unread == <<0, "none">>
NoProof == [bundle |-> 0, metadata |-> Unread, scopes |-> {}]
NoBackup == [pc |-> "idle", goal |-> "backup", scopes |-> {}, metadata |-> Unread, bundle |-> 0]
NoInvitation == [open |-> FALSE, proof |-> NoProof]

-----------------------------------------------------------------------------
(* The registry and the scopes of the master *)

Schema == metadata[1]
Content == metadata[2]

\* ProfileRegistry: put replaces the record of its scope, list names those
\* that have one; a record that exists keeps its identity.
Put(s, status) == profile' = [profile EXCEPT ![s] = status]
Profiles == {s \in MasterScopes : profile[s] # "none"}

UnchangedProfiles == UNCHANGED <<profile, hosted>>
UnchangedInvites == UNCHANGED <<invite, invited>>
UnchangedBackups == UNCHANGED <<bundles, proof, backup, migrated>>

\* initialize: a scope of the catalog gets its state and a pending profile,
\* then its place on the relay, then the profile becomes active.
InitializeLocal(s) ==
  /\ Schema = 3 /\ profile[s] = "none"
  /\ Put(s, "pending")
  /\ UNCHANGED <<metadata, legacy, hosted>> /\ UnchangedInvites /\ UnchangedBackups

InitializeRemote(s) ==
  /\ profile[s] = "pending" /\ s \notin hosted
  /\ hosted' = hosted \union {s}
  /\ UNCHANGED <<metadata, legacy, profile>> /\ UnchangedInvites /\ UnchangedBackups

InitializeDone(s) ==
  /\ profile[s] = "pending" /\ s \in hosted
  /\ Put(s, "active")
  /\ UNCHANGED <<metadata, legacy, hosted>> /\ UnchangedInvites /\ UnchangedBackups

\* A transaction of another process; it waits for the lock of the metadata
\* file, which a migration holds from its copy to its write.
Edit ==
  /\ \A r \in Runs : backup[r].pc # "write"
  /\ \E c \in Contents \ {Content} : metadata' = <<Schema, c>>
  /\ UNCHANGED legacy /\ UnchangedProfiles /\ UnchangedInvites /\ UnchangedBackups

-----------------------------------------------------------------------------
(* The backup *)

Goto(r, pc) == backup' = [backup EXCEPT ![r].pc = pc]
Abandon(r) == backup' = [backup EXCEPT ![r] = NoBackup]

\* The locks of the states of the scopes, held from before the capture until
\* the proof is written, and by an invitation.
Holds(r) == backup[r].pc \in {"locked", "captured", "published", "verified"}
StateFree(s) == ~invite[s].open /\ \A r \in Runs : Holds(r) => s \notin backup[r].scopes

BackupStep ==
  UNCHANGED <<legacy, migrated>> /\ UnchangedProfiles /\ UnchangedInvites

\* The profiles are listed before any lock is taken.
StartBackup(r) ==
  /\ backup[r] = NoBackup
  /\ \E goal \in {"backup", "migrate", "setup"} :
       backup' = [backup EXCEPT ![r] = [NoBackup EXCEPT !.pc = "listed", !.goal = goal, !.scopes = Profiles]]
  /\ UNCHANGED <<metadata, bundles, proof>> /\ BackupStep

TakeLocks(r) ==
  /\ backup[r].pc = "listed" /\ \A s \in backup[r].scopes : StateFree(s)
  /\ Goto(r, "locked")
  /\ UNCHANGED <<metadata, bundles, proof>> /\ BackupStep

\* create_master_backup: the metadata are read first, then the secrets, under
\* the lock of the journal.
Capture(r) ==
  /\ backup[r].pc = "locked" /\ \A q \in Runs : backup[q].pc # "captured"
  /\ backup' = [backup EXCEPT ![r].pc = "captured", ![r].metadata = metadata]
  /\ UNCHANGED <<metadata, bundles, proof>> /\ BackupStep

\* What is written to the bundle: what was captured, with the authorities of
\* the scopes whose states are locked.
NewBundle(r) ==
  [metadata |-> backup[r].metadata, scopes |-> backup[r].scopes, intact |-> TRUE, verified |-> FALSE]

\* The metadata are read again and have to be the same; then the bundle is
\* published under a new name.
Publish(r) ==
  /\ backup[r].pc = "captured"
  /\ IF metadata = backup[r].metadata
     THEN /\ Len(bundles) < MaxBundles
          /\ bundles' = Append(bundles, NewBundle(r))
          /\ backup' = [backup EXCEPT ![r].pc = "published", ![r].bundle = Len(bundles) + 1]
     ELSE Abandon(r) /\ UNCHANGED bundles
  /\ UNCHANGED <<metadata, proof>> /\ BackupStep

\* _read_bundle: a file that was damaged does not decrypt, or its payload
\* does not have the hash, the count and the revision of its manifest.
ReadBack(b) == bundles[b].intact

\* The bundle is read back before anything relies on it.
Verify(r) ==
  /\ backup[r].pc = "published"
  /\ IF ReadBack(backup[r].bundle)
     THEN bundles' = [bundles EXCEPT ![backup[r].bundle].verified = TRUE] /\ Goto(r, "verified")
     ELSE Abandon(r) /\ UNCHANGED bundles
  /\ UNCHANGED <<metadata, proof>> /\ BackupStep

\* Slip: the proof speaks of the master as it is when the proof is written.
ProofOfNow(b) == [bundle |-> b.bundle, metadata |-> metadata, scopes |-> Profiles]

\* The proof speaks of what the bundle holds.
ProofOf(b) == [bundle |-> b.bundle, metadata |-> b.metadata, scopes |-> b.scopes]

\* With the proof the locks are released; only migrate and the setup of
\* personal sync have more to do.
WriteProof(r) ==
  /\ backup[r].pc = "verified"
  /\ proof' = ProofOf(backup[r])
  /\ IF backup[r].goal = "backup" THEN Abandon(r) ELSE Goto(r, "migrate")
  /\ UNCHANGED <<metadata, bundles>> /\ BackupStep

\* Slip: a backup was made, whatever has been edited since.
SourceAny(r) == TRUE

\* migrate gives the revision of its backup, the setup gives none.
Source(r) == backup[r].goal = "migrate" => metadata = backup[r].metadata

\* migrate_catalog_v3 under the lock of the metadata: the file is copied
\* unless a copy exists ...
CopyLegacy(r) ==
  /\ backup[r].pc = "migrate" /\ \A q \in Runs : backup[q].pc # "write"
  /\ IF Schema = 2 /\ Source(r)
     THEN Goto(r, "write") /\ legacy' = IF legacy = "none" THEN Content ELSE legacy
     ELSE Abandon(r) /\ UNCHANGED legacy
  /\ UNCHANGED <<metadata, bundles, proof, migrated>> /\ UnchangedProfiles /\ UnchangedInvites

\* ... and then written in the new schema.
Migrate(r) ==
  /\ backup[r].pc = "write"
  /\ metadata' = <<3, Content>>
  /\ migrated' = migrated \union {[goal |-> backup[r].goal, bundle |-> backup[r].bundle, content |-> Content]}
  /\ Abandon(r)
  /\ UNCHANGED <<legacy, bundles, proof>> /\ UnchangedProfiles /\ UnchangedInvites

\* The process dies, is refused, or a write fails; its locks are released.
BackupFails(r) ==
  /\ backup[r] # NoBackup
  /\ Abandon(r)
  /\ UNCHANGED <<metadata, bundles, proof>> /\ BackupStep

\* The file of a bundle is damaged before it is read back.  What damages it
\* later is felt by a recovery only.
DamageBundle ==
  /\ \E r \in Runs :
       /\ backup[r].pc = "published"
       /\ bundles' = [bundles EXCEPT ![backup[r].bundle].intact = FALSE]
  /\ UNCHANGED <<metadata, legacy, proof, backup, migrated>> /\ UnchangedProfiles /\ UnchangedInvites

-----------------------------------------------------------------------------
(* The invitation *)

InviteStep == UNCHANGED <<metadata, legacy>> /\ UnchangedProfiles /\ UnchangedBackups

\* invite, under the lock of the scope's state: the proof is read, ...
OpenInvitation(s) ==
  /\ s \in Profiles /\ StateFree(s)
  /\ proof # NoProof
  /\ invite' = [invite EXCEPT ![s] = [open |-> TRUE, proof |-> proof]]
  /\ UNCHANGED invited /\ InviteStep

\* _require_recovery: ... compared with the metadata and with the scope, ...
Recoverable(s) == invite[s].proof.metadata = metadata /\ s \in invite[s].proof.scopes

\* ... and named in the invitation that is saved, or nothing is saved.
SaveInvitation(s) ==
  /\ invite[s].open
  /\ invited' = IF Recoverable(s)
                THEN invited \union {[scope |-> s, bundle |-> invite[s].proof.bundle, metadata |-> metadata]}
                ELSE invited
  /\ invite' = [invite EXCEPT ![s] = NoInvitation]
  /\ InviteStep

InvitationFails(s) ==
  /\ invite[s].open
  /\ invite' = [invite EXCEPT ![s] = NoInvitation]
  /\ UNCHANGED invited /\ InviteStep

-----------------------------------------------------------------------------
InitMaster ==
  /\ \E c \in Contents : metadata = <<2, c>>
  /\ legacy = "none"
  /\ profile = [s \in MasterScopes |-> "none"] /\ hosted = {}
  /\ bundles = <<>> /\ proof = NoProof
  /\ backup = [r \in Runs |-> NoBackup]
  /\ invite = [s \in MasterScopes |-> NoInvitation] /\ invited = {}
  /\ migrated = {}

BackingUp(r) ==
  StartBackup(r) \/ TakeLocks(r) \/ Capture(r) \/ Publish(r) \/ Verify(r) \/ WriteProof(r) \/ BackupFails(r)
Migrating(r) == CopyLegacy(r) \/ Migrate(r)
Initializing(s) == InitializeLocal(s) \/ InitializeRemote(s) \/ InitializeDone(s)
Inviting(s) == OpenInvitation(s) \/ SaveInvitation(s) \/ InvitationFails(s)

NextMaster ==
  \/ Edit \/ DamageBundle
  \/ \E r \in Runs : BackingUp(r) \/ Migrating(r)
  \/ \E s \in MasterScopes : Initializing(s) \/ Inviting(s)

MasterSpec == InitMaster /\ [][NextMaster]_masterVars

-----------------------------------------------------------------------------
(* Properties *)

\* Types; and no scope is ready before the catalog can hold it (initialize
\* looks the scope up in the catalog).
MasterTypeOK ==
  /\ metadata \in {2, 3} \X Contents
  /\ legacy \in Contents \union {"none"}
  /\ profile \in [MasterScopes -> {"none", "pending", "active"}]
  /\ hosted \subseteq Profiles
  /\ proof.bundle \in 0..Len(bundles)
  /\ Profiles # {} => Schema = 3

\* Every invitation names a bundle that was read back whole, that holds the
\* authority which the invited device will trust, and that holds the metadata
\* which the master had when the invitation was accepted (_require_recovery
\* compares only the proof, which another process wrote at another time).
InvitedRecoverable ==
  \A i \in invited :
    \E b \in DOMAIN bundles :
      /\ b = i.bundle /\ bundles[b].verified
      /\ bundles[b].metadata = i.metadata /\ i.scope \in bundles[b].scopes

\* The migrate command changes only metadata that a bundle read back whole
\* holds as they were, whatever was edited since that backup; the setup of
\* personal sync asks for a backup, not for that one to be current.
MigratedFromBackup ==
  \A m \in migrated :
    \E b \in DOMAIN bundles :
      /\ b = m.bundle /\ bundles[b].verified
      /\ m.goal = "migrate" => bundles[b].metadata = <<2, m.content>>
=============================================================================

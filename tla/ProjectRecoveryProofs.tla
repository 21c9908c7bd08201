------------------------ MODULE ProjectRecoveryProofs ------------------------
(***************************************************************************)
(* Proofs about the backups, migrations and invitations of ProjectBackup   *)
(* and the restores and takeovers of ProjectRecovery, for every set of     *)
(* processes, contents, scopes and bundles and every bound.                *)
(*                                                                         *)
(* On the master's side, whatever relies on a bundle (a run that has       *)
(* written it, the proof, a running invitation) is right about it, and no  *)
(* step changes what a bundle holds.                                       *)
(*                                                                         *)
(* A recovery root passes through seven phases, and a crash never takes it *)
(* to another one: what a crash can change is only the running process.    *)
(* The inductive invariant says in which phase the root is; every property *)
(* of the root follows from each of the phases.                            *)
(***************************************************************************)
EXTENDS ProjectBackup, ProjectRecovery, TLAPS

-----------------------------------------------------------------------------
(* The backups and what relies on them *)

Revisions == ({2, 3} \X Contents) \union {Unread}
BundleRecords == [metadata : Revisions, scopes : SUBSET MasterScopes, intact : BOOLEAN, verified : BOOLEAN]
ProofRecords == [bundle : Nat, metadata : Revisions, scopes : SUBSET MasterScopes]
BackupPcs == {"idle", "listed", "locked", "captured", "published", "verified", "migrate", "write"}
BackupRecords == [pc : BackupPcs, goal : {"backup", "migrate", "setup"}, scopes : SUBSET MasterScopes,
                  metadata : Revisions, bundle : Nat]

\* What a proof says is true of its bundle, which was read back.
Holding(p) ==
  p.bundle \in DOMAIN bundles /\ bundles[p.bundle].metadata = p.metadata /\ bundles[p.bundle].scopes = p.scopes
Proves(p) == Holding(p) /\ bundles[p.bundle].verified

MetadataTyped ==
  /\ metadata \in {2, 3} \X Contents
  /\ legacy \in Contents \union {"none"}
  /\ profile \in [MasterScopes -> {"none", "pending", "active"}]
  /\ hosted \subseteq Profiles
  /\ Profiles # {} => Schema = 3
BundlesTyped == bundles \in Seq(BundleRecords)
ProofSound == proof \in ProofRecords /\ (proof = NoProof \/ Proves(proof))
InvitesSound ==
  /\ invite \in [MasterScopes -> [open : BOOLEAN, proof : ProofRecords]]
  /\ \A s \in MasterScopes : invite[s].open => Proves(invite[s].proof)

\* The run has a bundle that holds what it captured, and has read it back.
RunSound(r) ==
  /\ backup[r].pc = "published" => Holding(backup[r])
  /\ backup[r].pc \in {"verified", "migrate", "write"} => Proves(backup[r])
  /\ backup[r].pc = "write" =>
       Schema = 2 /\ (backup[r].goal = "migrate" => backup[r].metadata = metadata)
RunsSound ==
  /\ backup \in [Runs -> BackupRecords]
  /\ \A r \in Runs : RunSound(r)
  /\ \A q, r \in Runs : backup[q].pc = "write" /\ backup[r].pc = "write" => q = r

BackupInv ==
  /\ MetadataTyped /\ BundlesTyped /\ ProofSound /\ InvitesSound /\ RunsSound
  /\ InvitedRecoverable /\ MigratedFromBackup

\* What is published stays: a step adds a bundle, reads one back or damages
\* one, and none of this changes what a bundle holds.
BundlesKept ==
  \A b \in DOMAIN bundles :
    /\ b \in DOMAIN bundles'
    /\ bundles'[b].metadata = bundles[b].metadata /\ bundles'[b].scopes = bundles[b].scopes
    /\ bundles[b].verified => bundles'[b].verified

LEMMA ProvesKept ==
  ASSUME BundlesKept, NEW p
  PROVE  /\ Holding(p) => p.bundle \in DOMAIN bundles' /\ bundles'[p.bundle].metadata = p.metadata
                          /\ bundles'[p.bundle].scopes = p.scopes
         /\ Proves(p) => bundles'[p.bundle].verified
BY DEF BundlesKept, Holding, Proves

LEMMA ReliedKept ==
  ASSUME BundlesKept
  PROVE  /\ UNCHANGED proof /\ ProofSound => ProofSound'
         /\ UNCHANGED invite /\ InvitesSound => InvitesSound'
         /\ UNCHANGED invited /\ InvitedRecoverable => InvitedRecoverable'
         /\ UNCHANGED migrated /\ MigratedFromBackup => MigratedFromBackup'
<1>1. UNCHANGED proof /\ ProofSound => ProofSound'
  BY DEF BundlesKept, ProofSound, Proves, Holding
<1>2. UNCHANGED invite /\ InvitesSound => InvitesSound'
  BY DEF BundlesKept, InvitesSound, Proves, Holding
<1>3. UNCHANGED invited /\ InvitedRecoverable => InvitedRecoverable'
  BY DEF BundlesKept, InvitedRecoverable
<1>4. UNCHANGED migrated /\ MigratedFromBackup => MigratedFromBackup'
  BY DEF BundlesKept, MigratedFromBackup
<1>5. QED
  BY <1>1, <1>2, <1>3, <1>4

\* A step of one run leaves the others as they are.
LEMMA OtherRuns ==
  ASSUME RunsSound, BundlesKept, NEW r \in Runs, NEW next \in BackupRecords,
         backup' = [backup EXCEPT ![r] = next],
         RunSound(r)',
         UNCHANGED metadata \/ \A q \in Runs : q # r => backup[q].pc # "write",
         next.pc = "write" => \A q \in Runs : q # r => backup[q].pc # "write"
  PROVE  RunsSound'
<1>1. backup' \in [Runs -> BackupRecords] /\ backup'[r] = next
      /\ \A q \in Runs : q # r => backup'[q] = backup[q]
  BY DEF RunsSound
<1>2. ASSUME NEW q \in Runs, q # r PROVE RunSound(q)'
  <2>1. backup'[q] = backup[q] /\ RunSound(q)
    BY <1>1, <1>2 DEF RunsSound
  <2>2. backup[q].pc = "write" => UNCHANGED metadata
    BY <1>2
  <2>3. Holding(backup[q]) => Holding(backup[q])'
    BY <2>1 DEF BundlesKept, Holding
  <2>4. Proves(backup[q]) => Proves(backup[q])'
    BY <2>1, <2>3 DEF BundlesKept, Proves, Holding
  <2>5. QED
    BY <2>1, <2>2, <2>3, <2>4 DEF RunSound, Schema
<1>3. \A q, p \in Runs : backup'[q].pc = "write" /\ backup'[p].pc = "write" => q = p
  BY <1>1 DEF RunsSound
<1>4. QED
  BY <1>1, <1>2, <1>3 DEF RunsSound

LEMMA BundlesAsBefore == BundlesTyped /\ UNCHANGED bundles => BundlesKept
BY DEF BundlesKept

LEMMA NoBackupTyped == NoBackup \in BackupRecords /\ NoProof \in ProofRecords /\ NoInvitation \in [open : BOOLEAN, proof : ProofRecords]
BY DEF NoBackup, NoProof, NoInvitation, BackupRecords, BackupPcs, ProofRecords, Revisions, Unread

LEMMA BackupInit == InitMaster => BackupInv
<1> SUFFICES ASSUME InitMaster PROVE BackupInv
  OBVIOUS
<1>1. MetadataTyped
  BY DEF InitMaster, MetadataTyped, Profiles, Schema
<1>2. BundlesTyped
  BY DEF InitMaster, BundlesTyped
<1>3. ProofSound /\ InvitesSound
  BY NoBackupTyped DEF InitMaster, ProofSound, InvitesSound, NoInvitation
<1>4. RunsSound
  BY NoBackupTyped DEF InitMaster, RunsSound, RunSound, NoBackup
<1>5. InvitedRecoverable /\ MigratedFromBackup
  BY DEF InitMaster, InvitedRecoverable, MigratedFromBackup
<1>6. QED
  BY <1>1, <1>2, <1>3, <1>4, <1>5 DEF BackupInv

LEMMA BackupStutters == BackupInv /\ UNCHANGED masterVars => BackupInv'
<1> SUFFICES ASSUME BackupInv, UNCHANGED masterVars PROVE BackupInv'
  OBVIOUS
<1>1. BundlesKept
  BY BundlesAsBefore DEF BackupInv, masterVars
<1>2. MetadataTyped' /\ BundlesTyped' /\ RunsSound'
  BY DEF BackupInv, masterVars, MetadataTyped, BundlesTyped, RunsSound, RunSound, Holding, Proves, Profiles, Schema
<1>3. QED
  BY <1>1, <1>2, ReliedKept DEF BackupInv, masterVars

\* Steps that change nothing but the registry, the relay or the metadata.
LEMMA MasterKept ==
  ASSUME BackupInv, MetadataTyped',
         UNCHANGED metadata \/ \A r \in Runs : backup[r].pc # "write",
         UnchangedInvites, UnchangedBackups
  PROVE  BackupInv'
<1>1. BundlesKept /\ BundlesTyped'
  BY BundlesAsBefore DEF BackupInv, UnchangedBackups, BundlesTyped
<1>2. RunsSound'
  BY DEF BackupInv, UnchangedBackups, RunsSound, RunSound, Holding, Proves, Schema
<1>3. QED
  BY <1>1, <1>2, ReliedKept DEF BackupInv, UnchangedInvites, UnchangedBackups

LEMMA InitializingKeeps ==
  ASSUME BackupInv, NEW s \in MasterScopes, Initializing(s)
  PROVE  BackupInv'
<1>1. /\ metadata \in {2, 3} \X Contents /\ legacy \in Contents \union {"none"}
      /\ profile \in [MasterScopes -> {"none", "pending", "active"}]
      /\ hosted \subseteq Profiles /\ (Profiles # {} => Schema = 3)
  BY DEF BackupInv, MetadataTyped
<1>2. MetadataTyped'
  <2>1. CASE InitializeLocal(s)
    BY <1>1, <2>1 DEF InitializeLocal, Put, MetadataTyped, Profiles, Schema
  <2>2. CASE InitializeRemote(s)
    BY <1>1, <2>2 DEF InitializeRemote, MetadataTyped, Profiles, Schema
  <2>3. CASE InitializeDone(s)
    BY <1>1, <2>3 DEF InitializeDone, Put, MetadataTyped, Profiles, Schema
  <2>4. QED
    BY <2>1, <2>2, <2>3 DEF Initializing
<1>3. UNCHANGED metadata /\ UnchangedInvites /\ UnchangedBackups
  BY DEF Initializing, InitializeLocal, InitializeRemote, InitializeDone
<1>4. QED
  BY <1>2, <1>3, MasterKept

LEMMA EditKeeps == BackupInv /\ Edit => BackupInv'
<1> SUFFICES ASSUME BackupInv, Edit PROVE BackupInv'
  OBVIOUS
<1>1. PICK c \in Contents : metadata' = <<Schema, c>>
  BY DEF Edit
<1>2. MetadataTyped'
  BY <1>1 DEF BackupInv, MetadataTyped, Edit, UnchangedProfiles, Profiles, Schema
<1>3. QED
  BY <1>2, MasterKept DEF Edit

LEMMA DamageBundleKeeps == BackupInv /\ DamageBundle => BackupInv'
<1> SUFFICES ASSUME BackupInv, DamageBundle PROVE BackupInv'
  OBVIOUS
<1>1. PICK b \in DOMAIN bundles : bundles' = [bundles EXCEPT ![b].intact = FALSE]
  <2>1. PICK r \in Runs : /\ backup[r].pc = "published"
                        /\ bundles' = [bundles EXCEPT ![backup[r].bundle].intact = FALSE]
    BY DEF DamageBundle
  <2>2. backup[r].bundle \in DOMAIN bundles
    BY <2>1 DEF BackupInv, RunsSound, RunSound, Holding
  <2>3. QED
    BY <2>1, <2>2
<1>2. bundles[b] \in BundleRecords /\ bundles \in Seq(BundleRecords)
  BY <1>1 DEF BackupInv, BundlesTyped
<1>3. BundlesKept /\ BundlesTyped'
  <2>1. PICK d : d = [bundles[b] EXCEPT !.intact = FALSE]
    OBVIOUS
  <2>2. d \in BundleRecords /\ d.metadata = bundles[b].metadata /\ d.scopes = bundles[b].scopes
        /\ d.verified = bundles[b].verified
    BY <1>2, <2>1 DEF BundleRecords
  <2>3. bundles' = [bundles EXCEPT ![b] = d]
    BY <1>1, <2>1
  <2>4. bundles' \in Seq(BundleRecords) /\ DOMAIN bundles' = DOMAIN bundles
        /\ \A c \in DOMAIN bundles : bundles'[c] = IF c = b THEN d ELSE bundles[c]
    BY <1>2, <2>2, <2>3
  <2>5. QED
    BY <2>2, <2>4 DEF BundlesKept, BundlesTyped
<1>4. MetadataTyped'
  BY DEF BackupInv, MetadataTyped, DamageBundle, UnchangedProfiles, Profiles, Schema
<1>5. RunsSound'
  BY <1>3 DEF BackupInv, DamageBundle, RunsSound, RunSound, Holding, Proves, Schema, BundlesKept
<1>6. QED
  BY <1>3, <1>4, <1>5, ReliedKept DEF BackupInv, DamageBundle, UnchangedInvites

-----------------------------------------------------------------------------
(* The steps of a backup *)

LEMMA RunKeeps ==
  ASSUME BackupInv, NEW r \in Runs, NEW next \in BackupRecords,
         backup' = [backup EXCEPT ![r] = next],
         UNCHANGED <<metadata, migrated>>, legacy' \in Contents \union {"none"},
         UnchangedProfiles, UnchangedInvites,
         BundlesKept, BundlesTyped', ProofSound', RunSound(r)',
         next.pc = "write" => \A q \in Runs : q # r => backup[q].pc # "write"
  PROVE  BackupInv'
<1>1. MetadataTyped'
  BY DEF BackupInv, MetadataTyped, UnchangedProfiles, Profiles, Schema
<1>2. RunsSound'
  BY OtherRuns DEF BackupInv
<1>3. QED
  BY <1>1, <1>2, ReliedKept DEF BackupInv, UnchangedInvites

\* A step that publishes nothing and writes no proof.
LEMMA RunMoves ==
  ASSUME BackupInv, NEW r \in Runs, NEW next \in BackupRecords,
         backup' = [backup EXCEPT ![r] = next],
         UNCHANGED <<metadata, bundles, proof>>, BackupStep,
         RunSound(r)', next.pc # "write"
  PROVE  BackupInv'
<1>1. BundlesKept /\ BundlesTyped'
  BY BundlesAsBefore DEF BackupInv, BundlesTyped
<1>2. ProofSound'
  BY <1>1, ReliedKept DEF BackupInv
<1>3. legacy' \in Contents \union {"none"}
  BY DEF BackupInv, MetadataTyped, BackupStep
<1>4. QED
  BY <1>1, <1>2, <1>3, RunKeeps DEF BackupStep

\* The run whose step it is, and what it becomes when it goes on or ends.
LEMMA RunOf ==
  ASSUME RunsSound, NEW r \in Runs, NEW pc \in BackupPcs
  PROVE  /\ backup[r] \in BackupRecords
         /\ [backup[r] EXCEPT !.pc = pc] \in BackupRecords
         /\ Goto(r, pc) => backup' = [backup EXCEPT ![r] = [backup[r] EXCEPT !.pc = pc]]
         /\ Goto(r, pc) => backup'[r] = [backup[r] EXCEPT !.pc = pc]
BY DEF RunsSound, BackupRecords, Goto

LEMMA AbandonSound ==
  ASSUME RunsSound, NEW r \in Runs, Abandon(r)
  PROVE  backup'[r] = NoBackup /\ RunSound(r)'
<1>1. backup'[r] = NoBackup
  BY DEF RunsSound, Abandon
<1>2. QED
  BY <1>1 DEF RunSound, NoBackup

LEMMA StartBackupKeeps ==
  ASSUME BackupInv, NEW r \in Runs, StartBackup(r)
  PROVE  BackupInv'
<1>1. PICK goal \in {"backup", "migrate", "setup"} :
        backup' = [backup EXCEPT ![r] = [NoBackup EXCEPT !.pc = "listed", !.goal = goal, !.scopes = Profiles]]
  BY DEF StartBackup
<1>2. PICK next : next = [NoBackup EXCEPT !.pc = "listed", !.goal = goal, !.scopes = Profiles]
  OBVIOUS
<1>3. next \in BackupRecords /\ next.pc = "listed"
  BY <1>2 DEF NoBackup, BackupRecords, BackupPcs, Revisions, Unread, Profiles
<1>4. RunSound(r)'
  BY <1>1, <1>2, <1>3 DEF RunSound, BackupInv, RunsSound
<1>5. QED
  BY <1>1, <1>2, <1>3, <1>4, RunMoves DEF StartBackup

LEMMA TakeLocksKeeps ==
  ASSUME BackupInv, NEW r \in Runs, TakeLocks(r)
  PROVE  BackupInv'
<1>1. "locked" \in BackupPcs /\ RunsSound /\ Goto(r, "locked")
  BY DEF BackupInv, TakeLocks, BackupPcs
<1>2. PICK next : next = [backup[r] EXCEPT !.pc = "locked"]
  OBVIOUS
<1>3. next \in BackupRecords /\ backup' = [backup EXCEPT ![r] = next] /\ backup'[r] = next
  BY <1>1, <1>2, RunOf
<1>4. next.pc = "locked"
  BY <1>1, <1>2, RunOf DEF BackupRecords
<1>5. RunSound(r)'
  BY <1>3, <1>4 DEF RunSound
<1>6. QED
  BY <1>3, <1>4, <1>5, RunMoves DEF TakeLocks

LEMMA CaptureKeeps ==
  ASSUME BackupInv, NEW r \in Runs, Capture(r)
  PROVE  BackupInv'
<1>1. backup[r] \in BackupRecords /\ metadata \in Revisions
  BY DEF BackupInv, RunsSound, MetadataTyped, Revisions
<1>2. PICK next : next = [backup[r] EXCEPT !.pc = "captured", !.metadata = metadata]
  OBVIOUS
<1>3. next \in BackupRecords /\ next.pc = "captured"
  BY <1>1, <1>2 DEF BackupRecords, BackupPcs
<1>4. backup' = [backup EXCEPT ![r] = next]
  BY <1>2 DEF Capture, BackupInv, RunsSound
<1>5. RunSound(r)'
  BY <1>3, <1>4 DEF RunSound, BackupInv, RunsSound
<1>6. QED
  BY <1>3, <1>4, <1>5, RunMoves DEF Capture

LEMMA PublishKeeps ==
  ASSUME BackupInv, NEW r \in Runs, Publish(r)
  PROVE  BackupInv'
<1>1. backup[r] \in BackupRecords /\ bundles \in Seq(BundleRecords)
  BY DEF BackupInv, RunsSound, BundlesTyped
<1>2. UNCHANGED <<metadata, proof>> /\ BackupStep /\ legacy' \in Contents \union {"none"}
  BY DEF Publish, BackupStep, BackupInv, MetadataTyped
<1>3. CASE Abandon(r) /\ UNCHANGED bundles
  <2>1. RunSound(r)' /\ backup' = [backup EXCEPT ![r] = NoBackup] /\ NoBackup.pc # "write"
    BY <1>3, AbandonSound DEF BackupInv, Abandon, NoBackup
  <2>2. QED
    BY <1>2, <1>3, <2>1, NoBackupTyped, RunMoves
<1>4. CASE /\ bundles' = Append(bundles, NewBundle(r))
           /\ backup' = [backup EXCEPT ![r].pc = "published", ![r].bundle = Len(bundles) + 1]
  <2>1. PICK d : d = NewBundle(r)
    OBVIOUS
  <2>2. d \in BundleRecords /\ d.metadata = backup[r].metadata /\ d.scopes = backup[r].scopes
    BY <1>1, <2>1 DEF NewBundle, BundleRecords, BackupRecords
  <2>3. /\ bundles' \in Seq(BundleRecords) /\ DOMAIN bundles' = 1..(Len(bundles) + 1)
        /\ DOMAIN bundles = 1..Len(bundles) /\ Len(bundles) \in Nat
        /\ \A b \in DOMAIN bundles : bundles'[b] = bundles[b]
        /\ bundles'[Len(bundles) + 1] = d
    BY <1>1, <1>4, <2>1, <2>2
  <2>4. BundlesKept /\ BundlesTyped'
    BY <2>3 DEF BundlesKept, BundlesTyped
  <2>5. PICK n \in Nat : n = Len(bundles) + 1
    BY <2>3
  <2>6. PICK next : next = [backup[r] EXCEPT !.pc = "published", !.bundle = n]
    OBVIOUS
  <2>7. "published" \in BackupPcs
    BY DEF BackupPcs
  <2>8. /\ next \in BackupRecords /\ next.pc = "published" /\ next.bundle = n
        /\ next.metadata = backup[r].metadata /\ next.scopes = backup[r].scopes
    BY <1>1, <2>6, <2>7 DEF BackupRecords
  <2>9. backup' = [backup EXCEPT ![r] = next] /\ backup'[r] = next
    BY <1>4, <2>5, <2>6 DEF BackupInv, RunsSound
  <2>10. RunSound(r)'
    BY <2>2, <2>3, <2>5, <2>8, <2>9 DEF RunSound, Holding
  <2>11. ProofSound'
    BY <1>2, <2>4, ReliedKept DEF BackupInv
  <2>12. QED
    BY <1>2, <2>4, <2>8, <2>9, <2>10, <2>11, RunKeeps DEF BackupStep
<1>5. QED
  BY <1>3, <1>4 DEF Publish

LEMMA VerifyKeeps ==
  ASSUME BackupInv, NEW r \in Runs, Verify(r)
  PROVE  BackupInv'
<1>1. backup[r] \in BackupRecords /\ bundles \in Seq(BundleRecords) /\ Holding(backup[r]) /\ RunsSound
  BY DEF BackupInv, RunsSound, RunSound, BundlesTyped, Verify
<1>2. UNCHANGED <<metadata, proof>> /\ BackupStep /\ legacy' \in Contents \union {"none"}
  BY DEF Verify, BackupStep, BackupInv, MetadataTyped
<1>3. CASE Abandon(r) /\ UNCHANGED bundles
  <2>1. RunSound(r)' /\ backup' = [backup EXCEPT ![r] = NoBackup] /\ NoBackup.pc # "write"
    BY <1>3, AbandonSound DEF BackupInv, Abandon, NoBackup
  <2>2. QED
    BY <1>2, <1>3, <2>1, NoBackupTyped, RunMoves
<1>4. CASE bundles' = [bundles EXCEPT ![backup[r].bundle].verified = TRUE] /\ Goto(r, "verified")
  <2>1. PICK b : b = backup[r].bundle
    OBVIOUS
  <2>2. b \in DOMAIN bundles /\ bundles[b] \in BundleRecords
    BY <1>1, <2>1 DEF Holding
  <2>3. PICK d : d = [bundles[b] EXCEPT !.verified = TRUE]
    OBVIOUS
  <2>4. d \in BundleRecords /\ d.metadata = bundles[b].metadata /\ d.scopes = bundles[b].scopes /\ d.verified
    BY <2>2, <2>3 DEF BundleRecords
  <2>5. bundles' = [bundles EXCEPT ![b] = d]
    BY <1>4, <2>1, <2>3
  <2>6. bundles' \in Seq(BundleRecords) /\ DOMAIN bundles' = DOMAIN bundles
        /\ \A c \in DOMAIN bundles : bundles'[c] = IF c = b THEN d ELSE bundles[c]
    BY <1>1, <2>2, <2>4, <2>5
  <2>7. BundlesKept /\ BundlesTyped'
    BY <2>4, <2>6 DEF BundlesKept, BundlesTyped
  <2>8. PICK next : next = [backup[r] EXCEPT !.pc = "verified"]
    OBVIOUS
  <2>9. "verified" \in BackupPcs
    BY DEF BackupPcs
  <2>10. next \in BackupRecords /\ backup' = [backup EXCEPT ![r] = next] /\ backup'[r] = next
    BY <1>1, <1>4, <2>8, <2>9, RunOf
  <2>11. next.pc = "verified" /\ next.bundle = b /\ next.metadata = backup[r].metadata /\ next.scopes = backup[r].scopes
    BY <1>1, <2>1, <2>8 DEF BackupRecords
  <2>12. RunSound(r)'
    BY <1>1, <2>1, <2>2, <2>4, <2>6, <2>10, <2>11 DEF RunSound, Holding, Proves
  <2>13. ProofSound'
    BY <1>2, <2>7, ReliedKept DEF BackupInv
  <2>14. QED
    BY <1>2, <2>7, <2>10, <2>11, <2>12, <2>13, RunKeeps DEF BackupStep
<1>5. QED
  BY <1>3, <1>4 DEF Verify

LEMMA WriteProofKeeps ==
  ASSUME BackupInv, NEW r \in Runs, WriteProof(r)
  PROVE  BackupInv'
<1>1. backup[r] \in BackupRecords /\ Proves(backup[r]) /\ RunsSound
  BY DEF BackupInv, RunsSound, RunSound, WriteProof
<1>2. UNCHANGED <<metadata, bundles>> /\ BackupStep /\ legacy' \in Contents \union {"none"}
  BY DEF WriteProof, BackupStep, BackupInv, MetadataTyped
<1>3. BundlesKept /\ BundlesTyped'
  BY <1>2, BundlesAsBefore DEF BackupInv, BundlesTyped
<1>4. ProofSound'
  <2>1. proof' = ProofOf(backup[r])
    BY DEF WriteProof
  <2>2. proof' \in ProofRecords /\ Proves(proof')
    BY <1>1, <2>1 DEF ProofOf, ProofRecords, BackupRecords, Proves, Holding
  <2>3. QED
    BY <1>2, <2>2 DEF ProofSound, Proves, Holding
<1>5. CASE Abandon(r)
  <2>1. RunSound(r)' /\ backup' = [backup EXCEPT ![r] = NoBackup] /\ NoBackup.pc # "write"
    BY <1>5, AbandonSound DEF BackupInv, Abandon, NoBackup
  <2>2. QED
    BY <1>2, <1>3, <1>4, <2>1, NoBackupTyped, RunKeeps DEF BackupStep
<1>6. CASE Goto(r, "migrate")
  <2>1. "migrate" \in BackupPcs
    BY DEF BackupPcs
  <2>2. PICK next : next = [backup[r] EXCEPT !.pc = "migrate"]
    OBVIOUS
  <2>3. next \in BackupRecords /\ backup' = [backup EXCEPT ![r] = next] /\ backup'[r] = next
    BY <1>1, <1>6, <2>1, <2>2, RunOf
  <2>4. /\ next.pc = "migrate" /\ next.bundle = backup[r].bundle
        /\ next.metadata = backup[r].metadata /\ next.scopes = backup[r].scopes
    BY <1>1, <2>2 DEF BackupRecords
  <2>5. RunSound(r)'
    BY <1>1, <1>2, <2>3, <2>4 DEF RunSound, Holding, Proves
  <2>6. QED
    BY <1>2, <1>3, <1>4, <2>3, <2>4, <2>5, RunKeeps DEF BackupStep
<1>7. QED
  BY <1>5, <1>6 DEF WriteProof

LEMMA BackupFailsKeeps ==
  ASSUME BackupInv, NEW r \in Runs, BackupFails(r)
  PROVE  BackupInv'
<1>1. RunSound(r)' /\ backup' = [backup EXCEPT ![r] = NoBackup] /\ NoBackup.pc # "write"
  BY AbandonSound DEF BackupInv, BackupFails, Abandon, NoBackup
<1>2. QED
  BY <1>1, NoBackupTyped, RunMoves DEF BackupFails

-----------------------------------------------------------------------------
(* The migration *)

LEMMA CopyLegacyKeeps ==
  ASSUME BackupInv, NEW r \in Runs, CopyLegacy(r)
  PROVE  BackupInv'
<1>1. backup[r] \in BackupRecords /\ Proves(backup[r]) /\ RunsSound /\ metadata \in {2, 3} \X Contents
  BY DEF BackupInv, RunsSound, RunSound, CopyLegacy, MetadataTyped
<1>2. /\ UNCHANGED <<metadata, bundles, proof, migrated>> /\ UnchangedProfiles /\ UnchangedInvites
      /\ \A q \in Runs : backup[q].pc # "write"
  BY DEF CopyLegacy
<1>3. BundlesKept /\ BundlesTyped'
  BY <1>2, BundlesAsBefore DEF BackupInv, BundlesTyped
<1>4. ProofSound'
  BY <1>2, <1>3, ReliedKept DEF BackupInv
<1>5. legacy' \in Contents \union {"none"}
  BY <1>1 DEF CopyLegacy, BackupInv, MetadataTyped, Content
<1>6. CASE Abandon(r)
  <2>1. RunSound(r)' /\ backup' = [backup EXCEPT ![r] = NoBackup]
    BY <1>6, AbandonSound DEF BackupInv, Abandon
  <2>2. QED
    BY <1>2, <1>3, <1>4, <1>5, <2>1, NoBackupTyped, RunKeeps
<1>7. CASE Schema = 2 /\ Source(r) /\ Goto(r, "write")
  <2>1. "write" \in BackupPcs
    BY DEF BackupPcs
  <2>2. PICK next : next = [backup[r] EXCEPT !.pc = "write"]
    OBVIOUS
  <2>3. next \in BackupRecords /\ backup' = [backup EXCEPT ![r] = next] /\ backup'[r] = next
    BY <1>1, <1>7, <2>1, <2>2, RunOf
  <2>4. /\ next.pc = "write" /\ next.bundle = backup[r].bundle /\ next.goal = backup[r].goal
        /\ next.metadata = backup[r].metadata /\ next.scopes = backup[r].scopes
    BY <1>1, <2>2 DEF BackupRecords
  <2>5. RunSound(r)'
    BY <1>1, <1>2, <1>7, <2>3, <2>4 DEF RunSound, Holding, Proves, Source, Schema
  <2>6. QED
    BY <1>2, <1>3, <1>4, <1>5, <2>3, <2>5, RunKeeps
<1>8. QED
  BY <1>6, <1>7 DEF CopyLegacy

LEMMA MigrateKeeps ==
  ASSUME BackupInv, NEW r \in Runs, Migrate(r)
  PROVE  BackupInv'
<1>1. /\ backup[r] \in BackupRecords /\ Proves(backup[r]) /\ RunsSound /\ metadata \in {2, 3} \X Contents
      /\ Schema = 2 /\ (backup[r].goal = "migrate" => backup[r].metadata = metadata)
      /\ \A q \in Runs : q # r => backup[q].pc # "write"
  BY DEF BackupInv, RunsSound, RunSound, Migrate, MetadataTyped
<1>2. UNCHANGED <<legacy, bundles, proof>> /\ UnchangedProfiles /\ UnchangedInvites
  BY DEF Migrate
<1>3. BundlesKept /\ BundlesTyped'
  BY <1>2, BundlesAsBefore DEF BackupInv, BundlesTyped
<1>4. MetadataTyped'
  BY <1>1, <1>2 DEF Migrate, BackupInv, MetadataTyped, Content, Schema, UnchangedProfiles, Profiles
<1>5. RunsSound'
  <2>1. RunSound(r)' /\ backup' = [backup EXCEPT ![r] = NoBackup] /\ NoBackup.pc # "write"
    BY AbandonSound DEF BackupInv, Migrate, Abandon, NoBackup
  <2>2. QED
    BY <1>1, <1>3, <2>1, NoBackupTyped, OtherRuns
<1>6. MigratedFromBackup'
  <2>1. metadata = <<2, Content>>
    BY <1>1 DEF Content, Schema
  <2>2. PICK m : m = [goal |-> backup[r].goal, bundle |-> backup[r].bundle, content |-> Content]
    OBVIOUS
  <2>3. migrated' = migrated \union {m}
    BY <2>2 DEF Migrate
  <2>4. /\ m.bundle \in DOMAIN bundles /\ bundles[m.bundle].verified
        /\ m.goal = "migrate" => bundles[m.bundle].metadata = <<2, m.content>>
    BY <1>1, <2>1, <2>2 DEF Proves, Holding
  <2>5. QED
    BY <1>2, <2>3, <2>4 DEF BackupInv, MigratedFromBackup
<1>7. ProofSound' /\ InvitesSound' /\ InvitedRecoverable'
  BY <1>2, <1>3, ReliedKept DEF BackupInv, UnchangedInvites
<1>8. QED
  BY <1>3, <1>4, <1>5, <1>6, <1>7 DEF BackupInv

-----------------------------------------------------------------------------
(* The invitation *)

LEMMA InvitingKeeps ==
  ASSUME BackupInv, NEW s \in MasterScopes, Inviting(s)
  PROVE  BackupInv'
<1>1. UNCHANGED <<metadata, legacy>> /\ UnchangedProfiles /\ UnchangedBackups
  BY DEF Inviting, OpenInvitation, SaveInvitation, InvitationFails, InviteStep
<1>2. BundlesKept /\ BundlesTyped'
  BY <1>1, BundlesAsBefore DEF BackupInv, BundlesTyped, UnchangedBackups
<1>3. MetadataTyped' /\ RunsSound'
  BY <1>1 DEF BackupInv, MetadataTyped, Profiles, Schema, UnchangedProfiles, UnchangedBackups,
              RunsSound, RunSound, Holding, Proves
<1>4. ProofSound' /\ MigratedFromBackup'
  BY <1>1, <1>2, ReliedKept DEF BackupInv, UnchangedBackups
<1>5. InvitesSound'
  <2>1. invite \in [MasterScopes -> [open : BOOLEAN, proof : ProofRecords]] /\ UNCHANGED bundles
        /\ \A t \in MasterScopes : invite[t].open => Proves(invite[t].proof)
    BY <1>1 DEF BackupInv, InvitesSound, UnchangedBackups
  <2>2. CASE OpenInvitation(s)
    <3>1. PICK i : i = [open |-> TRUE, proof |-> proof]
      OBVIOUS
    <3>2. i \in [open : BOOLEAN, proof : ProofRecords] /\ Proves(i.proof)
      BY <2>2, <3>1 DEF OpenInvitation, BackupInv, ProofSound
    <3>3. invite' = [invite EXCEPT ![s] = i]
      BY <2>2, <3>1 DEF OpenInvitation
    <3>4. QED
      BY <2>1, <3>2, <3>3 DEF InvitesSound, Proves, Holding
  <2>3. CASE invite' = [invite EXCEPT ![s] = NoInvitation]
    <3>1. ~NoInvitation.open
      BY DEF NoInvitation
    <3>2. QED
      BY <2>1, <2>3, <3>1, NoBackupTyped DEF InvitesSound, Proves, Holding
  <2>4. QED
    BY <2>2, <2>3 DEF Inviting, SaveInvitation, InvitationFails
<1>6. InvitedRecoverable'
  <2>1. CASE UNCHANGED invited
    BY <1>2, <2>1, ReliedKept DEF BackupInv
  <2>2. CASE SaveInvitation(s) /\ Recoverable(s)
    <3>1. PICK i : i = [scope |-> s, bundle |-> invite[s].proof.bundle, metadata |-> metadata]
      OBVIOUS
    <3>2. invited' = invited \union {i}
      BY <2>2, <3>1 DEF SaveInvitation
    <3>3. Proves(invite[s].proof)
      BY <2>2 DEF SaveInvitation, BackupInv, InvitesSound
    <3>4. /\ i.bundle \in DOMAIN bundles /\ bundles[i.bundle].verified
          /\ bundles[i.bundle].metadata = i.metadata /\ i.scope \in bundles[i.bundle].scopes
      BY <2>2, <3>1, <3>3 DEF Recoverable, Proves, Holding
    <3>5. QED
      BY <1>1, <3>2, <3>4 DEF BackupInv, InvitedRecoverable, UnchangedBackups
  <2>3. QED
    BY <2>1, <2>2 DEF Inviting, OpenInvitation, SaveInvitation, InvitationFails
<1>7. QED
  BY <1>2, <1>3, <1>4, <1>5, <1>6 DEF BackupInv

-----------------------------------------------------------------------------
(* The theorems *)

\* BackupInv is inductive: whatever processes back up, migrate, edit, invite
\* and damage files in whatever order, a proof, a running invitation and a
\* run that has verified its bundle are each right about a published bundle.
THEOREM BackupInductive == MasterSpec => []BackupInv
<1>1. BackupInv /\ [NextMaster]_masterVars => BackupInv'
  <2> SUFFICES ASSUME BackupInv, [NextMaster]_masterVars PROVE BackupInv'
    OBVIOUS
  <2>1. ASSUME NEW r \in Runs, BackingUp(r) PROVE BackupInv'
    BY <2>1, StartBackupKeeps, TakeLocksKeeps, CaptureKeeps, PublishKeeps, VerifyKeeps, WriteProofKeeps,
       BackupFailsKeeps DEF BackingUp
  <2>2. ASSUME NEW r \in Runs, Migrating(r) PROVE BackupInv'
    BY <2>2, CopyLegacyKeeps, MigrateKeeps DEF Migrating
  <2>3. ASSUME NEW s \in MasterScopes, Initializing(s) \/ Inviting(s) PROVE BackupInv'
    BY <2>3, InitializingKeeps, InvitingKeeps
  <2>4. CASE Edit \/ DamageBundle
    BY <2>4, EditKeeps, DamageBundleKeeps
  <2>5. CASE UNCHANGED masterVars
    BY <2>5, BackupStutters
  <2>6. QED
    BY <2>1, <2>2, <2>3, <2>4, <2>5 DEF NextMaster
<1>2. QED
  BY <1>1, BackupInit, PTL DEF MasterSpec

\* Types of the master; its proof names a published bundle, and no scope has a
\* profile before the catalog of version 3 exists.
THEOREM MasterTypeCorrect == MasterSpec => []MasterTypeOK
<1>1. BackupInv => MasterTypeOK
  <2> SUFFICES ASSUME BackupInv PROVE MasterTypeOK
    OBVIOUS
  <2>1. proof.bundle \in 0..Len(bundles)
    <3>1. bundles \in Seq(BundleRecords) /\ DOMAIN bundles = 1..Len(bundles) /\ Len(bundles) \in Nat
      BY DEF BackupInv, BundlesTyped
    <3>2. CASE proof = NoProof
      BY <3>1, <3>2 DEF NoProof
    <3>3. CASE Proves(proof)
      BY <3>1, <3>3 DEF Proves, Holding
    <3>4. QED
      BY <3>2, <3>3 DEF BackupInv, ProofSound
  <2>2. QED
    BY <2>1 DEF BackupInv, MetadataTyped, MasterTypeOK
<1>2. QED
  BY <1>1, BackupInductive, PTL

\* An invited device can always be recovered: the bundle that its invitation
\* relies on (_require_recovery) was read back whole and holds the authority
\* of its scope and the metadata that the master had at that moment, however
\* many processes back up and edit in between.
THEOREM InvitedRecoverableHolds == MasterSpec => []InvitedRecoverable
<1>1. BackupInv => InvitedRecoverable
  BY DEF BackupInv
<1>2. QED
  BY <1>1, BackupInductive, PTL

\* The catalog is migrated only with a bundle read back whole, and by the
\* migrate command only while the metadata are those of its bundle
\* (migrate_catalog_v3 with an expected revision).
THEOREM MigratedFromBackupHolds == MasterSpec => []MigratedFromBackup
<1>1. BackupInv => MigratedFromBackup
  BY DEF BackupInv
<1>2. QED
  BY <1>1, BackupInductive, PTL
-----------------------------------------------------------------------------
(* The recovery root *)

BundleIds == Bundles \union {0}
Origins == {FromBundle(b) : b \in Bundles} \union {FromPlan(p) : p \in 1..MaxPlans}
Pcs == {"idle", "restore", "create", "stage", "install", "ready", "activate", "unlink"}
Procs == [pc : Pcs, bundle : BundleIds, scope : Scopes \union {"none"}, left : Seq(Files)]

\* The recovery root and the process that works on it.
RootTyped ==
  /\ marker \in [status : {"none", "restore_in_progress", "restored", "takeover_ready"},
                 bundle : BundleIds]
  /\ disk \in [Files -> SUBSET Origins]
  /\ journal \in [plan : 0..MaxPlans, bundle : BundleIds, sources : SUBSET Origins, created : SUBSET Scopes]
  /\ activation \in 0..MaxPlans /\ plans \in 0..MaxPlans
  /\ proc \in Procs

\* The files of a sequence that the process has done with all hold this origin.
Done(files, origin) == \A f \in Range(files) \ Range(proc.left) : disk[f] = {origin}

Unplanned == journal = NoPlan /\ activation = 0 /\ plans = 0
FromOneBundle == \A f \in Files : disk[f] \subseteq {FromBundle(marker.bundle)}

Untouched == Empty /\ plans = 0 /\ proc = Idle

BeingRestored ==
  /\ marker.status = "restore_in_progress" /\ marker.bundle # 0
  /\ Unplanned /\ FromOneBundle
  /\ \/ proc = Idle
     \/ /\ proc.pc = "restore" /\ proc.bundle = marker.bundle
        /\ Done(RestoreFiles, FromBundle(marker.bundle))

Restored ==
  /\ marker.status = "restored" /\ marker.bundle # 0
  /\ Unplanned /\ FromOneBundle
  /\ proc = Idle
  /\ \A f \in Range(RestoreFiles) : disk[f] = {FromBundle(marker.bundle)}

\* The plan is of the backup of its root and made of nothing else.
PlanOfBackup == journal.bundle = marker.bundle /\ journal.sources = {FromBundle(journal.bundle)}

\* A plan has been made, and its scopes are being created or its files written.
Planned ==
  /\ marker.status = "restored" /\ marker.bundle # 0
  /\ journal.plan # 0 /\ plans = journal.plan /\ activation = 0 /\ PlanOfBackup
  /\ \A s \in journal.created : <<journal.plan, s>> \in relay
  /\ \/ proc = Idle
     \/ proc.pc = "create"
     \/ proc.pc = "stage" /\ proc.scope \in Scopes /\ <<journal.plan, proc.scope>> \in relay
     \/ proc.pc = "install" /\ journal.created = Scopes /\ Done(InstallFiles, FromPlan(journal.plan))

\* The new authority is complete: every file is the plan's and every scope exists.
Complete ==
  /\ activation # 0 /\ Installed(activation)
  /\ \A s \in Scopes : <<activation, s>> \in relay

Activated ==
  /\ Complete
  /\ marker.status \in {"restored", "takeover_ready"} /\ journal.plan = activation /\ PlanOfBackup
  /\ proc = Idle \/ proc.pc \in {"ready", "activate"}

Retired ==
  /\ Complete
  /\ marker.status = "takeover_ready" /\ journal = NoPlan
  /\ proc = Idle \/ proc.pc \in {"activate", "unlink"}

Operable == Complete /\ marker = NoMarker /\ journal = NoPlan /\ proc = Idle

Phase ==
  Untouched \/ BeingRestored \/ Restored \/ Planned \/ Activated \/ Retired \/ Operable

\* The scopes on the relay are those of the one plan.
RelaySound == \A x \in relay : x[1] # 0 /\ x[1] \in {journal.plan, activation}

RecoveryInv == damaged \subseteq Bundles /\ RootTyped /\ RelaySound /\ Phase

-----------------------------------------------------------------------------
(* The files of a root *)

\* The files that _restore_locked and _install_local_takeover write, by name.
LEMMA FilesAre ==
  /\ Range(RestoreFiles) = {"metadata", "accounts", "operations", "project_state"}
  /\ Range(InstallFiles) =
       {"metadata", "registry", "states", "history", "accounts", "password", "settings"}
  /\ RestoreFiles \in Seq(Files) /\ InstallFiles \in Seq(Files)
<1>1. Range(RestoreFiles) = {"metadata", "accounts", "operations", "project_state"}
  <2>1. DOMAIN RestoreFiles = {1, 2, 3, 4}
    BY DEF RestoreFiles
  <2>2. QED
    BY <2>1 DEF RestoreFiles, Range
<1>2. Range(InstallFiles) =
        {"metadata", "registry", "states", "history", "accounts", "password", "settings"}
  <2>1. DOMAIN InstallFiles = {1, 2, 3, 4, 5, 6, 7}
    BY DEF InstallFiles
  <2>2. QED
    BY <2>1 DEF InstallFiles, Range
<1>3. RestoreFiles \in Seq(Files)
  BY <1>1 DEF Files, RestoreFiles
<1>4. InstallFiles \in Seq(Files)
  BY <1>2 DEF Files, InstallFiles
<1>5. QED
  BY <1>1, <1>2, <1>3, <1>4

\* One file is done at a time: the first of those that are left.
LEMMA OneFileDone ==
  ASSUME NEW s \in Seq(Files), s # <<>>
  PROVE  /\ Head(s) \in Files /\ Tail(s) \in Seq(Files)
         /\ Range(s) = Range(Tail(s)) \union {Head(s)}
<1>1. Head(s) \in Files /\ Tail(s) \in Seq(Files)
  OBVIOUS
<1>2. ASSUME NEW f, f \in Range(s)
      PROVE  f \in Range(Tail(s)) \union {Head(s)}
  <2>1. \E i \in DOMAIN s : s[i] = f
    BY <1>2 DEF Range
  <2>2. PICK i \in DOMAIN s : s[i] = f
    BY <2>1
  <2>3. CASE i = 1
    BY <2>2, <2>3
  <2>4. CASE i # 1
    <3>1. i - 1 \in DOMAIN Tail(s) /\ Tail(s)[i - 1] = f
      BY <2>2, <2>4
    <3>2. QED
      BY <3>1 DEF Range
  <2>5. QED
    BY <2>3, <2>4
<1>3. ASSUME NEW f, f \in Range(Tail(s))
      PROVE  f \in Range(s)
  <2>1. \E i \in DOMAIN Tail(s) : Tail(s)[i] = f
    BY <1>3 DEF Range
  <2>2. PICK i \in DOMAIN Tail(s) : Tail(s)[i] = f
    BY <2>1
  <2>3. i + 1 \in DOMAIN s /\ s[i + 1] = f
    BY <2>2
  <2>4. QED
    BY <2>3 DEF Range
<1>4. Head(s) \in Range(s)
  <2>1. 1 \in DOMAIN s /\ s[1] = Head(s)
    OBVIOUS
  <2>2. QED
    BY <2>1 DEF Range
<1>5. QED
  BY <1>1, <1>2, <1>3, <1>4

LEMMA NothingLeft == Range(<<>>) = {}
BY DEF Range

LEMMA IdleTyped == Idle \in Procs
<1>1. <<>> \in Seq(Files) /\ 0 \in BundleIds
  BY DEF BundleIds
<1>2. QED
  BY <1>1 DEF Idle, Procs, Pcs

-----------------------------------------------------------------------------
(* The initial states *)

LEMMA RecoveryInit == Init => RecoveryInv
<1>1. SUFFICES ASSUME Init PROVE RecoveryInv
  OBVIOUS
<1>2. damaged \subseteq Bundles
  BY <1>1 DEF Init
<1>4. RootTyped
  BY <1>1, IdleTyped, RecoveryAssumption DEF Init, RootTyped, NoMarker, NoPlan, BundleIds
<1>5. RelaySound
  BY <1>1 DEF Init, RelaySound
<1>6. Phase
  BY <1>1 DEF Init, Phase, Untouched, Empty
<1>7. QED
  BY <1>2, <1>4, <1>5, <1>6 DEF RecoveryInv

\* What changes nothing of the root leaves it in its phase.
LEMMA RootKept ==
  ASSUME RootTyped, RelaySound, Phase,
         UNCHANGED <<relay, marker, disk, journal, activation, proc, plans>>
  PROVE  RootTyped' /\ RelaySound' /\ Phase'
<1>1. RootTyped'
  BY DEF RootTyped
<1>2. RelaySound'
  BY DEF RelaySound
<1>3. Phase'
  <2>1. Complete => Complete'
    BY DEF Complete, Installed
  <2>2. Untouched => Untouched'
    BY DEF Untouched, Empty
  <2>3. BeingRestored => BeingRestored'
    BY DEF BeingRestored, Unplanned, FromOneBundle, Done
  <2>4. Restored => Restored'
    BY DEF Restored, Unplanned, FromOneBundle
  <2>5. Planned => Planned'
    BY DEF Planned, Done, PlanOfBackup
  <2>6. Activated => Activated'
    BY <2>1 DEF Activated, PlanOfBackup
  <2>7. Retired => Retired'
    BY <2>1 DEF Retired
  <2>8. Operable => Operable'
    BY <2>1 DEF Operable
  <2>9. QED
    BY <2>2, <2>3, <2>4, <2>5, <2>6, <2>7, <2>8 DEF Phase
<1>4. QED
  BY <1>1, <1>2, <1>3

\* What a published bundle holds does not change, so what an invitation was
\* given for stays true of it.
-----------------------------------------------------------------------------
(* The steps of a restore *)

\* A restore begins in an empty root or takes up one of the same backup.
LEMMA StartRestoreKeeps ==
  ASSUME RecoveryInv, NEW b \in Bundles, StartRestore(b)
  PROVE  RecoveryInv'
<1>1. b \in Bundles /\ b # 0 /\ b \in BundleIds
  BY RecoveryAssumption DEF BundleIds
<1>2. damaged' \subseteq Bundles
  BY DEF RecoveryInv, StartRestore
<1>3. RootTyped'
  <2>1. [Idle EXCEPT !.pc = "restore", !.bundle = b, !.left = RestoreFiles] \in Procs
    <3>1. b \in BundleIds /\ RestoreFiles \in Seq(Files) /\ "restore" \in Pcs
      BY <1>1, FilesAre DEF Pcs
    <3>2. QED
      BY <3>1, IdleTyped DEF Procs
  <2>2. [status |-> "restore_in_progress", bundle |-> b] \in
          [status : {"none", "restore_in_progress", "restored", "takeover_ready"}, bundle : BundleIds]
    BY <1>1
  <2>3. QED
    BY <2>1, <2>2 DEF RecoveryInv, RootTyped, StartRestore
<1>4. RelaySound'
  BY DEF RecoveryInv, RelaySound, StartRestore
<1>5. Unplanned /\ \A f \in Files : disk[f] \subseteq {FromBundle(b)}
  <2>1. CASE Empty
    BY <2>1 DEF RecoveryInv, Phase, Empty, Untouched, BeingRestored, Restored, Planned, Activated,
                Retired, Operable, Complete, Unplanned, NoMarker, NoPlan
  <2>2. CASE MayResume(b)
    BY <2>2 DEF MayResume, RecoveryInv, Phase, Empty, Untouched, BeingRestored, Restored, Planned,
                Activated, Retired, Operable, Complete, Unplanned, FromOneBundle, NoMarker, NoPlan
  <2>3. QED
    BY <2>1, <2>2 DEF StartRestore
<1>6. /\ marker' = [status |-> "restore_in_progress", bundle |-> b]
      /\ proc'.pc = "restore" /\ proc'.bundle = b /\ proc'.left = RestoreFiles
      /\ UNCHANGED <<disk, journal, activation, plans>>
  BY DEF StartRestore, Idle
<1>7. BeingRestored'
  BY <1>1, <1>5, <1>6 DEF BeingRestored, Unplanned, FromOneBundle, Done
<1>8. QED
  BY <1>2, <1>3, <1>4, <1>7 DEF RecoveryInv, Phase

\* A restore that runs is in a root that is being restored from its bundle.
LEMMA RunningRestore ==
  ASSUME RecoveryInv, proc.pc = "restore"
  PROVE  /\ BeingRestored /\ proc.bundle = marker.bundle
         /\ Done(RestoreFiles, FromBundle(marker.bundle))
BY DEF RecoveryInv, Phase, Untouched, BeingRestored, Restored, Planned, Activated, Retired, Operable, Idle

LEMMA RestoreFileKeeps == RecoveryInv /\ RestoreFile => RecoveryInv'
<1>1. SUFFICES ASSUME RecoveryInv, RestoreFile PROVE RecoveryInv'
  OBVIOUS
<1> DEFINE h == Head(proc.left)
           origin == FromBundle(marker.bundle)
<1>2. /\ proc.pc = "restore" /\ proc.left # <<>> /\ proc.left \in Seq(Files)
      /\ proc \in Procs
  BY <1>1 DEF RestoreFile, RecoveryInv, RootTyped, Procs
<1>3. /\ h \in Files /\ Tail(proc.left) \in Seq(Files)
      /\ Range(proc.left) = Range(Tail(proc.left)) \union {h}
  BY <1>2, OneFileDone
<1>4. /\ BeingRestored /\ proc.bundle = marker.bundle
      /\ Done(RestoreFiles, origin)
  BY <1>1, <1>2, RunningRestore
<1>5. origin \in Origins
  BY <1>1, <1>4 DEF BeingRestored, RecoveryInv, RootTyped, Origins, BundleIds
<1>6. /\ disk' = [disk EXCEPT ![h] = disk'[h]]
      /\ disk'[h] = {origin}
      /\ UNCHANGED <<relay, marker, journal, activation, plans>>
  <2>1. disk[h] \subseteq {origin} /\ disk \in [Files -> SUBSET Origins]
    BY <1>1, <1>3, <1>4 DEF BeingRestored, FromOneBundle, RecoveryInv, RootTyped
  <2>2. disk' = [disk EXCEPT ![h] = {origin} \union
                                   (IF h \in {"accounts", "operations"} THEN @ ELSE {})]
    BY <1>1, <1>4 DEF RestoreFile
  <2>3. QED
    <3> HIDE DEF h, origin
    <3>1. disk'[h] = {origin}
      BY <1>3, <2>1, <2>2
    <3>2. disk' = [disk EXCEPT ![h] = disk'[h]]
      BY <1>3, <2>1, <2>2
    <3>3. QED
      BY <1>1, <3>1, <3>2 DEF RestoreFile
<1>7. proc' = [proc EXCEPT !.left = Tail(proc.left)]
  BY <1>1 DEF RestoreFile
<1> HIDE DEF h, origin
<1>8. damaged' \subseteq Bundles
  BY <1>1 DEF RecoveryInv, RestoreFile
<1>9. RootTyped'
  <2>1. proc' \in Procs
    BY <1>2, <1>3, <1>7 DEF Procs
  <2>2. disk' \in [Files -> SUBSET Origins]
    BY <1>1, <1>3, <1>5, <1>6 DEF RecoveryInv, RootTyped
  <2>3. QED
    BY <1>1, <1>6, <2>1, <2>2 DEF RecoveryInv, RootTyped
<1>10. RelaySound'
  BY <1>1, <1>6 DEF RecoveryInv, RelaySound
<1>11. BeingRestored'
  <2>1. FromOneBundle'
    BY <1>1, <1>4, <1>6 DEF BeingRestored, FromOneBundle, RecoveryInv, RootTyped, origin
  <2>2. Done(RestoreFiles, FromBundle(marker.bundle))'
    <3>1. proc'.left = Tail(proc.left)
      BY <1>2, <1>7 DEF Procs
    <3>2. disk \in [Files -> SUBSET Origins] /\ Range(RestoreFiles) \subseteq Files
      BY <1>1 DEF RecoveryInv, RootTyped, Files
    <3>3. ASSUME NEW f \in Range(RestoreFiles), f \notin Range(Tail(proc.left))
          PROVE  disk'[f] = {origin}
      BY <1>3, <1>4, <1>6, <3>2, <3>3 DEF Done
    <3>4. QED
      BY <1>6, <3>1, <3>3 DEF Done, origin
  <2>3. proc'.pc = "restore" /\ proc'.bundle = marker'.bundle
    BY <1>2, <1>4, <1>6, <1>7 DEF Procs
  <2>4. QED
    BY <1>4, <1>6, <2>1, <2>2, <2>3 DEF BeingRestored, Unplanned
<1>12. QED
  BY <1>8, <1>9, <1>10, <1>11 DEF RecoveryInv, Phase

\* When no file is left the root is the bundle, in every file.
LEMMA EndRestoreKeeps == RecoveryInv /\ EndRestore => RecoveryInv'
<1>1. SUFFICES ASSUME RecoveryInv, EndRestore PROVE RecoveryInv'
  OBVIOUS
<1>2. BeingRestored /\ Done(RestoreFiles, FromBundle(marker.bundle)) /\ proc.left = <<>>
  BY <1>1, RunningRestore DEF EndRestore
<1>3. \A f \in Range(RestoreFiles) : disk[f] = {FromBundle(marker.bundle)}
  BY <1>2, NothingLeft DEF Done
<1>4. damaged' \subseteq Bundles
  BY <1>1 DEF RecoveryInv, EndRestore
<1>5. RootTyped'
  BY <1>1, IdleTyped DEF RecoveryInv, RootTyped, EndRestore
<1>6. RelaySound'
  BY <1>1 DEF RecoveryInv, RelaySound, EndRestore
<1>7. /\ marker'.status = "restored" /\ marker'.bundle = marker.bundle /\ proc' = Idle
      /\ UNCHANGED <<disk, journal, activation, plans>>
  BY <1>1 DEF EndRestore, RecoveryInv, RootTyped
<1>8. Restored'
  BY <1>2, <1>3, <1>7 DEF BeingRestored, Restored, Unplanned, FromOneBundle
<1>9. QED
  BY <1>4, <1>5, <1>6, <1>8 DEF RecoveryInv, Phase

-----------------------------------------------------------------------------
(* The steps of a takeover *)

\* The first takeover of a restored root makes the one plan; a later one finds
\* it and goes on with it.
LEMMA PrepareKeeps ==
  ASSUME RecoveryInv, NEW b \in Bundles, proc = Idle, activation = 0, Prepare(b)
  PROVE  RecoveryInv'
<1>1. b \in Bundles /\ b # 0 /\ b \in BundleIds
  BY RecoveryAssumption DEF BundleIds
<1>2. damaged' \subseteq Bundles
  BY DEF RecoveryInv, Prepare
<1>3. /\ UNCHANGED <<relay, marker, disk, activation>>
      /\ proc' = [Idle EXCEPT !.pc = "create", !.bundle = b]
  BY DEF Prepare
<1>4. proc' \in Procs /\ proc'.pc = "create"
  <2>1. b \in BundleIds /\ "create" \in Pcs
    BY <1>1 DEF Pcs
  <2>2. QED
    BY <1>3, <2>1, IdleTyped DEF Procs
<1>5. CASE journal = NoPlan
  <2>1. /\ plans < MaxPlans /\ plans' = plans + 1
        /\ journal' = NewPlan(b)
        /\ marker.status = "restored" /\ marker.bundle = b
    BY <1>5 DEF Prepare
  <2>2. Restored
    BY <1>5, <2>1 DEF RecoveryInv, Phase, Untouched, Empty, BeingRestored, Restored, Planned,
                      Activated, Retired, Operable, Complete, NoMarker, NoPlan
  <2>3. plans = 0 /\ marker.bundle # 0
    BY <2>2 DEF Restored, Unplanned
  <2>8. /\ journal' = [plan |-> plans + 1, bundle |-> b, sources |-> {FromBundle(b)}, created |-> {}]
        /\ journal'.plan = plans + 1 /\ journal'.created = {} /\ PlanOfBackup'
    <3>1. disk["metadata"] \union disk["accounts"] \union disk["project_state"] = {FromBundle(b)}
      BY <2>1, <2>2, FilesAre DEF Restored
    <3>2. journal' = [plan |-> plans + 1, bundle |-> b, sources |-> {FromBundle(b)}, created |-> {}]
      BY <2>1, <3>1 DEF NewPlan
    <3>3. QED
      BY <1>3, <2>1, <3>2 DEF PlanOfBackup
  <2>4. RootTyped'
    <3>1. journal' \in [plan : 0..MaxPlans, bundle : BundleIds, sources : SUBSET Origins, created : SUBSET Scopes]
      BY <1>1, <2>1, <2>3, <2>8, RecoveryAssumption DEF Origins
    <3>2. plans' \in 0..MaxPlans
      BY <2>1, <2>3, RecoveryAssumption
    <3>3. QED
      BY <1>3, <1>4, <3>1, <3>2 DEF RecoveryInv, RootTyped
  <2>5. RelaySound'
    BY <1>3, <1>5, <2>1, <2>2 DEF RecoveryInv, RelaySound, NoPlan, Restored, Unplanned
  <2>6. Planned'
    BY <1>3, <1>4, <2>1, <2>3, <2>8 DEF Planned
  <2>7. QED
    BY <1>2, <2>4, <2>5, <2>6 DEF RecoveryInv, Phase
<1>6. CASE journal # NoPlan
  <2>1. UNCHANGED <<plans, journal>> /\ marker.status \in {"restored", "takeover_ready"}
    BY <1>6 DEF Prepare
  <2>2. Planned
    BY <1>6, <2>1 DEF RecoveryInv, Phase, Untouched, Empty, BeingRestored, Restored, Planned,
                      Activated, Retired, Operable, Complete, Unplanned, NoMarker
  <2>3. RootTyped' /\ RelaySound'
    BY <1>3, <1>4, <2>1 DEF RecoveryInv, RootTyped, RelaySound
  <2>4. Planned'
    BY <1>3, <1>4, <2>1, <2>2 DEF Planned, PlanOfBackup
  <2>5. QED
    BY <1>2, <2>3, <2>4 DEF RecoveryInv, Phase
<1>7. QED
  BY <1>5, <1>6

\* With an activation record, only the end is left to do.
LEMMA StartTakeoverKeeps ==
  ASSUME RecoveryInv, NEW b \in Bundles, StartTakeover(b)
  PROVE  RecoveryInv'
<1>1. CASE activation = 0 /\ Prepare(b)
  BY <1>1, PrepareKeeps DEF StartTakeover
<1>2. CASE ~(activation = 0 /\ Prepare(b))
  <2>1. /\ ActivationHolds(b) /\ proc = Idle
        /\ marker' = [marker EXCEPT !.status = "takeover_ready"]
        /\ proc' = [Idle EXCEPT !.pc = "activate", !.bundle = b]
        /\ UNCHANGED <<relay, disk, journal, activation, plans, damaged>>
    BY <1>2 DEF StartTakeover, Step
  <2>2. Activated \/ Retired
    BY <2>1 DEF ActivationHolds, RecoveryInv, Phase, Untouched, Empty, BeingRestored, Restored,
                Planned, Operable, Unplanned
  <2>3. proc' \in Procs /\ proc'.pc = "activate"
    <3>1. b \in BundleIds /\ "activate" \in Pcs
      BY DEF BundleIds, Pcs
    <3>2. QED
      BY <2>1, <3>1, IdleTyped DEF Procs
  <2>4. /\ marker'.status = "takeover_ready"
        /\ marker' \in [status : {"none", "restore_in_progress", "restored", "takeover_ready"},
                        bundle : BundleIds]
    BY <2>1 DEF RecoveryInv, RootTyped
  <2>5. damaged' \subseteq Bundles
    BY <2>1 DEF RecoveryInv
  <2>6. RootTyped' /\ RelaySound'
    BY <2>1, <2>3, <2>4 DEF RecoveryInv, RootTyped, RelaySound
  <2>7. Complete => Complete'
    BY <2>1 DEF Complete, Installed
  <2>8. Activated' \/ Retired'
    BY <2>1, <2>2, <2>3, <2>4, <2>7 DEF Activated, Retired, PlanOfBackup, RecoveryInv, RootTyped
  <2>9. QED
    BY <2>5, <2>6, <2>8 DEF RecoveryInv, Phase
<1>3. QED
  BY <1>1, <1>2

\* Creating scopes and installing files belong to a root with a plan.
LEMMA RunningPlan ==
  ASSUME RecoveryInv, proc.pc \in {"create", "stage", "install"}
  PROVE  /\ Planned
         /\ proc.pc = "stage" => proc.scope \in Scopes /\ <<journal.plan, proc.scope>> \in relay
         /\ proc.pc = "install" =>
              journal.created = Scopes /\ Done(InstallFiles, FromPlan(journal.plan))
BY DEF RecoveryInv, Phase, Untouched, BeingRestored, Restored, Planned, Activated, Retired, Operable, Idle

LEMMA CreateScopeKeeps == RecoveryInv /\ CreateScope => RecoveryInv'
<1>1. SUFFICES ASSUME RecoveryInv, CreateScope PROVE RecoveryInv'
  OBVIOUS
<1>2. PICK s \in Scopes : /\ relay' = relay \union {<<journal.plan, s>>}
                          /\ proc' = [proc EXCEPT !.pc = "stage", !.scope = s]
  BY <1>1 DEF CreateScope
<1>3. Planned /\ UNCHANGED <<marker, disk, journal, activation, plans>>
  BY <1>1, RunningPlan DEF CreateScope, Step
<1>4. proc' \in Procs /\ proc'.pc = "stage" /\ proc'.scope = s
  BY <1>1, <1>2 DEF RecoveryInv, RootTyped, Procs, Pcs
<1>5. damaged' \subseteq Bundles
  BY <1>1 DEF RecoveryInv, CreateScope, Step
<1>6. RootTyped' /\ RelaySound'
  <2>1. RootTyped'
    BY <1>1, <1>3, <1>4 DEF RecoveryInv, RootTyped
  <2>2. RelaySound'
    BY <1>1, <1>2, <1>3 DEF RecoveryInv, RelaySound, Planned
  <2>3. QED
    BY <2>1, <2>2
<1>7. Planned'
  BY <1>2, <1>3, <1>4 DEF Planned, PlanOfBackup
<1>8. QED
  BY <1>5, <1>6, <1>7 DEF RecoveryInv, Phase

\* A scope counts as created once the relay has it.
LEMMA StageScopeKeeps == RecoveryInv /\ StageScope => RecoveryInv'
<1>1. SUFFICES ASSUME RecoveryInv, StageScope PROVE RecoveryInv'
  OBVIOUS
<1>2. /\ Planned /\ proc.scope \in Scopes /\ <<journal.plan, proc.scope>> \in relay
      /\ UNCHANGED <<relay, marker, disk, activation, plans>>
      /\ journal' = [journal EXCEPT !.created = @ \union {proc.scope}]
      /\ proc' = [proc EXCEPT !.pc = "create", !.scope = "none"]
  BY <1>1, RunningPlan DEF StageScope, Step
<1>3. proc' \in Procs /\ proc'.pc = "create"
  BY <1>1, <1>2 DEF RecoveryInv, RootTyped, Procs, Pcs
<1>4. /\ journal' \in [plan : 0..MaxPlans, bundle : BundleIds, sources : SUBSET Origins, created : SUBSET Scopes]
      /\ journal'.plan = journal.plan /\ journal'.created = journal.created \union {proc.scope}
  BY <1>1, <1>2 DEF RecoveryInv, RootTyped
<1>5. damaged' \subseteq Bundles
  BY <1>1 DEF RecoveryInv, StageScope, Step
<1>6. RootTyped' /\ RelaySound'
  BY <1>1, <1>2, <1>3, <1>4 DEF RecoveryInv, RootTyped, RelaySound
<1>7. Planned'
  BY <1>2, <1>3, <1>4 DEF Planned, PlanOfBackup
<1>8. QED
  BY <1>5, <1>6, <1>7 DEF RecoveryInv, Phase

LEMMA StartInstallKeeps == RecoveryInv /\ StartInstall => RecoveryInv'
<1>1. SUFFICES ASSUME RecoveryInv, StartInstall PROVE RecoveryInv'
  OBVIOUS
<1>2. /\ Planned /\ journal.created = Scopes
      /\ UNCHANGED <<relay, marker, disk, journal, activation, plans>>
      /\ proc' = [proc EXCEPT !.pc = "install", !.left = InstallFiles]
  BY <1>1, RunningPlan DEF StartInstall, Step
<1>3. proc' \in Procs /\ proc'.pc = "install" /\ proc'.left = InstallFiles
  BY <1>1, <1>2, FilesAre DEF RecoveryInv, RootTyped, Procs, Pcs
<1>4. damaged' \subseteq Bundles
  BY <1>1 DEF RecoveryInv, StartInstall, Step
<1>5. RootTyped' /\ RelaySound'
  BY <1>1, <1>2, <1>3 DEF RecoveryInv, RootTyped, RelaySound
<1>6. Planned'
  BY <1>2, <1>3 DEF Planned, PlanOfBackup, Done
<1>7. QED
  BY <1>4, <1>5, <1>6 DEF RecoveryInv, Phase

\* _install_local_takeover replaces one file after the other.
LEMMA InstallFileKeeps == RecoveryInv /\ InstallFile => RecoveryInv'
<1>1. SUFFICES ASSUME RecoveryInv, InstallFile PROVE RecoveryInv'
  OBVIOUS
<1> DEFINE h == Head(proc.left)
           origin == FromPlan(journal.plan)
<1>2. /\ proc.pc = "install" /\ proc.left # <<>> /\ proc.left \in Seq(Files) /\ proc \in Procs
      /\ UNCHANGED <<relay, marker, journal, activation, plans>>
      /\ disk' = [disk EXCEPT ![h] = {origin}]
      /\ proc' = [proc EXCEPT !.left = Tail(proc.left)]
  BY <1>1 DEF InstallFile, Step, RecoveryInv, RootTyped, Procs
<1>3. /\ h \in Files /\ Tail(proc.left) \in Seq(Files)
      /\ Range(proc.left) = Range(Tail(proc.left)) \union {h}
  BY <1>2, OneFileDone
<1>4. /\ Planned /\ journal.created = Scopes /\ Done(InstallFiles, origin)
  BY <1>1, <1>2, RunningPlan
<1>5. origin \in Origins
  BY <1>1, <1>4, RecoveryAssumption DEF Planned, RecoveryInv, RootTyped, Origins
<1> HIDE DEF h, origin
<1>6. proc' \in Procs /\ proc'.pc = "install" /\ proc'.left = Tail(proc.left)
  BY <1>2, <1>3 DEF Procs
<1>7. disk \in [Files -> SUBSET Origins] /\ Range(InstallFiles) \subseteq Files
  BY <1>1 DEF RecoveryInv, RootTyped, Files
<1>8. damaged' \subseteq Bundles
  BY <1>1 DEF RecoveryInv, InstallFile, Step
<1>9. RootTyped' /\ RelaySound'
  <2>1. disk' \in [Files -> SUBSET Origins]
    BY <1>2, <1>5, <1>7
  <2>2. QED
    BY <1>1, <1>2, <1>6, <2>1 DEF RecoveryInv, RootTyped, RelaySound
<1>10. Planned'
  <2>1. ASSUME NEW f \in Range(InstallFiles), f \notin Range(Tail(proc.left))
        PROVE  disk'[f] = {origin}
    BY <1>2, <1>3, <1>4, <1>7, <2>1 DEF Done
  <2>2. Done(InstallFiles, FromPlan(journal.plan))'
    BY <1>2, <1>6, <2>1 DEF Done, origin
  <2>3. QED
    BY <1>2, <1>4, <1>6, <2>2 DEF Planned, PlanOfBackup
<1>11. QED
  BY <1>8, <1>9, <1>10 DEF RecoveryInv, Phase

\* The activation record is written when every file and every scope is there.
LEMMA WriteActivationKeeps == RecoveryInv /\ WriteActivation => RecoveryInv'
<1>1. SUFFICES ASSUME RecoveryInv, WriteActivation PROVE RecoveryInv'
  OBVIOUS
<1>2. /\ Planned /\ journal.created = Scopes /\ Installed(journal.plan)
      /\ UNCHANGED <<relay, marker, disk, journal, plans>>
      /\ activation' = journal.plan
      /\ proc' = [proc EXCEPT !.pc = "ready"]
  BY <1>1, RunningPlan DEF WriteActivation, Step
<1>3. proc' \in Procs /\ proc'.pc = "ready"
  BY <1>1, <1>2 DEF RecoveryInv, RootTyped, Procs, Pcs
<1>4. damaged' \subseteq Bundles
  BY <1>1 DEF RecoveryInv, WriteActivation, Step
<1>5. RootTyped' /\ RelaySound'
  <2>1. RootTyped'
    BY <1>1, <1>2, <1>3 DEF RecoveryInv, RootTyped
  <2>2. RelaySound'
    BY <1>1, <1>2 DEF RecoveryInv, RelaySound, Planned
  <2>3. QED
    BY <2>1, <2>2
<1>6. Activated'
  BY <1>2, <1>3 DEF Planned, Activated, Complete, Installed, PlanOfBackup
<1>7. QED
  BY <1>4, <1>5, <1>6 DEF RecoveryInv, Phase

LEMMA MarkReadyKeeps == RecoveryInv /\ MarkReady => RecoveryInv'
<1>1. SUFFICES ASSUME RecoveryInv, MarkReady PROVE RecoveryInv'
  OBVIOUS
<1>2. /\ Activated
      /\ UNCHANGED <<relay, disk, journal, activation, plans>>
      /\ marker' = [marker EXCEPT !.status = "takeover_ready"]
      /\ proc' = [proc EXCEPT !.pc = "activate"]
  BY <1>1 DEF MarkReady, Step, RecoveryInv, Phase, Untouched, BeingRestored, Restored, Planned, Retired,
              Operable, Idle
<1>3. proc' \in Procs /\ proc'.pc = "activate"
  BY <1>1, <1>2 DEF RecoveryInv, RootTyped, Procs, Pcs
<1>4. /\ marker'.status = "takeover_ready"
      /\ marker' \in [status : {"none", "restore_in_progress", "restored", "takeover_ready"},
                      bundle : BundleIds]
  BY <1>1, <1>2 DEF RecoveryInv, RootTyped
<1>5. damaged' \subseteq Bundles
  BY <1>1 DEF RecoveryInv, MarkReady, Step
<1>6. RootTyped' /\ RelaySound'
  BY <1>1, <1>2, <1>3, <1>4 DEF RecoveryInv, RootTyped, RelaySound
<1>7. Activated'
  BY <1>2, <1>3, <1>4 DEF Activated, Complete, Installed, PlanOfBackup
<1>8. QED
  BY <1>5, <1>6, <1>7 DEF RecoveryInv, Phase

\* The plan, with the secrets in it, goes before the marker.
LEMMA ActivateKeeps == RecoveryInv /\ Activate => RecoveryInv'
<1>1. SUFFICES ASSUME RecoveryInv, Activate PROVE RecoveryInv'
  OBVIOUS
<1>2. /\ Activated \/ Retired
      /\ marker.status = "takeover_ready"
      /\ UNCHANGED <<relay, marker, disk, activation, plans>>
      /\ journal' = NoPlan
      /\ proc' = [proc EXCEPT !.pc = "unlink"]
  BY <1>1 DEF Activate, Step, RecoveryInv, Phase, Untouched, BeingRestored, Restored, Planned, Operable, Idle
<1>3. proc' \in Procs /\ proc'.pc = "unlink"
  BY <1>1, <1>2 DEF RecoveryInv, RootTyped, Procs, Pcs
<1>4. damaged' \subseteq Bundles
  BY <1>1 DEF RecoveryInv, Activate, Step
<1>5. RootTyped'
  BY <1>1, <1>2, <1>3, RecoveryAssumption DEF RecoveryInv, RootTyped, NoPlan, BundleIds
<1>6. RelaySound'
  BY <1>1, <1>2 DEF RecoveryInv, RelaySound, Activated, Retired, NoPlan
<1>7. Retired'
  BY <1>2, <1>3 DEF Activated, Retired, Complete, Installed
<1>8. QED
  BY <1>4, <1>5, <1>6, <1>7 DEF RecoveryInv, Phase

LEMMA UnlinkKeeps == RecoveryInv /\ Unlink => RecoveryInv'
<1>1. SUFFICES ASSUME RecoveryInv, Unlink PROVE RecoveryInv'
  OBVIOUS
<1>2. /\ Retired
      /\ UNCHANGED <<relay, disk, journal, activation, plans>>
      /\ marker' = NoMarker /\ proc' = Idle
  BY <1>1 DEF Unlink, Step, RecoveryInv, Phase, Untouched, BeingRestored, Restored, Planned, Activated,
              Operable, Idle
<1>3. damaged' \subseteq Bundles
  BY <1>1 DEF RecoveryInv, Unlink, Step
<1>4. RootTyped' /\ RelaySound'
  BY <1>1, <1>2, IdleTyped, RecoveryAssumption DEF RecoveryInv, RootTyped, RelaySound, NoMarker, BundleIds
<1>5. Operable'
  BY <1>2 DEF Retired, Operable, Complete, Installed
<1>6. QED
  BY <1>3, <1>4, <1>5 DEF RecoveryInv, Phase

-----------------------------------------------------------------------------
(* A crash, and the invariant *)

\* A damaged backup ends the runs that need it and changes nothing else.
LEMMA DamageKeeps == RecoveryInv /\ Damage => RecoveryInv'
<1>1. SUFFICES ASSUME RecoveryInv, Damage PROVE RecoveryInv'
  OBVIOUS
<1>2. damaged' \subseteq Bundles
  BY <1>1 DEF Damage, RecoveryInv
<1>3. RootTyped' /\ RelaySound' /\ Phase'
  BY <1>1, RootKept DEF Damage, RecoveryInv
<1>4. QED
  BY <1>2, <1>3 DEF RecoveryInv

\* Every phase allows that nothing runs.
LEMMA CrashKeeps == RecoveryInv /\ Crash => RecoveryInv'
<1>1. SUFFICES ASSUME RecoveryInv, Crash PROVE RecoveryInv'
  OBVIOUS
<1>2. UNCHANGED <<damaged, relay, marker, disk, journal, activation, plans>> /\ proc' = Idle
  BY <1>1 DEF Crash
<1>3. damaged' \subseteq Bundles
  BY <1>1, <1>2 DEF RecoveryInv
<1>4. RootTyped' /\ RelaySound'
  BY <1>1, <1>2, IdleTyped DEF RecoveryInv, RootTyped, RelaySound
<1>5. Phase'
  <2>1. Complete => Complete'
    BY <1>2 DEF Complete, Installed
  <2>2. Untouched => Untouched'
    BY <1>2 DEF Untouched, Empty
  <2>3. BeingRestored => BeingRestored'
    BY <1>2 DEF BeingRestored, Unplanned, FromOneBundle
  <2>4. Restored => Restored'
    BY <1>2 DEF Restored, Unplanned, FromOneBundle
  <2>5. Planned => Planned'
    BY <1>2 DEF Planned, PlanOfBackup
  <2>6. (Activated => Activated') /\ (Retired => Retired') /\ (Operable => Operable')
    BY <1>2, <2>1 DEF Activated, Retired, Operable, PlanOfBackup
  <2>7. QED
    BY <1>1, <2>2, <2>3, <2>4, <2>5, <2>6 DEF RecoveryInv, Phase
<1>6. QED
  BY <1>3, <1>4, <1>5 DEF RecoveryInv

\* The inductive invariant: whatever the restores, the takeovers and the
\* crashes do, the root is in one of its phases.
THEOREM RecoveryInductive == Spec => []RecoveryInv
<1>1. RecoveryInv /\ [Next]_vars => RecoveryInv'
  <2>1. SUFFICES ASSUME RecoveryInv, [Next]_vars PROVE RecoveryInv'
    OBVIOUS
  <2>2. CASE Crash \/ Damage
    BY <2>1, <2>2, CrashKeeps, DamageKeeps
  <2>3. ASSUME NEW b \in Bundles, StartRestore(b) PROVE RecoveryInv'
    BY <2>1, <2>3, StartRestoreKeeps
  <2>4. ASSUME NEW b \in Bundles, StartTakeover(b) PROVE RecoveryInv'
    BY <2>1, <2>4, StartTakeoverKeeps
  <2>5. CASE Restoring
    BY <2>1, <2>5, RestoreFileKeeps, EndRestoreKeeps DEF Restoring
  <2>6. CASE TakingOver
    BY <2>1, <2>6, CreateScopeKeeps, StageScopeKeeps, StartInstallKeeps, InstallFileKeeps,
       WriteActivationKeeps, MarkReadyKeeps, ActivateKeeps, UnlinkKeeps DEF TakingOver
  <2>7. CASE UNCHANGED vars
    BY <2>1, <2>7, RootKept DEF vars, RecoveryInv
  <2>8. QED
    BY <2>1, <2>2, <2>3, <2>4, <2>5, <2>6, <2>7 DEF Next
<1>2. QED
  BY <1>1, RecoveryInit, PTL DEF Spec

-----------------------------------------------------------------------------
(* What it gives *)

\* What a recovery root says of itself is true of its files: a root marked as
\* restored is one backup in every file, and a root that assert_available lets
\* the runtime use is the new authority in every file, with its scopes on the
\* relay and without the plan.
THEOREM RecoveryRootWholeHolds == Spec => []RecoveryRootWhole
<1>1. RecoveryInv => RecoveryRootWhole
  <2>1. SUFFICES ASSUME RecoveryInv PROVE RecoveryRootWhole
    OBVIOUS
  <2>2. TypeOK
    <3>2. marker.status = "takeover_ready" => activation # 0
      BY <2>1 DEF RecoveryInv, Phase, Untouched, Empty, BeingRestored, Restored, Planned, Activated,
                  Retired, Operable, Complete, NoMarker
    <3>3. QED
      BY <2>1, <3>2 DEF RecoveryInv, RootTyped, TypeOK, Origins
  <2>3. RestoredIsWhole
    BY <2>1 DEF RestoredIsWhole, RecoveryInv, Phase, Untouched, Empty, BeingRestored, Restored, Planned,
                Activated, Retired, Operable, Complete, NoMarker, NoPlan
  <2>6. PlanOfOneBackup
    BY <2>1 DEF PlanOfOneBackup, PlanOfBackup, RecoveryInv, Phase, Untouched, Empty, BeingRestored, Restored,
                Planned, Activated, Retired, Operable, Unplanned
  <2>4. OperableIsFresh
    BY <2>1 DEF OperableIsFresh, RecoveryInv, Phase, Untouched, BeingRestored, Restored, Planned,
                Activated, Retired, Operable, Complete, NoMarker
  <2>5. QED
    BY <2>2, <2>3, <2>4, <2>6 DEF RecoveryRootWhole
<1>2. QED
  BY <1>1, RecoveryInductive, PTL

\* However often a takeover is cut off and run again, every scope it made on
\* the relay is of the one plan that is or becomes the authority
\* (prepare_takeover makes the plan durable before any request).
THEOREM OneAuthorityHolds == Spec => []OneAuthority
<1>1. RecoveryInv => OneAuthority
  BY DEF RecoveryInv, RelaySound, OneAuthority
<1>2. QED
  BY <1>1, RecoveryInductive, PTL
=============================================================================

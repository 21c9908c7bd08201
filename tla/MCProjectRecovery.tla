-------------------------- MODULE MCProjectRecovery --------------------------
(* An instance of the master's backups and of a recovery from them.  The    *)
(* two machines share the files of bundles and nothing else, and a recovery *)
(* begins with any of them, damaged or not, so that no interleaving of both *)
(* says more than each of them alone: a behaviour is one of either.         *)
EXTENDS ProjectBackup, ProjectRecovery, TLC

SystemInit == InitMaster /\ Init

OnMaster == Init /\ UNCHANGED vars
OnRoot == InitMaster /\ UNCHANGED masterVars

SystemNext ==
  \/ OnMaster /\ Edit
  \/ OnMaster /\ DamageBundle
  \/ \E r \in Runs : \/ OnMaster /\ StartBackup(r)
                     \/ OnMaster /\ TakeLocks(r)
                     \/ OnMaster /\ Capture(r)
                     \/ OnMaster /\ Publish(r)
                     \/ OnMaster /\ Verify(r)
                     \/ OnMaster /\ WriteProof(r)
                     \/ OnMaster /\ BackupFails(r)
                     \/ OnMaster /\ CopyLegacy(r)
                     \/ OnMaster /\ Migrate(r)
  \/ \E s \in MasterScopes : \/ OnMaster /\ InitializeLocal(s)
                             \/ OnMaster /\ InitializeRemote(s)
                             \/ OnMaster /\ InitializeDone(s)
                             \/ OnMaster /\ OpenInvitation(s)
                             \/ OnMaster /\ SaveInvitation(s)
                             \/ OnMaster /\ InvitationFails(s)
  \/ \E b \in Bundles : \/ OnRoot /\ StartRestore(b)
                        \/ OnRoot /\ StartTakeover(b)
  \/ OnRoot /\ RestoreFile
  \/ OnRoot /\ EndRestore
  \/ OnRoot /\ CreateScope
  \/ OnRoot /\ StageScope
  \/ OnRoot /\ StartInstall
  \/ OnRoot /\ InstallFile
  \/ OnRoot /\ WriteActivation
  \/ OnRoot /\ MarkReady
  \/ OnRoot /\ Activate
  \/ OnRoot /\ Unlink
  \/ OnRoot /\ Crash
  \/ OnRoot /\ Damage

SystemSpec == SystemInit /\ [][SystemNext]_<<masterVars, vars>> /\ Fairness

\* Sound for TakeoverCompletes too, which speaks of the recovery root: while
\* that one acts, the contents and the processes of the master stay as they are.
MasterSymmetry == Permutations(Contents) \union Permutations(Runs)
=============================================================================

--------------------------- MODULE ProjectRecovery ---------------------------
(***************************************************************************)
(* The restore of a backup of the master into a root that stays blocked,   *)
(* and the takeover that makes it a new authority (project_backup.py,      *)
(* project_recovery.py).  Of the backups, made as ProjectBackup describes, *)
(* nothing but their files is used.                                        *)
(*                                                                         *)
(* Restore and takeover hold the lock of the recovery root for their whole *)
(* length, so one of them runs at a time and a crash is the only thing     *)
(* that comes between two of their writes.                                 *)
(***************************************************************************)
EXTENDS Naturals, FiniteSets, Sequences

CONSTANTS
  Bundles,     \* the published backups
  Scopes,      \* project scopes of the restored catalog
  MaxPlans,    \* bound on takeover plans
  MaxFaults    \* bound on crashes, lost answers and damaged bundles

ASSUME RecoveryAssumption ==
  /\ Bundles \subseteq Nat \ {0}
  /\ IsFiniteSet(Scopes)
  /\ MaxPlans \in Nat /\ MaxFaults \in Nat

VARIABLES
  damaged,    \* the bundles that cannot be read any more
  relay,      \* scopes that takeovers made on the relay: <<plan, scope>>
  marker,     \* recovery-only: its status and its bundle
  disk,       \* files of the recovery root: the origins of what each holds
  journal,    \* the takeover journal: the plan, its bundle, what it was made of and its scopes created so far
  activation, \* recovery-activation.json: a plan, or 0
  proc,       \* the running restore or takeover
  plans, faults

vars == <<damaged, relay, marker, disk, journal, activation, proc, plans, faults>>

RestoreFiles == <<"metadata", "accounts", "operations", "project_state">>
InstallFiles == <<"metadata", "registry", "states", "history", "accounts", "password", "settings">>
Range(s) == {s[i] : i \in DOMAIN s}
Files == Range(RestoreFiles) \union Range(InstallFiles)

FromBundle(b) == <<"bundle", b>>
FromPlan(p) == <<"plan", p>>
NoMarker == [status |-> "none", bundle |-> 0]
NoPlan == [plan |-> 0, bundle |-> 0, sources |-> {}, created |-> {}]
Idle == [pc |-> "idle", bundle |-> 0, scope |-> "none", left |-> <<>>]

\* inspect_backup: restore and takeover read their bundle first, and a file
\* that cannot be decrypted, or is not what its manifest says, ends them.
Readable(b) == b \notin damaged

-----------------------------------------------------------------------------
(* The restore *)

Empty == marker = NoMarker /\ journal = NoPlan /\ activation = 0 /\ \A f \in Files : disk[f] = {}

\* Slip: any interrupted restore can be taken up.
MayResumeAny(b) ==
  journal = NoPlan /\ activation = 0 /\ marker.status \in {"restore_in_progress", "restored"}

\* --resume: the same bundle, and no takeover has begun.
MayResume(b) ==
  /\ journal = NoPlan /\ activation = 0
  /\ marker.status \in {"restore_in_progress", "restored"} /\ marker.bundle = b

\* The marker comes before any file.
StartRestore(b) ==
  /\ proc = Idle /\ Readable(b)
  /\ Empty \/ MayResume(b)
  /\ marker' = [status |-> "restore_in_progress", bundle |-> b]
  /\ proc' = [Idle EXCEPT !.pc = "restore", !.bundle = b, !.left = RestoreFiles]
  /\ UNCHANGED <<damaged, relay, disk, journal, activation, plans, faults>>

\* Accounts and journal files are added to what is there; the others are
\* replaced.
RestoreFile ==
  /\ proc.pc = "restore" /\ proc.left # <<>>
  /\ LET f == Head(proc.left)
     IN  disk' = [disk EXCEPT ![f] = {FromBundle(proc.bundle)} \union
                                     (IF f \in {"accounts", "operations"} THEN @ ELSE {})]
  /\ proc' = [proc EXCEPT !.left = Tail(@)]
  /\ UNCHANGED <<damaged, relay, marker, journal, activation, plans, faults>>

EndRestore ==
  /\ proc.pc = "restore" /\ proc.left = <<>>
  /\ marker' = [marker EXCEPT !.status = "restored"]
  /\ proc' = Idle
  /\ UNCHANGED <<damaged, relay, disk, journal, activation, plans, faults>>

-----------------------------------------------------------------------------
(* The takeover *)

Step == UNCHANGED <<damaged, plans, faults>>

\* What _verify_installed_takeover looks at.
Installed(p) == \A f \in Range(InstallFiles) : disk[f] = {FromPlan(p)}

\* The activation record belongs to this backup and its files are in place.
ActivationHolds(b) == activation # 0 /\ marker # NoMarker /\ marker.bundle = b /\ Installed(activation)

\* _new_plan_state: fresh identities for the scopes of the restored catalog,
\* none of them on the relay yet; the catalog, the accounts and the history
\* of the retired authority are taken from the files of the root.
NewPlan(b) ==
  [plan |-> plans + 1, bundle |-> b,
   sources |-> disk["metadata"] \union disk["accounts"] \union disk["project_state"], created |-> {}]

\* _validate_plan_state: the plan is for this backup, and what it has done is
\* part of what it has to do.
PlanHolds(b) == journal.plan # 0 /\ journal.bundle = b /\ journal.created \subseteq Scopes

\* Slip: every run makes its own plan.
PrepareAfresh(b) ==
  /\ marker.status \in {"restored", "takeover_ready"} /\ marker.bundle = b
  /\ plans < MaxPlans
  /\ plans' = plans + 1
  /\ journal' = NewPlan(b)
  /\ proc' = [Idle EXCEPT !.pc = "create", !.bundle = b]
  /\ UNCHANGED <<damaged, relay, marker, disk, activation, faults>>

\* prepare_takeover: a plan is made once, and is durable before any request.
Prepare(b) ==
  /\ marker.status \in {"restored", "takeover_ready"} /\ marker.bundle = b
  /\ IF journal = NoPlan
     THEN /\ marker.status = "restored" /\ plans < MaxPlans
          /\ plans' = plans + 1
          /\ journal' = NewPlan(b)
     ELSE PlanHolds(b) /\ UNCHANGED <<plans, journal>>
  /\ proc' = [Idle EXCEPT !.pc = "create", !.bundle = b]
  /\ UNCHANGED <<damaged, relay, marker, disk, activation, faults>>

\* Slip: a takeover always begins with its plan.
StartTakeoverByPlan(b) == proc = Idle /\ Readable(b) /\ Prepare(b)

\* recover_takeover: with an activation record only the end is left to do.
StartTakeover(b) ==
  /\ proc = Idle /\ Readable(b)
  /\ \/ activation = 0 /\ Prepare(b)
     \/ /\ ActivationHolds(b)
        /\ marker' = [marker EXCEPT !.status = "takeover_ready"]
        /\ proc' = [Idle EXCEPT !.pc = "activate", !.bundle = b]
        /\ UNCHANGED <<relay, disk, journal, activation>> /\ Step

\* create_scope: the relay answers the same policy again in the same way.
CreateScope ==
  /\ proc.pc = "create"
  /\ \E s \in Scopes \ journal.created :
       /\ relay' = relay \union {<<journal.plan, s>>}
       /\ proc' = [proc EXCEPT !.pc = "stage", !.scope = s]
  /\ UNCHANGED <<marker, disk, journal, activation>> /\ Step

StageScope ==
  /\ proc.pc = "stage"
  /\ journal' = [journal EXCEPT !.created = @ \union {proc.scope}]
  /\ proc' = [proc EXCEPT !.pc = "create", !.scope = "none"]
  /\ UNCHANGED <<relay, marker, disk, activation>> /\ Step

StartInstall ==
  /\ proc.pc = "create" /\ journal.created = Scopes
  /\ proc' = [proc EXCEPT !.pc = "install", !.left = InstallFiles]
  /\ UNCHANGED <<relay, marker, disk, journal, activation>> /\ Step

\* _install_local_takeover, one file after the other; all are replaced.
InstallFile ==
  /\ proc.pc = "install" /\ proc.left # <<>>
  /\ disk' = [disk EXCEPT ![Head(proc.left)] = {FromPlan(journal.plan)}]
  /\ proc' = [proc EXCEPT !.left = Tail(@)]
  /\ UNCHANGED <<relay, marker, journal, activation>> /\ Step

WriteActivation ==
  /\ proc.pc = "install" /\ proc.left = <<>> /\ Installed(journal.plan)
  /\ activation' = journal.plan
  /\ proc' = [proc EXCEPT !.pc = "ready"]
  /\ UNCHANGED <<relay, marker, disk, journal>> /\ Step

MarkReady ==
  /\ proc.pc = "ready"
  /\ marker' = [marker EXCEPT !.status = "takeover_ready"]
  /\ proc' = [proc EXCEPT !.pc = "activate"]
  /\ UNCHANGED <<relay, disk, journal, activation>> /\ Step

\* activate_takeover: the journal goes before the marker.
Activate ==
  /\ proc.pc = "activate" /\ marker.status = "takeover_ready" /\ Installed(activation)
  /\ journal' = NoPlan
  /\ proc' = [proc EXCEPT !.pc = "unlink"]
  /\ UNCHANGED <<relay, marker, disk, activation>> /\ Step

Unlink ==
  /\ proc.pc = "unlink"
  /\ marker' = NoMarker /\ proc' = Idle
  /\ UNCHANGED <<relay, disk, journal, activation>> /\ Step

-----------------------------------------------------------------------------
\* The process dies or the answer of the relay is lost, ...
Crash ==
  /\ faults < MaxFaults /\ proc # Idle
  /\ proc' = Idle
  /\ faults' = faults + 1
  /\ UNCHANGED <<damaged, relay, marker, disk, journal, activation, plans>>

\* ... or the file of a backup is damaged.
Damage ==
  /\ faults < MaxFaults
  /\ \E b \in Bundles \ damaged : damaged' = damaged \union {b}
  /\ faults' = faults + 1
  /\ UNCHANGED <<relay, marker, disk, journal, activation, proc, plans>>

Init ==
  /\ damaged = {} /\ relay = {}
  /\ marker = NoMarker /\ disk = [f \in Files |-> {}]
  /\ journal = NoPlan /\ activation = 0 /\ proc = Idle
  /\ plans = 0 /\ faults = 0

Restoring == RestoreFile \/ EndRestore
TakingOver ==
  CreateScope \/ StageScope \/ StartInstall \/ InstallFile \/ WriteActivation \/ MarkReady \/ Activate \/ Unlink

Next ==
  \/ \E b \in Bundles : StartRestore(b) \/ StartTakeover(b)
  \/ Restoring \/ TakingOver
  \/ Crash \/ Damage

Spec == Init /\ [][Next]_vars

\* A restore or takeover that has begun goes on, and one that was interrupted
\* is run again with its backup, as its error messages ask.
Fairness ==
  /\ WF_vars(Restoring \/ TakingOver)
  /\ WF_vars(\E b \in Bundles : StartTakeover(b))
FairSpec == Spec /\ Fairness

-----------------------------------------------------------------------------
(* Properties *)

\* Types; and a marker that says ready stands for an activation record
\* (_recover_takeover_locked writes the record first).
TypeOK ==
  /\ damaged \subseteq Bundles
  /\ disk \in [Files -> SUBSET ({FromBundle(b) : b \in Bundles} \union {FromPlan(p) : p \in 1..MaxPlans})]
  /\ marker.status \in {"none", "restore_in_progress", "restored", "takeover_ready"}
  /\ journal.created \subseteq Scopes
  /\ marker.status = "takeover_ready" => activation # 0

\* A root whose restore is complete holds one backup and nothing else,
\* whatever restores were interrupted in it before.
RestoredIsWhole ==
  marker.status = "restored" /\ journal = NoPlan =>
    \A f \in Range(RestoreFiles) : disk[f] = {FromBundle(marker.bundle)}

\* A plan is made of the files of one backup, the one that it names and that
\* its root is restored from, however often it is taken up again.
PlanOfOneBackup ==
  journal # NoPlan => journal.bundle = marker.bundle /\ journal.sources = {FromBundle(journal.bundle)}

\* A root that the runtime accepts (assert_available) is empty or is the new
\* authority in every file, each of its scopes exists on the relay, and the
\* plan with all its secrets is gone.
OperableIsFresh ==
  marker = NoMarker /\ ~Empty =>
    /\ activation # 0 /\ Installed(activation) /\ journal = NoPlan
    /\ \A s \in Scopes : <<activation, s>> \in relay

\* What a recovery root says of itself is true of its files.
RecoveryRootWhole == TypeOK /\ RestoredIsWhole /\ PlanOfOneBackup /\ OperableIsFresh

\* However often the takeover is interrupted and run again, the scopes it has
\* made on the relay are those of one plan, the one that is or gets active.
OneAuthority ==
  \A x \in relay : x[1] \in {journal.plan, activation}

\* A takeover that has a plan ends with an operable root, unless its backup,
\* which every run reads first, can be read no more.
TakeoverCompletes ==
  journal # NoPlan ~> (marker = NoMarker /\ activation # 0) \/ ~Readable(marker.bundle)
=============================================================================

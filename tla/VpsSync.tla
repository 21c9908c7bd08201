------------------------------ MODULE VpsSync ------------------------------
(***************************************************************************)
(* KK2 sync of one vault over a relay: the engine of each device           *)
(* (sync_vps.py) and its commands (cli_sync_vps.py), against the commit    *)
(* log and device table of syncd (module VpsRelay).                        *)
(*                                                                         *)
(* The relay serves requests one at a time.  An engine holds its device's  *)
(* operation lock, so a device has one operation in flight (run); between  *)
(* two requests of it every other device may act, and it may die.          *)
(*                                                                         *)
(* The relay's disk may be restored from a backup, which is how a branch   *)
(* comes about that an engine must refuse.  Vault contents are sets of     *)
(* updates and merge is their union; the merge itself (vault_snapshot.py)  *)
(* is the subject of module VaultMerge.                                    *)
(***************************************************************************)
EXTENDS VpsRelay

CONSTANTS
  Commands,     \* per device: the sync commands its user gives
  Members,      \* devices already approved while the log was empty
  PageSize,     \* HISTORY_PAGE_SIZE
  MaxRetries,   \* max_retries
  MaxRestores,  \* bound on restores of the relay
  MaxFaults     \* bound on operations that die on the way

SyncCommands == {"pull", "push", "status", "refresh"}

ASSUME SyncAssumption ==
  /\ Commands \in [Devices -> SUBSET SyncCommands]
  /\ Root \in Devices /\ Members \subseteq Devices \ {Root}
  /\ MaxCommits \in Nat /\ MaxIds \in Nat /\ MaxUpdates \in Nat
  /\ PageSize \in Nat \ {0} /\ MaxRetries \in Nat \ {0}
  /\ MaxRestores \in Nat /\ MaxFaults \in Nat

VARIABLES
  chain,     \* relay: the commit log, whose last commit is the head
  table,     \* relay: the devices
  backup,    \* a copy of both
  trust,     \* per device: the chain its trust anchor names
  known,     \* per device: the revocations it has seen
  intent,    \* the root's pending revocation: at most one
  joined,    \* per device: the checkpoint of its enrolment, if enrolled
  bundle,    \* per device: the checkpoint of its invitation, if invited
  approving, \* invitations the root has checked and not yet approved
  vault,     \* per device: the contents of the local vault
  run,       \* per device: the operation in flight
  ids, updates, restores, faults,   \* counters
  alarms     \* history: trust errors before any restore, with the view that caused them

relay == <<chain, table, backup>>
sidecar == <<trust, known, intent>>
admission == <<joined, bundle, approving>>
counters == <<ids, updates, restores, faults>>
vars == <<relay, sidecar, admission, vault, run, counters, alarms>>

-----------------------------------------------------------------------------
(* Chains *)

\* The commit the trust state of c names, or the empty log.
Anchor(c) == At(trust[c])

\* Slip: any chain that is long enough will do.
ContainsBySequence(s, k) == k.seq <= Len(s)

\* Chain s runs through checkpoint k.
Contains(s, k) == k.seq > 0 => k.seq <= Len(s) /\ s[k.seq].id = k.id

\* The contents at the end of chain s.
Contents(s) == IF s = <<>> THEN {} ELSE s[Len(s)].data

NoCheckpoint == [seq |-> -1, id |-> -1]

-----------------------------------------------------------------------------
(* Operations in flight *)

Ops == {"none", "invite", "approve", "revoke"} \cup SyncCommands

Steps == {"idle", "head", "devices", "commit", "history", "done", "save", "append", "own", "post"}

Run == [op : Ops, pc : Steps, target : Devices, head : Checkpoint,
        table : [Devices -> Row], seen : Seq(Commit),
        tries : 0..MaxRetries, reads : 0..MaxRetries,
        draft : SUBSET Updates, changed : BOOLEAN, acked : BOOLEAN, auth : BOOLEAN]

Idle == [op |-> "none", pc |-> "idle", target |-> Root, head |-> Genesis, table |-> Unlisted,
         seen |-> <<>>, tries |-> 0, reads |-> 0, draft |-> {}, changed |-> FALSE,
         acked |-> FALSE, auth |-> FALSE]

Active(c) == ActiveIn(table, c)

\* The operation of c goes on with its record r.  A request is authenticated in
\* a transaction of its own, possibly long before it is served: at the latest
\* now, or when it is.
Continue(c, r) == run' = [run EXCEPT ![c] = [r EXCEPT !.auth = Active(c)]]

Authenticated(c) == Active(c) \/ run[c].auth

End(c) == run' = [run EXCEPT ![c] = Idle]

\* VpsTrustError: the operation ends.  What c was looking at is remembered,
\* unless the relay was restored, which explains any alarm.
Alarm(c, why) ==
  /\ alarms' = IF restores > 0 THEN alarms
               ELSE alarms \cup {[dev |-> c, why |-> why, empty |-> run[c].head = Genesis,
                                  resuming |-> run[c].op = "revoke" /\ intent # {}]}
  /\ End(c)

NoAlarm == UNCHANGED alarms

\* The engine verifies afresh, from the head on.
Fresh(r) == [r EXCEPT !.pc = "head", !.head = Genesis, !.table = Unlisted, !.seen = <<>>]

\* The head moved while history was read: _verified_head tries again.
Reread(c) ==
  LET r == run[c]
  IN  IF r.reads + 1 < MaxRetries
      THEN Continue(c, [Fresh(r) EXCEPT !.reads = r.reads + 1])
      ELSE End(c)

\* The relay refused a request with a conflict: push and revoke try again.
Retry(c) ==
  LET r == run[c]
  IN  IF r.tries + 1 < MaxRetries
      THEN Continue(c, [Fresh(r) EXCEPT !.tries = r.tries + 1, !.reads = 0])
      ELSE End(c)

-----------------------------------------------------------------------------
(* Verification: _verify_advertised_head *)

\* The pending revocation counts while it is being resumed.
Pending(c) == IF run[c].op = "revoke" THEN intent ELSE {}

\* The revocations that bind the chain c is looking at.
Binding(c, t) == Shown(t) \cup Pending(c)

\* Slip: a revocation seen before may be missing from the table.
TableTrustedForgetful(c, t) ==
  /\ t[Root].st = "active" /\ c \in Enrolled(t)
  /\ \A e \in Pending(c), f \in Shown(t) : e.dev = f.dev => e = f

\* _trusted_device_keys: the root is active, c is enrolled, and no revocation
\* that c has pinned or is about to publish was omitted or rewritten.
TableTrusted(c, t) ==
  /\ t[Root].st = "active" /\ c \in Enrolled(t)
  /\ \A e \in Pending(c), f \in Shown(t) : e.dev = f.dev => e = f
  /\ known[c] \subseteq Shown(t) \cup Pending(c)

\* _verify_record: the author has a trusted membership in t, and signed it.
RecordTrusted(commit, t) == SignatureHolds(commit, Enrolled(t))

\* Commit k of s: linked to its parent, by a member that was admitted before
\* and not revoked before it.
CommitTrusted(c, t, s, k) ==
  LET a == s[k].author
  IN  /\ RecordTrusted(s[k], t)
      /\ s[k].parent = At(SubSeq(s, 1, k - 1)).id
      /\ a # Root => k > t[a].admit.seq
      /\ \A e \in Binding(c, t) : e.dev = a => k <= e.cut.seq

\* The whole chain: it holds the anchor of c and every signed checkpoint.
ChainTrusted(c, t, s) ==
  /\ Contains(s, Anchor(c)) /\ Contains(s, joined[c])
  /\ \A d \in Enrolled(t) \ {Root} : Contains(s, t[d].admit)
  /\ \A e \in Binding(c, t) : Contains(s, e.cut)

GetHead(c) ==
  /\ run[c].pc = "head" /\ Authenticated(c)
  /\ Continue(c, [run[c] EXCEPT !.pc = "devices", !.head = At(chain)])
  /\ UNCHANGED <<relay, sidecar, admission, vault, counters, alarms>>

\* With an empty head there is no history to read.
ListDevices(c) ==
  LET listed == [run[c] EXCEPT !.table = table]
  IN  /\ run[c].pc = "devices" /\ Authenticated(c)
      /\ IF ~TableTrusted(c, table) THEN Alarm(c, "table")
         ELSE IF run[c].head # Genesis
         THEN Continue(c, [listed EXCEPT !.pc = "commit"]) /\ NoAlarm
         ELSE IF ChainTrusted(c, table, <<>>)
         THEN Continue(c, [listed EXCEPT !.pc = "done"]) /\ NoAlarm
         ELSE Alarm(c, "chain")
      /\ UNCHANGED <<relay, sidecar, admission, vault, counters>>

\* get_commit of the head, which a restore may have taken away.
GetCommit(c) ==
  LET r == run[c]
  IN  /\ r.pc = "commit" /\ Authenticated(c)
      /\ IF ~Holds(chain, r.head) THEN End(c) /\ NoAlarm
         ELSE IF RecordTrusted(chain[r.head.seq], r.table)
         THEN Continue(c, [r EXCEPT !.pc = "history"]) /\ NoAlarm
         ELSE Alarm(c, "chain")
      /\ UNCHANGED <<relay, sidecar, admission, vault, counters>>

\* One page of list_commits: an empty one is an error even if the head moved.
ReadPage(c) ==
  LET r == run[c]
      page == Page(chain, Len(r.seen), PageSize)
      s == r.seen \o page
      good == \A k \in Len(r.seen) + 1 .. Len(s) : CommitTrusted(c, r.table, s, k)
  IN  /\ r.pc = "history" /\ Authenticated(c)
      /\ IF page = <<>> THEN Alarm(c, "chain")
         ELSE IF At(chain) # r.head THEN Reread(c) /\ NoAlarm
         ELSE IF good /\ Len(s) < r.head.seq
         THEN Continue(c, [r EXCEPT !.seen = s]) /\ NoAlarm
         ELSE IF good /\ ChainTrusted(c, r.table, s)
         THEN Continue(c, [r EXCEPT !.seen = s, !.pc = "done"]) /\ NoAlarm
         ELSE Alarm(c, "chain")
      /\ UNCHANGED <<relay, sidecar, admission, vault, counters>>

\* The relay turns the request away.
Denied(c) ==
  /\ run[c].pc \in {"head", "devices", "commit", "history"} /\ ~Authenticated(c)
  /\ End(c)
  /\ UNCHANGED <<relay, sidecar, admission, vault, counters, alarms>>

-----------------------------------------------------------------------------
(* The sidecar: _write_state *)

\* What _write_state asks of a verified chain s and device table t.
Savable(c, s, t) ==
  LET records == known[c] \cup Shown(t)
  IN  /\ Contains(s, Anchor(c))
      /\ \A e, f \in records : e.dev = f.dev => e = f
      /\ \A e \in records : /\ Contains(s, e.cut)
                            /\ \A k \in DOMAIN s : s[k].author = e.dev => k <= e.cut.seq

WriteState(c, pending) ==
  /\ Savable(c, run[c].seen, run[c].table)
  /\ trust' = [trust EXCEPT ![c] = run[c].seen]
  /\ known' = [known EXCEPT ![c] = @ \cup Shown(run[c].table)]
  /\ intent' = pending

\* _remember_observed_revocations
Remember(c) ==
  IF known[c] # Shown(run[c].table) THEN WriteState(c, intent) ELSE UNCHANGED sidecar

-----------------------------------------------------------------------------
(* Operations of the engine *)

\* All but a resumed revocation are refused while one is pending.
Start(c, op, d) ==
  /\ run[c] = Idle /\ joined[c] # NoCheckpoint
  /\ op = "revoke" => \A e \in intent : e.dev = d
  /\ op # "revoke" /\ c = Root => intent = {}
  /\ Continue(c, [Fresh(Idle) EXCEPT !.op = op, !.target = d])
  /\ UNCHANGED <<chain, backup, sidecar, admission, vault, counters, alarms>>

StartSync(c) ==
  (\E op \in Commands[c] : Start(c, op, Root)) /\ UNCHANGED table

\* cmd_vps_invite asks the relay for an invitation before it verifies the head.
StartInvite(d) ==
  /\ table[d].st \in {"unknown", "invited"} /\ bundle[d] = NoCheckpoint
  /\ Start(Root, "invite", d)
  /\ table' = Invited(table, d)

\* cmd_vps_approve, up to require_checkpoint.
StartApprove(d) ==
  bundle[d] # NoCheckpoint /\ d \notin approving /\ Start(Root, "approve", d) /\ UNCHANGED table

StartRevoke(d) == d # Root /\ Start(Root, "revoke", d) /\ UNCHANGED table

Verified(c, op) == run[c].pc = "done" /\ run[c].op = op

Status(c) ==
  /\ Verified(c, "status") /\ Remember(c) /\ End(c)
  /\ UNCHANGED <<relay, admission, vault, counters, alarms>>

\* refresh_trust_anchor
Refresh(c) ==
  /\ Verified(c, "refresh") /\ WriteState(c, intent) /\ End(c)
  /\ UNCHANGED <<relay, admission, vault, counters, alarms>>

\* The head is verified: the invitation file names its checkpoint.
WriteBundle(c) ==
  /\ Verified(c, "invite") /\ Remember(c) /\ End(c)
  /\ bundle' = [bundle EXCEPT ![run[c].target] = At(run[c].seen)]
  /\ UNCHANGED <<relay, joined, approving, vault, counters, alarms>>

\* require_checkpoint: the chain must run through that of the invitation.
RequireCheckpoint(c) ==
  LET r == run[c]
  IN  /\ Verified(c, "approve")
      /\ IF Contains(r.seen, bundle[r.target])
         THEN /\ approving' = approving \cup {r.target}
              /\ Remember(c) /\ End(c) /\ NoAlarm
         ELSE Alarm(c, "invitation") /\ UNCHANGED <<sidecar, approving>>
      /\ UNCHANGED <<relay, joined, bundle, vault, counters>>

\* This device sees its own revocation, or the log has no room.
RefusePush(c) ==
  LET r == run[c]
      revoked == \E e \in Shown(r.table) : e.dev = c
  IN  /\ r.pc = "done" /\ r.op = "push"
      /\ \/ revoked /\ Alarm(c, "revoked")
         \/ ~revoked /\ Len(r.seen) >= MaxCommits /\ End(c) /\ NoAlarm
      /\ UNCHANGED <<relay, sidecar, admission, vault, counters>>

Applies(c) ==
  LET r == run[c]
  IN  /\ r.pc = "done"
      /\ \/ r.op = "pull"
         \/ r.op = "push" /\ Len(r.seen) < MaxCommits /\ \A e \in Shown(r.table) : e.dev # c

\* pull, and the pulling half of push: merge what was verified.
Merge(c) ==
  LET r == run[c]
      merged == vault[c] \cup Contents(r.seen)
  IN  /\ Applies(c) /\ r.seen # <<>>
      /\ vault' = [vault EXCEPT ![c] = merged]
      /\ Continue(c, [r EXCEPT !.pc = "save", !.draft = vault[c], !.changed = merged # vault[c]])
      /\ UNCHANGED <<relay, sidecar, admission, counters, alarms>>

\* Slip: what was prepared before the merge is published.
SavePrepared(c) ==
  LET r == run[c]
  IN  /\ r.pc = "save"
      /\ WriteState(c, intent)
      /\ IF r.op = "push" /\ r.draft # Contents(r.seen)
         THEN Continue(c, [r EXCEPT !.pc = "append"])
         ELSE End(c)
      /\ UNCHANGED <<relay, admission, vault, counters, alarms>>

\* The anchor moves to the merged commit.  A push goes on unless the head
\* already holds what it would publish.
Save(c) ==
  LET r == run[c]
      draft == IF r.changed THEN vault[c] ELSE r.draft
  IN  /\ r.pc = "save"
      /\ WriteState(c, intent)
      /\ IF r.op = "push" /\ draft # Contents(r.seen)
         THEN Continue(c, [r EXCEPT !.pc = "append", !.draft = draft])
         ELSE End(c)
      /\ UNCHANGED <<relay, admission, vault, counters, alarms>>

\* An empty log: nothing to pull, and the first commit to push.
First(c) ==
  LET r == run[c]
  IN  /\ Applies(c) /\ r.seen = <<>>
      /\ IF r.op = "push" /\ vault[c] # {}
         THEN Continue(c, [r EXCEPT !.pc = "append", !.draft = vault[c]]) /\ UNCHANGED sidecar
         ELSE WriteState(c, intent) /\ End(c)
      /\ UNCHANGED <<relay, admission, vault, counters, alarms>>

\* append_commit on top of what was verified.  The relay also refuses any
\* commit beyond its storage budget.
AppendCommit(c) ==
  LET r == run[c]
      new == SignedCommit(ids + 1, r.seen, c, r.draft)
      answer == AppendAnswer(chain, table, c, At(r.seen), Authenticated(c))
  IN  /\ r.pc = "append"
      /\ \/ /\ answer = "stored" /\ ids < MaxIds
            /\ chain' = Append(chain, new) /\ ids' = ids + 1
            /\ Continue(c, [r EXCEPT !.pc = "own", !.seen = Append(r.seen, new)])
         \/ /\ answer = "conflict"
            /\ Retry(c) /\ UNCHANGED <<chain, ids>>
         \/ /\ answer = "denied" \/ (answer = "stored" /\ ids = MaxIds)
            /\ End(c) /\ UNCHANGED <<chain, ids>>
      /\ UNCHANGED <<table, backup, sidecar, admission, vault, updates, restores, faults, alarms>>

\* The receipt arrived: the anchor moves to the commit just accepted.
SaveOwn(c) ==
  /\ run[c].pc = "own"
  /\ WriteState(c, intent) /\ End(c)
  /\ UNCHANGED <<relay, admission, vault, counters, alarms>>

-----------------------------------------------------------------------------
(* Membership *)

\* cmd_vps_join: the new device claims its invitation.
ClaimInvite(d) ==
  /\ bundle[d] # NoCheckpoint
  /\ table' = Claimed(table, d)
  /\ UNCHANGED <<chain, backup, sidecar, admission, vault, run, counters, alarms>>

\* The rest of cmd_vps_approve, which does not hold the operation lock: the
\* statement carries the checkpoint of the invitation.
ApproveInvite(d) ==
  /\ d \in approving /\ approving' = approving \ {d}
  /\ table' = IF HasClaimant(table, d) THEN Approved(table, d, bundle[d]) ELSE table
  /\ UNCHANGED <<chain, backup, sidecar, joined, bundle, vault, run, counters, alarms>>

\* cmd_vps_finish: the approved device keeps its checkpoint.
Finish(d) ==
  /\ joined[d] = NoCheckpoint /\ ApprovalAt(table, d, bundle[d])
  /\ joined' = [joined EXCEPT ![d] = bundle[d]]
  /\ UNCHANGED <<relay, sidecar, bundle, approving, vault, run, counters, alarms>>

\* revoke_device before its request: confirm, or make the intent durable.
PrepareRevoke(c) ==
  LET r == run[c]
      e == Revocation(r.target, At(r.seen))
  IN  /\ r.pc = "done" /\ r.op = "revoke" /\ intent = {}
      /\ \/ /\ \E f \in Shown(r.table) : f.dev = r.target
            /\ WriteState(c, {}) /\ End(c)
         \/ /\ r.table[r.target].st = "active"
            /\ WriteState(c, {e}) /\ Continue(c, [r EXCEPT !.pc = "post"])
         \/ /\ r.table[r.target].st \notin {"active", "revoked"}
            /\ End(c) /\ UNCHANGED sidecar
      /\ UNCHANGED <<relay, admission, vault, counters, alarms>>

\* With a pending intent: only the same evidence, seen at the relay, ends it.
ResumeRevoke(c) ==
  LET r == run[c]
  IN  /\ r.pc = "done" /\ r.op = "revoke" /\ intent # {}
      /\ \/ /\ intent \subseteq Shown(r.table)
            /\ WriteState(c, {}) /\ End(c) /\ NoAlarm
         \/ /\ ~(intent \subseteq Shown(r.table)) /\ ~r.acked
            /\ Continue(c, [r EXCEPT !.pc = "post"]) /\ NoAlarm /\ UNCHANGED sidecar
         \/ /\ ~(intent \subseteq Shown(r.table)) /\ r.acked
            /\ Alarm(c, "omitted") /\ UNCHANGED sidecar
      /\ UNCHANGED <<relay, admission, vault, counters>>

\* The request: the head must still be the one verified.
PostRevoke(c) ==
  LET r == run[c]
      answer == RevokeAnswer(chain, table, r.target, r.head)
  IN  /\ r.pc = "post"
      /\ \/ /\ answer = "stored"
            /\ \E e \in intent : table' = Revoked(table, e)
            /\ Continue(c, [Fresh(r) EXCEPT !.acked = TRUE, !.reads = 0])
         \/ answer = "conflict" /\ Retry(c) /\ UNCHANGED table
         \/ answer = "missing" /\ End(c) /\ UNCHANGED table
      /\ UNCHANGED <<chain, backup, sidecar, admission, vault, counters, alarms>>

-----------------------------------------------------------------------------
(* Edits, failures, restores *)

\* The user of an enrolled device changes its vault.
Edit(c) ==
  /\ updates < MaxUpdates /\ Commands[c] # {} /\ joined[c] # NoCheckpoint
  /\ updates' = updates + 1
  /\ vault' = [vault EXCEPT ![c] = @ \cup {updates + 1}]
  /\ UNCHANGED <<relay, sidecar, admission, run, ids, restores, faults, alarms>>

\* A crash, a timeout, a quota, a lost request or a lost answer.
Fail(c) ==
  /\ run[c] # Idle /\ faults < MaxFaults
  /\ faults' = faults + 1 /\ End(c)
  /\ UNCHANGED <<relay, sidecar, admission, vault, ids, updates, restores, alarms>>

BackUp ==
  /\ restores < MaxRestores /\ backup # [chain |-> chain, table |-> table]
  /\ backup' = [chain |-> chain, table |-> table]
  /\ UNCHANGED <<chain, table, sidecar, admission, vault, run, counters, alarms>>

Restore ==
  /\ restores < MaxRestores /\ backup # [chain |-> chain, table |-> table]
  /\ restores' = restores + 1
  /\ chain' = backup.chain /\ table' = backup.table
  /\ UNCHANGED <<backup, sidecar, admission, vault, run, ids, updates, faults, alarms>>

-----------------------------------------------------------------------------
(* Specification *)

Init ==
  /\ chain = <<>> /\ table = NewTable(Members)
  /\ backup = [chain |-> <<>>, table |-> NewTable(Members)]
  /\ trust = [c \in Devices |-> <<>>] /\ known = [c \in Devices |-> {}] /\ intent = {}
  /\ joined = [d \in Devices |-> IF d \in Members \cup {Root} THEN Genesis ELSE NoCheckpoint]
  /\ bundle = [d \in Devices |-> IF d \in Members THEN Genesis ELSE NoCheckpoint]
  /\ approving = {}
  /\ vault = [c \in Devices |-> {}]
  /\ run = [c \in Devices |-> Idle]
  /\ ids = 0 /\ updates = 0 /\ restores = 0 /\ faults = 0
  /\ alarms = {}

\* What the operation in flight on c does next.
Step(c) ==
  \/ GetHead(c) \/ ListDevices(c) \/ GetCommit(c) \/ ReadPage(c) \/ Denied(c)
  \/ Status(c) \/ Refresh(c) \/ WriteBundle(c) \/ RequireCheckpoint(c) \/ RefusePush(c) \/ Merge(c) \/ Save(c) \/ First(c)
  \/ AppendCommit(c) \/ SaveOwn(c)
  \/ PrepareRevoke(c) \/ ResumeRevoke(c) \/ PostRevoke(c)

Next ==
  \/ \E c \in Devices : Step(c) \/ StartSync(c) \/ Edit(c) \/ Fail(c)
  \/ \E d \in Devices : \/ StartInvite(d) \/ StartApprove(d) \/ StartRevoke(d)
                       \/ ClaimInvite(d) \/ ApproveInvite(d) \/ Finish(d)
  \/ BackUp \/ Restore

Spec == Init /\ [][Next]_vars

\* The root's operations go on, and its user retries a revocation that is
\* pending, as the error message asks.
FairSpec ==
  /\ Spec
  /\ WF_vars(Step(Root))
  /\ WF_vars(\E e \in intent : StartRevoke(e.dev))

-----------------------------------------------------------------------------
(* Properties *)

Alarmed == [dev : Devices, why : {"table", "chain", "invitation", "revoked", "omitted"},
            empty : BOOLEAN, resuming : BOOLEAN]

\* Every variable has its type.
TypeOK ==
  /\ chain \in Seq(Commit) /\ table \in [Devices -> Row]
  /\ backup.chain \in Seq(Commit) /\ backup.table \in [Devices -> Row]
  /\ trust \in [Devices -> Seq(Commit)] /\ known \in [Devices -> SUBSET Evidence]
  /\ intent \subseteq Evidence
  /\ joined \in [Devices -> Checkpoint \cup {NoCheckpoint}]
  /\ bundle \in [Devices -> Checkpoint \cup {NoCheckpoint}]
  /\ approving \subseteq Devices
  /\ vault \in [Devices -> SUBSET Updates] /\ run \in [Devices -> Run]
  /\ ids \in 0..MaxIds /\ updates \in 0..MaxUpdates
  /\ restores \in 0..MaxRestores /\ faults \in 0..MaxFaults
  /\ alarms \subseteq Alarmed

\* No update is lost at the relay: whatever devices race, every commit holds
\* all that its parent holds.
NoLostUpdate ==
  \A k \in 2..Len(chain) : chain[k - 1].data \subseteq chain[k].data

\* "Signed revocation checkpoints prevent a revoked device from authoring later
\* accepted commits": the cut of a revocation may be older than the head it is
\* published at, and still no commit of the device lies between or after.
RevocationCutsOff ==
  \A e \in Shown(table) :
    /\ Contains(chain, e.cut)
    /\ \A k \in DOMAIN chain : chain[k].author = e.dev => k <= e.cut.seq

\* "reject a missing, older, rewritten ... or non-descendant chain": the chain
\* a device trusts is only ever extended, and no revocation is forgotten.
TrustOnlyGrows ==
  [][\A c \in Devices : /\ Len(trust[c]) <= Len(trust'[c])
                        /\ SubSeq(trust'[c], 1, Len(trust[c])) = trust[c]
                        /\ known[c] \subseteq known'[c]]_vars

\* _write_state never refuses what verification accepted, whatever other
\* devices and the relay did in between, so that no operation is stranded after
\* it has changed the vault.
VerifiedIsSavable ==
  \A c \in Devices : run[c].pc \in {"done", "save", "own"} =>
    Savable(c, run[c].seen, run[c].table)

\* What a device keeps is well formed and can be written.
StateSound == TypeOK /\ VerifiedIsSavable

\* Without a restore a trust error is raised only in two situations: the log
\* was empty when the head was read, or a revocation is being resumed.
FalseAlarmsExplained ==
  \A a \in alarms : a.why = "revoked" \/ a.empty \/ a.resuming

\* "recovery_required: retry the same device revocation": retrying helps.
RevocationFinishes == intent # {} ~> intent = {}
=============================================================================

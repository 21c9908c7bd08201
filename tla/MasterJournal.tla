--------------------------- MODULE MasterJournal ---------------------------
(***************************************************************************)
(* The durable mutation pipeline of the master vault: the operation        *)
(* journal (operation_journal.py) and the manager that drives metadata and *)
(* secret backend through it (master_journal.py).                          *)
(*                                                                         *)
(* Disk: data.json, the backend accounts, and the journal directory with   *)
(* its pending index, one encrypted record per open operation and the      *)
(* ledger of terminal receipts.  Every file is replaced atomically; a      *)
(* write fails either before the replacement (nothing changed) or after it *)
(* (published, but the caller gets an error).                              *)
(*                                                                         *)
(* Processes: every mutation, recovery and projection runs under the       *)
(* profile lock, so one process at a time is inside (holder, pc).  A       *)
(* mutation first runs recover() and then, in a separate critical section, *)
(* _transact().  Catalog edits (project_service.py) take only the metadata *)
(* lock (dlock).  A process may die at any step.                           *)
(***************************************************************************)
EXTENDS VaultData, Sequences

CONSTANTS
  Procs,         \* processes of the profile: CLI, UI server, workers
  Editors,       \* TRUE when catalog edits run beside the mutations
  Schema,        \* schema_version of data.json: 2 legacy, 3 with catalog
  Stamps,        \* clock readings a tombstone can get
  MaxFaults,     \* bound on failed writes and crashes
  MaxReceipts,   \* _MAX_RECEIPTS, the length of the receipt ledger
  NoProc

ASSUME JournalAssumption ==
  /\ NoProc \notin Procs
  /\ Schema \in {2, 3}
  /\ Stamps \subseteq Tags
  /\ MaxFaults \in Nat
  /\ MaxReceipts \in Nat \ {0}
  /\ Editors \in BOOLEAN

VARIABLES
  meta,      \* data.json
  accts,     \* the secret backend
  pend,      \* pending index of the journal
  recs,      \* journal records, by operation
  receipts,  \* ledger of terminal receipts, oldest first
  holder,    \* the process inside the profile lock
  dlock,     \* the holder also has the metadata lock
  pc,        \* where the holder is
  mode,      \* why: a mutation, or which branch of recovery
  goal,      \* the status a close is writing
  cur,       \* the operation the holder works on
  plan,      \* its state document, in memory
  todo,      \* accounts still to write or restore
  failed,    \* some account could not be restored
  refs,      \* pending references recovery has still to visit
  phase,     \* per process: idle, recovered, ready to mutate
  tag,       \* last fresh tag taken
  faults,    \* failures so far
  vault,     \* history: the vault as the closed mutations define it
  outcome,   \* history: how each operation was closed
  touched,   \* history: operations that wrote metadata or a secret
  views      \* history: the last projection each process took

disk == <<meta, accts>>
journal == <<pend, recs, receipts>>
local == <<mode, goal, cur, plan, todo, failed, refs>>
lock == <<holder, dlock, pc, phase>>
history == <<vault, outcome, touched, views>>
vars == <<disk, journal, local, lock, tag, faults, history>>

-----------------------------------------------------------------------------
(* Journal records *)

Statuses == {"absent", "pending", "completed", "failed"}

Record == [st : Statuses, plan : Plan]

NoRecord == [st |-> "absent", plan |-> NoPlan]

Receipt == [op : Tags, st : {"completed", "failed"}]

Finished(o) == recs[o].st \in {"completed", "failed"}

\* Operations with a record that is not terminal.
Open == {o \in Tags : recs[o].st = "pending"}

HasReceipt(o) == \E k \in DOMAIN receipts : receipts[k].op = o

-----------------------------------------------------------------------------
(* State documents *)

\* Slip: an update is taken to keep the secret the entry already has.
NeedsSecretOnCreate(q) ==
  CASE q.kind = "replace_all" -> Live(q.ma) \cap SecretIds
    [] q.kind = "create" -> q.ids \cap SecretIds
    [] OTHER -> {}

\* _validate_required_secrets: the entries a plan publishes have their secret,
\* in the plan or already in the backend.  A delete publishes no entry.
NeedsSecret(q) ==
  CASE q.kind = "replace_all" -> Live(q.ma) \cap SecretIds
    [] q.kind \in {"create", "update"} -> q.ids \cap SecretIds
    [] OTHER -> {}

HasRequiredSecrets(q) ==
  \A i \in NeedsSecret(q) :
    LET a == <<i, "value">>
    IN  IF a \in q.accs THEN q.aa[a] # Absent ELSE accts[a] # Absent

\* _metadata_matches_after: a whole-image plan compares the file; the others
\* compare their own entries (a deleted one need only be gone, whatever its
\* tombstone says) and the catalog.
MatchesAfter(q, m) ==
  IF q.kind = "replace_all"
  THEN m = q.ma
  ELSE /\ \A i \in q.ids : IF q.ma.ent[i].live THEN m.ent[i] = q.ma.ent[i]
                                               ELSE ~m.ent[i].live
       /\ m.cat = q.ma.cat

LiveImage(t) == [live |-> TRUE, tag |-> t]

Tombstone(s) == [live |-> FALSE, tag |-> s]

\* Replaying a delete writes its tombstone with the clock of the replay.
Restamp(q, s) ==
  IF q.kind # "delete" THEN q
  ELSE [q EXCEPT !.ma.ent = [i \in Ids |->
          IF i \in q.ids /\ ~q.ma.ent[i].live THEN Tombstone(s)
                                               ELSE q.ma.ent[i]]]

\* _writes_for: in patch mode a missing value is left alone, in replace mode
\* it removes the account.
SecretInputs ==
  [Slots -> {"keep", "set"}] \cup [Slots -> {"set", "remove"}]

\* The account writes for the entries owners: tag t, removed, or untouched.
WritesFor(t, owners, input) ==
  [a \in {x \in owners \X Slots : input[x[2]] # "keep"} |->
     IF input[a[2]] = "set" THEN t ELSE Absent]

\* The state document of kind k on the current vault: the entries of img get
\* their images, the catalog becomes c, the accounts of w get their values.
PlanFor(k, img, c, w) ==
  [kind |-> k, ids |-> DOMAIN img, accs |-> DOMAIN w,
   mb |-> meta,
   ma |-> [ent |-> [i \in Ids |-> IF i \in DOMAIN img THEN img[i] ELSE meta.ent[i]],
           cat |-> c],
   ab |-> accts,
   aa |-> [a \in Accounts |-> IF a \in DOMAIN w THEN w[a] ELSE accts[a]]]

\* A catalog section after publication intents for the touched entries:
\* schema 2 has none, an unbound entry adds none.
CatalogsAfter(t) == IF Schema = 3 THEN {meta.cat, t} ELSE {meta.cat}

\* An updated entry: schema 3 gives it a fresh content_revision, in schema 2
\* a secret rotation within one second leaves the record as it was.
UpdatedImages(i, t) ==
  {LiveImage(t)} \cup (IF Schema = 3 THEN {} ELSE {meta.ent[i]})

\* Entry identities are fresh uuids: never published, never in an open plan.
FreshIds ==
  {i \in Ids : meta.ent[i] = NoImage /\ \A o \in Open : i \notin recs[o].plan.ids}

-----------------------------------------------------------------------------
(* Faults, locks and control *)

Fault == faults < MaxFaults /\ faults' = faults + 1

NoFault == UNCHANGED faults

\* Leaving the profile lock drops what the process had in memory.
Forget ==
  /\ mode' = "none" /\ goal' = "none" /\ cur' = 0 /\ plan' = NoPlan
  /\ todo' = {} /\ failed' = FALSE /\ refs' = {}

Release(ph) ==
  /\ holder' = NoProc /\ dlock' = FALSE /\ pc' = "idle"
  /\ phase' = [phase EXCEPT ![holder] = ph]
  /\ Forget

\* The holder moves on to l, with or without the metadata lock.
Goto(l, d) ==
  /\ pc' = l /\ dlock' = d
  /\ UNCHANGED <<holder, phase>>

-----------------------------------------------------------------------------
(* Mutations: MasterMutationManager._transact *)

\* Both locks, prepare, validate, and the pending marker of begin().  The
\* marker write may fail before or after its publication.
Transact(p, q) ==
  LET o == tag + 1
  IN  /\ holder = NoProc /\ phase[p] = "ready" /\ tag < MaxTag
      /\ HasRequiredSecrets(q)
      /\ tag' = o
      /\ \/ /\ NoFault
            /\ pend' = pend \cup {o}
            /\ holder' = p /\ dlock' = TRUE /\ pc' = "record"
            /\ mode' = "transact" /\ cur' = o /\ plan' = q
            /\ UNCHANGED <<goal, todo, failed, refs, phase>>
         \/ /\ Fault
            /\ pend' \in {pend, pend \cup {o}}
            /\ phase' = [phase EXCEPT ![p] = "idle"]
            /\ UNCHANGED <<holder, dlock, pc, local>>
      /\ UNCHANGED <<disk, recs, receipts, history>>

CreateEntry(p) ==
  \E i \in FreshIds, input \in SecretInputs :
    Transact(p, PlanFor("create", [x \in {i} |-> LiveImage(tag + 1)], meta.cat,
                        WritesFor(tag + 1, {i}, input)))

\* update_entry, and create_entry(replace=True) of an existing name.
UpdateEntry(p) ==
  \E i \in Live(meta), input \in SecretInputs :
    \E img \in UpdatedImages(i, tag + 1), c \in CatalogsAfter(tag + 1) :
      Transact(p, PlanFor("update", [x \in {i} |-> img], c,
                          WritesFor(tag + 1, {i}, input)))

\* delete_entry with its cascade over the entries that refer to it.
DeleteEntry(p) ==
  \E i \in Live(meta), s \in Stamps :
    \E deps \in SUBSET (Live(meta) \ {i}) :
      Transact(p, PlanFor("delete",
                          [x \in deps \cup {i} |->
                             IF x = i THEN Tombstone(s) ELSE LiveImage(tag + 1)],
                          IF Schema = 3 THEN tag + 1 ELSE meta.cat,
                          [a \in {i} \X Slots |-> Absent]))

BulkCreate(p) ==
  \E new \in (SUBSET FreshIds) \ {{}}, input \in SecretInputs :
    Transact(p, PlanFor("replace_all", [x \in new |-> LiveImage(tag + 1)], meta.cat,
                        WritesFor(tag + 1, new, input)))

\* apply_snapshot of a merge prepared from p's last projection: entries won by
\* the remote side and entries it deleted, if metadata and every account to be
\* written are still what the projection saw.
ApplySnapshot(p) ==
  /\ Schema = 2
  /\ views[p].meta = meta
  /\ \E win \in SUBSET Ids, del \in SUBSET Live(meta),
        input \in [Slots -> {"set", "remove"}], s \in Stamps :
       LET w == [a \in (win \cup del) \X Slots |->
                   IF a[1] \in win /\ input[a[2]] = "set" THEN tag + 1 ELSE Absent]
       IN  /\ win \cap del = {} /\ win \cup del # {}
           /\ \A a \in DOMAIN w : views[p].accts[a] = accts[a]
           /\ Transact(p, PlanFor("replace_all",
                                  [x \in win \cup del |->
                                     IF x \in win THEN LiveImage(tag + 1) ELSE Tombstone(s)],
                                  meta.cat, w))

\* A mutation that prepare or validation refuses.
Refuse(p) ==
  /\ phase[p] = "ready"
  /\ phase' = [phase EXCEPT ![p] = "idle"]
  /\ UNCHANGED <<holder, dlock, pc, disk, journal, local, tag, faults, history>>

\* Slip: the written record is thought to make its marker superfluous.
WriteRecordUnmarks ==
  /\ pc = "record" /\ NoFault
  /\ recs' = [recs EXCEPT ![cur] = [st |-> "pending", plan |-> plan]]
  /\ pend' = pend \ {cur} /\ todo' = plan.accs
  /\ Goto("apply", TRUE)
  /\ UNCHANGED <<mode, goal, cur, plan, failed, refs, disk, receipts, tag, history>>

\* begin(): the encrypted record.  When nothing was published its marker is
\* removed again (unless that fails too); a published record keeps it.
WriteRecord ==
  LET written == [recs EXCEPT ![cur] = [st |-> "pending", plan |-> plan]]
  IN  /\ pc = "record"
      /\ \/ /\ NoFault
            /\ recs' = written /\ todo' = plan.accs
            /\ Goto("apply", TRUE)
            /\ UNCHANGED <<pend, mode, goal, cur, plan, failed, refs>>
         \/ /\ Fault
            /\ \/ recs' = written /\ pend' = pend
               \/ recs' = recs /\ pend' = pend \ {cur}
            /\ Release("idle")
         \/ /\ faults + 2 <= MaxFaults /\ faults' = faults + 2
            /\ UNCHANGED <<recs, pend>>
            /\ Release("idle")
      /\ UNCHANGED <<disk, receipts, tag, history>>

\* After a backend or journal error: a mutation restores the accounts inside
\* its transaction, recovery raises and leaves the record for the next attempt.
GiveUpApplying ==
  IF mode = "transact"
  THEN /\ Goto("undo", TRUE) /\ todo' = plan.accs /\ failed' = FALSE
       /\ UNCHANGED <<mode, goal, cur, plan, refs>>
  ELSE Release("idle")

\* One account of _apply_accounts.  A failed call may still have been applied.
ApplyAccount ==
  /\ pc = "apply"
  /\ \E a \in todo :
       LET set == [accts EXCEPT ![a] = plan.aa[a]]
       IN  \/ /\ NoFault
              /\ accts' = set /\ todo' = todo \ {a}
              /\ UNCHANGED <<lock, mode, goal, cur, plan, failed, refs>>
           \/ /\ Fault
              /\ accts' \in {accts, set}
              /\ GiveUpApplying
  /\ touched' = touched \cup {cur}
  /\ UNCHANGED <<meta, journal, tag, vault, outcome, views>>

\* Slip: the second stage() forgets state=, the record keeps its old document.
StageAppliedStale ==
  /\ pc = "apply" /\ todo = {} /\ NoFault
  /\ IF mode = "confirm" THEN Goto("verify", FALSE) ELSE Goto("publish", TRUE)
  /\ UNCHANGED <<recs, local, disk, pend, receipts, tag, history>>

\* The two stage() writes after the backend.  The second one replaces the
\* state document, which differs only when recovery has prepared it anew.
\* Where the metadata is already in place there is nothing to stage.
StageApplied ==
  LET staged == [recs EXCEPT ![cur].plan = plan]
  IN  /\ pc = "apply" /\ todo = {}
      /\ \/ /\ mode = "confirm" /\ NoFault
            /\ Goto("verify", FALSE)
            /\ UNCHANGED <<recs, local>>
         \/ /\ mode # "confirm" /\ NoFault
            /\ recs' = staged
            /\ Goto("publish", TRUE)
            /\ UNCHANGED local
         \/ /\ mode # "confirm" /\ Fault
            /\ recs' \in {recs, staged}
            /\ GiveUpApplying
      /\ UNCHANGED <<disk, pend, receipts, tag, history>>

\* Leaving the metadata transaction writes data.json and drops its lock.
Publish ==
  /\ pc = "publish"
  /\ \/ /\ NoFault
        /\ meta' = plan.ma
        /\ Goto("verify", FALSE)
        /\ UNCHANGED local
     \/ /\ Fault
        /\ meta' \in {meta, plan.ma}
        /\ IF mode = "transact"
           THEN Goto("outer", FALSE) /\ UNCHANGED local
           ELSE Release("idle")
  /\ touched' = touched \cup {cur}
  /\ UNCHANGED <<accts, journal, tag, vault, outcome, views>>

-----------------------------------------------------------------------------
(* Compensation of a failed mutation *)

\* One account of _restore_accounts; errors are counted, not raised.
RestoreAccount ==
  /\ pc \in {"undo", "outerundo"}
  /\ \E a \in todo :
       LET restored == [accts EXCEPT ![a] = plan.ab[a]]
       IN  /\ todo' = todo \ {a}
           /\ \/ NoFault /\ accts' = restored /\ UNCHANGED failed
              \/ Fault /\ accts' \in {accts, restored} /\ failed' = TRUE
  /\ UNCHANGED <<meta, journal, lock, mode, goal, cur, plan, refs, tag, history>>

\* All accounts tried: close as failed, or leave the record open.  The error
\* leaves the transaction either way; inside it the outer handler follows.
RestoreDone ==
  /\ pc \in {"undo", "outerundo"} /\ todo = {}
  /\ \/ /\ ~failed
        /\ goal' = "failed" /\ Goto("close", dlock)
        /\ UNCHANGED <<mode, cur, plan, todo, failed, refs>>
     \/ /\ failed /\ pc = "undo"
        /\ Goto("outer", FALSE)
        /\ UNCHANGED local
     \/ /\ failed /\ pc = "outerundo"
        /\ Release("idle")
  /\ UNCHANGED <<disk, journal, tag, faults, history>>

\* The outer except of _transact: a finished record needs nothing more; the
\* accounts are restored only while the old revision is still in place.
OuterHandler ==
  /\ pc = "outer"
  /\ IF cur \in Open /\ meta = plan.mb
     THEN /\ Goto("outerundo", FALSE)
          /\ todo' = plan.accs /\ failed' = FALSE
          /\ UNCHANGED <<mode, goal, cur, plan, refs>>
     ELSE Release("idle")
  /\ UNCHANGED <<disk, journal, tag, faults, history>>

-----------------------------------------------------------------------------
(* Closing: _commit_record, finish, fail and the archive *)

\* Slip: the file is not compared once more before the close.
VerifyNothing ==
  /\ pc = "verify" /\ NoFault
  /\ goal' = "completed" /\ Goto("close", TRUE)
  /\ UNCHANGED <<mode, cur, plan, todo, failed, refs, disk, journal, tag, history>>

\* _commit_record: under the metadata lock again, the file must be exactly the
\* recorded after image; then stage(metadata_committed).
Verify ==
  LET q == recs[cur].plan
  IN  /\ pc = "verify"
      /\ \/ /\ MatchesAfter(q, meta) /\ meta = q.ma
            /\ NoFault
            /\ goal' = "completed" /\ Goto("close", TRUE)
            /\ UNCHANGED <<mode, cur, plan, todo, failed, refs>>
         \/ /\ ~(MatchesAfter(q, meta) /\ meta = q.ma)
            /\ NoFault /\ Release("idle")
         \/ /\ Fault /\ Release("idle")
      /\ UNCHANGED <<disk, journal, tag, history>>

\* An error while closing: fail() inside the transaction is retried by the
\* outer handler, every other close is left to recovery.
CloseError ==
  IF mode = "transact" /\ goal = "failed" /\ dlock
  THEN Goto("outer", FALSE) /\ UNCHANGED local
  ELSE Release("idle")

\* The terminal record.  From here on the outcome is decided.
CloseRecord ==
  LET decide == /\ recs' = [recs EXCEPT ![cur].st = goal]
                /\ outcome' = [outcome EXCEPT ![cur] = goal]
                /\ vault' = IF goal = "completed" THEN Effect(recs[cur].plan, vault)
                                                  ELSE vault
  IN  /\ pc = "close"
      /\ \/ NoFault /\ decide /\ Goto("archive", dlock) /\ UNCHANGED local
         \/ Fault /\ decide /\ CloseError
         \/ Fault /\ UNCHANGED <<recs, outcome, vault>> /\ CloseError
      /\ UNCHANGED <<disk, pend, receipts, tag, touched, views>>

\* The ledger without the receipt of o, which appears at most once.
WithoutReceipt(o) ==
  IF ~HasReceipt(o) THEN receipts
  ELSE LET k == CHOOSE k \in DOMAIN receipts : receipts[k].op = o
       IN  SubSeq(receipts, 1, k - 1) \o SubSeq(receipts, k + 1, Len(receipts))

\* Slip: one receipt too few is kept.
TrimOne(all) ==
  IF Len(all) >= MaxReceipts THEN SubSeq(all, Len(all) - MaxReceipts + 2, Len(all)) ELSE all

\* _write_receipts_unlocked keeps the last MaxReceipts receipts.
Trim(all) ==
  IF Len(all) > MaxReceipts THEN SubSeq(all, Len(all) - MaxReceipts + 1, Len(all)) ELSE all

\* The ledger with the receipt of o renewed at its end.
Archived(o, st) == Trim(Append(WithoutReceipt(o), [op |-> o, st |-> st]))

\* _archive_finished_unlocked, in its order: receipt, marker, record.
ArchiveReceipt ==
  /\ pc = "archive"
  /\ \/ /\ NoFault /\ receipts' = Archived(cur, goal)
        /\ Goto("unmark", dlock) /\ UNCHANGED local
     \/ /\ Fault /\ receipts' \in {receipts, Archived(cur, goal)} /\ CloseError
  /\ UNCHANGED <<disk, pend, recs, tag, history>>

RemoveMarker ==
  /\ pc = "unmark"
  /\ \/ /\ NoFault /\ pend' = pend \ {cur}
        /\ Goto("unlink", dlock) /\ UNCHANGED local
     \/ /\ Fault /\ pend' \in {pend, pend \ {cur}} /\ CloseError
  /\ UNCHANGED <<disk, recs, receipts, tag, history>>

\* Recovery goes on with its next reference; a mutation is over.
UnlinkRecord ==
  LET unlinked == [recs EXCEPT ![cur] = NoRecord]
  IN  /\ pc = "unlink"
      /\ \/ /\ NoFault /\ recs' = unlinked
            /\ IF mode = "transact"
               THEN Release("idle")
               ELSE /\ Goto("scan", FALSE)
                    /\ refs' = refs \ {cur}
                    /\ mode' = "none" /\ goal' = "none" /\ cur' = 0 /\ plan' = NoPlan
                    /\ UNCHANGED <<todo, failed>>
         \/ /\ Fault /\ recs' \in {recs, unlinked} /\ CloseError
      /\ UNCHANGED <<disk, pend, receipts, tag, history>>

-----------------------------------------------------------------------------
(* Recovery: MasterMutationManager.recover *)

Recover(p) ==
  /\ holder = NoProc /\ phase[p] = "idle"
  /\ holder' = p /\ pc' = "scan" /\ refs' = pend
  /\ UNCHANGED <<dlock, phase, mode, goal, cur, plan, todo, failed>>
  /\ UNCHANGED <<disk, journal, tag, faults, history>>

\* Index order is the order of begin().
NextRef == CHOOSE o \in refs : \A x \in refs : o <= x

\* A marker without a record stops recovery, unless a receipt stands for it.
ScanMissing ==
  /\ pc = "scan" /\ refs # {} /\ recs[NextRef].st = "absent"
  /\ IF HasReceipt(NextRef)
     THEN /\ pend' = pend \ {NextRef} /\ refs' = refs \ {NextRef}
          /\ UNCHANGED <<lock, mode, goal, cur, plan, todo, failed>>
     ELSE UNCHANGED pend /\ Release("idle")
  /\ UNCHANGED <<disk, recs, receipts, tag, faults, history>>

\* A terminal record whose archive was interrupted.
ScanFinished ==
  /\ pc = "scan" /\ refs # {} /\ Finished(NextRef)
  /\ mode' = "archive" /\ goal' = recs[NextRef].st
  /\ cur' = NextRef /\ plan' = recs[NextRef].plan
  /\ Goto("archive", FALSE)
  /\ UNCHANGED <<todo, failed, refs, disk, journal, tag, faults, history>>

\* _recover_record: metadata already in place, or still the before image.
Confirmable(q) == meta = q.ma \/ MatchesAfter(q, meta)

\* Slip: recovery only confirms, and never replays from the before image.
ScanOpenConfirmOnly ==
  LET q == recs[NextRef].plan
  IN  /\ pc = "scan" /\ refs # {} /\ NextRef \in Open
      /\ IF HasRequiredSecrets(q) /\ Confirmable(q)
         THEN /\ mode' = "confirm" /\ plan' = q /\ cur' = NextRef /\ todo' = q.accs
              /\ Goto("apply", TRUE) /\ UNCHANGED <<goal, failed, refs>>
         ELSE Release("idle")
      /\ UNCHANGED <<disk, journal, tag, faults, history>>

ScanOpen ==
  LET q == recs[NextRef].plan
      start(m, doc) == /\ mode' = m /\ plan' = doc
                       /\ cur' = NextRef /\ todo' = doc.accs
                       /\ Goto("apply", TRUE)
                       /\ UNCHANGED <<goal, failed, refs>>
  IN  /\ pc = "scan" /\ refs # {} /\ NextRef \in Open
      /\ \/ HasRequiredSecrets(q) /\ Confirmable(q) /\ start("confirm", q)
         \/ /\ HasRequiredSecrets(q) /\ ~Confirmable(q) /\ meta = q.mb
            /\ \E s \in Stamps : start("forward", Restamp(q, s))
         \/ /\ ~HasRequiredSecrets(q) \/ ~(Confirmable(q) \/ meta = q.mb)
            /\ Release("idle")
      /\ UNCHANGED <<disk, journal, tag, faults, history>>

\* Every way to put the members of S, at most one per operation, in a row.
Rows(S) ==
  {s \in UNION {[1..n -> S] : n \in 0..MaxTag} :
     /\ \A x \in S : \E k \in DOMAIN s : s[k] = x
     /\ \A j, k \in DOMAIN s : s[j] = s[k] => j = k}

\* The ledger with receipts of the operations done, sorted by updated_at: a
\* wall-clock reading, which may step back, so that any order is possible.
Merged(done) ==
  LET kept == {receipts[k] : k \in {x \in DOMAIN receipts : receipts[x].op \notin done}}
      new == {[op |-> o, st |-> recs[o].st] : o \in done}
  IN  IF done = {} THEN {receipts} ELSE {Trim(s) : s \in Rows(kept \cup new)}

\* list_unfinished: terminal records left behind by an interrupted archive get
\* their receipts and go; an open record without a marker stops recovery.
Compact ==
  LET done == {o \in Tags : Finished(o)}
      without(gone) == [o \in Tags |-> IF o \in gone THEN NoRecord ELSE recs[o]]
  IN  /\ pc = "scan" /\ refs = {}
      /\ \/ /\ NoFault
            /\ receipts' \in Merged(done) /\ recs' = without(done)
            /\ Release(IF Open = {} THEN "recovered" ELSE "idle")
         \/ /\ Fault
            /\ \/ receipts' = receipts /\ recs' = recs
               \/ /\ receipts' \in Merged(done)
                  /\ \E gone \in SUBSET done : recs' = without(gone)
            /\ Release("idle")
      /\ UNCHANGED <<disk, pend, tag, history>>

\* assert_projection_ready takes the lock anew.
AssertReady(p) ==
  /\ holder = NoProc /\ phase[p] = "recovered"
  /\ phase' = [phase EXCEPT ![p] = IF pend = {} THEN "ready" ELSE "idle"]
  /\ UNCHANGED <<holder, dlock, pc, disk, journal, local, tag, faults, history>>

-----------------------------------------------------------------------------
(* Projections, catalog edits, crashes *)

\* Slip: the pending index is not consulted.
ProjectUnguarded(p) ==
  /\ holder = NoProc
  /\ views' = [views EXCEPT ![p] = [meta |-> meta, accts |-> accts]]
  /\ UNCHANGED <<disk, journal, local, lock, tag, faults, vault, outcome, touched>>

\* A projection: under the profile lock, refused while anything is pending.
Project(p) ==
  /\ holder = NoProc /\ pend = {}
  /\ views' = [views EXCEPT ![p] = [meta |-> meta, accts |-> accts]]
  /\ UNCHANGED <<disk, journal, local, lock, tag, faults, vault, outcome, touched>>

\* Metadata m with the entries of moved in another folder and catalog c.
Edited(m, moved, c) ==
  [ent |-> [i \in Ids |-> IF i \in moved THEN LiveImage(tag + 1) ELSE m.ent[i]],
   cat |-> c]

\* ProjectService: the catalog section, the folder of some entries, or both.
EditCatalog ==
  LET t == tag + 1
  IN  /\ Editors /\ Schema = 3 /\ ~dlock /\ tag < MaxTag
      /\ tag' = t
      /\ \E moved \in SUBSET Live(meta), new \in BOOLEAN :
           /\ new \/ moved # {}
           /\ meta' = Edited(meta, moved, IF new THEN t ELSE meta.cat)
           /\ vault' = [vault EXCEPT !.meta =
                          Edited(@, moved \cap Live(@), IF new THEN t ELSE @.cat)]
      /\ UNCHANGED <<accts, journal, local, lock, faults, outcome, touched, views>>

\* The holder dies; the operating system drops its locks.
Crash ==
  /\ holder # NoProc /\ Fault
  /\ Release("idle")
  /\ UNCHANGED <<disk, journal, tag, history>>

-----------------------------------------------------------------------------
(* Specification *)

Init ==
  /\ meta = EmptyMeta /\ accts = EmptySecrets
  /\ pend = {} /\ recs = [o \in Tags |-> NoRecord] /\ receipts = <<>>
  /\ holder = NoProc /\ dlock = FALSE /\ pc = "idle"
  /\ mode = "none" /\ goal = "none" /\ cur = 0 /\ plan = NoPlan
  /\ todo = {} /\ failed = FALSE /\ refs = {}
  /\ phase = [p \in Procs |-> "idle"]
  /\ tag = 0 /\ faults = 0
  /\ vault = EmptyVault /\ outcome = [o \in Tags |-> "none"]
  /\ touched = {} /\ views = [p \in Procs |-> EmptyVault]

\* What the holder does next.
Step ==
  \/ WriteRecord \/ ApplyAccount \/ StageApplied \/ Publish
  \/ RestoreAccount \/ RestoreDone \/ OuterHandler
  \/ Verify \/ CloseRecord \/ ArchiveReceipt \/ RemoveMarker \/ UnlinkRecord
  \/ ScanMissing \/ ScanFinished \/ ScanOpen \/ Compact

Mutate(p) ==
  CreateEntry(p) \/ UpdateEntry(p) \/ DeleteEntry(p) \/ BulkCreate(p) \/ ApplySnapshot(p)

Next ==
  \/ Step \/ Crash \/ EditCatalog
  \/ \E p \in Procs : Mutate(p) \/ Refuse(p) \/ Recover(p) \/ AssertReady(p) \/ Project(p)

Spec == Init /\ [][Next]_vars

\* A process that holds the lock keeps running, and the vault stays in use:
\* someone starts recovery again (every mutation begins with it).
Fairness == WF_vars(Step) /\ WF_vars(\E p \in Procs : Recover(p))

FairSpec == Spec /\ Fairness

-----------------------------------------------------------------------------
(* Properties *)

Phases == {"idle", "recovered", "ready"}

Labels == {"idle", "record", "apply", "publish", "undo", "outer", "outerundo", "verify",
           "close", "archive", "unmark", "unlink", "scan"}

Modes == {"none", "transact", "forward", "confirm", "archive"}

\* Every variable of the pipeline has its type.
TypeOK ==
  /\ meta \in Meta /\ accts \in Secrets
  /\ pend \subseteq Tags /\ recs \in [Tags -> Record] /\ receipts \in Seq(Receipt)
  /\ holder \in Procs \cup {NoProc} /\ dlock \in BOOLEAN /\ pc \in Labels
  /\ mode \in Modes /\ goal \in {"none", "completed", "failed"}
  /\ cur \in 0..MaxTag /\ plan \in Plan
  /\ todo \subseteq Accounts /\ failed \in BOOLEAN /\ refs \subseteq Tags
  /\ phase \in [Procs -> Phases]
  /\ tag \in 0..MaxTag /\ faults \in Nat
  /\ vault \in Vault /\ outcome \in [Tags -> {"none", "completed", "failed"}]
  /\ touched \subseteq Tags /\ views \in [Procs -> Vault]

\* What projection_guard is for: whenever the profile lock is free and nothing
\* is pending, metadata and secrets are together exactly the effect of the
\* mutations closed as completed -- after any mix of crashes, failed writes,
\* failed rollbacks, recoveries and catalog edits.  No torn or half
\* rolled-back mutation can reach a snapshot or a project payload.
ProjectedVaultWhole ==
  holder = NoProc /\ pend = {} => meta = vault.meta /\ accts = vault.accts

\* Write-ahead rule of begin(): an operation that has written a secret or the
\* metadata and is not closed is indexed and has its recovery image on disk.
WriteAhead ==
  /\ TypeOK
  /\ \A o \in touched : outcome[o] = "none" => o \in pend /\ o \in Open

\* "A receipt is durable before its pending marker/recovery image goes away",
\* also where the ledger is full and trimmed; and until it is full no crash,
\* failed write or compaction leaves a closed operation without both its
\* record and its receipt.
FinishedRemembered ==
  /\ pc \in {"unmark", "unlink"} => HasReceipt(cur)
  /\ \A o \in Tags : outcome[o] # "none" =>
       Finished(o) \/ HasReceipt(o) \/ Len(receipts) = MaxReceipts

\* No interleaving of crash, recovery and mutation lets a projection meet a
\* live entry whose required secret is gone (SnapshotReadError and
\* "required project secret is unavailable" stay unreachable from the
\* pipeline itself).
ProjectedSecretsComplete ==
  holder = NoProc /\ pend = {} => Complete([meta |-> meta, accts |-> accts])

\* The pipeline implements the atomic vault: mutations take effect whole and
\* once, an aborted one not at all, and projections copy a vault between them.
\* The journal, the locks and the two stores are hidden; what is left is the
\* history of the closed mutations.
Atomic == INSTANCE AtomicVault WITH vault <- vault, outcome <- outcome, views <- views

ImplementsAtomicVault == Atomic!Spec

\* recover() can decide every record it may meet: whenever the lock is free the
\* metadata is the before or the after image of each open operation.
OpenRecordsDecidable ==
  holder = NoProc =>
    \A o \in Open : meta \in {recs[o].plan.mb, recs[o].plan.ma}

\* "Complete every indexed master mutation": an open operation with a record
\* is closed and unindexed in the end.
RecoveryCompletes ==
  \A o \in Tags : (o \in pend /\ o \in Open) ~> o \notin pend
=============================================================================

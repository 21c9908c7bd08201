------------------------- MODULE MasterJournalProofs -------------------------
(***************************************************************************)
(* Proofs about MasterJournal, for every set of entries and processes and  *)
(* any number of faults.                                                   *)
(*                                                                         *)
(* First the invariant of the pipeline, with type correctness and the      *)
(* whole vault.  Then what follows from it, each with the history it needs *)
(* besides: the write-ahead rule and the refinement of AtomicVault (which  *)
(* operations are undecided), the ledger of receipts (which receipts are   *)
(* kept), the required secrets (who supplies them), and recovery in a      *)
(* profile that one process uses.                                          *)
(***************************************************************************)
EXTENDS MasterJournal, FiniteSetTheorems, SequenceTheorems, WellFoundedInduction, TLAPS

-----------------------------------------------------------------------------
(* The inductive invariant *)

\* Whatever the disk has beyond the closed mutations belongs to an operation
\* of S: its record names the entry, the account or the catalog.
SecretsCovered(v, S) ==
  \A a \in Accounts : v[a] # vault.accts[a] => \E o \in S : a \in recs[o].plan.accs

MetaCovered(S) ==
  /\ \A i \in Ids : meta.ent[i] # vault.meta.ent[i] => \E o \in S : i \in recs[o].plan.ids
  /\ meta.cat # vault.meta.cat => \E o \in S : SetsCatalog(recs[o].plan)

\* A plan changes only the entries it names, and no tag is from the future.
Old(m) == /\ m.cat <= tag
          /\ \A i \in Ids : m.ent[i].live => m.ent[i].tag <= tag

GoodPlan(q) == /\ \A i \in Ids : i \notin q.ids => q.ma.ent[i] = q.mb.ent[i]
               /\ Old(q.mb) /\ Old(q.ma)

\* The document in memory is the recorded one, up to tombstone stamps.
SameDocument(q, r) ==
  /\ q.ids = r.ids /\ q.accs = r.accs /\ q.aa = r.aa /\ q.ab = r.ab
  /\ q.mb = r.mb /\ q.ma.cat = r.ma.cat

Others == Open \ {cur}

Applied(S) == \A a \in S : accts[a] = plan.aa[a]

Restored(S) == \A a \in S : accts[a] = plan.ab[a]

Untouched == Accounts \ plan.accs

\* A mutation that can still be rolled back: the preimages of its accounts are
\* no news to the vault, and it has changed no other account.
Revocable == SecretsCovered(plan.ab, Others) /\ Restored(Untouched)

\* What holds of the holder at each label.
AtRecord ==
  pc = "record" =>
    /\ mode = "transact" /\ dlock /\ cur \in Tags /\ cur \in pend
    /\ recs[cur].st = "absent" /\ cur <= tag
    /\ meta = plan.mb /\ accts = plan.ab /\ GoodPlan(plan)

Working == {"apply", "publish", "undo", "outerundo", "verify", "close"}

AtWork ==
  pc \in Working =>
    /\ mode \in {"transact", "forward", "confirm"}
    /\ cur \in Open /\ SameDocument(recs[cur].plan, plan) /\ GoodPlan(plan)

AtApply ==
  pc \in {"apply", "publish"} =>
    /\ dlock /\ todo \subseteq plan.accs /\ Applied(plan.accs \ todo)
    /\ mode # "confirm" => meta = plan.mb
    /\ mode = "transact" => Revocable /\ MetaCovered(Others)
    /\ mode \in {"transact", "confirm"} => plan = recs[cur].plan
    /\ pc = "publish" => todo = {} /\ mode # "confirm" /\ plan = recs[cur].plan

AtUndo ==
  pc \in {"undo", "outerundo"} =>
    /\ mode = "transact" /\ todo \subseteq plan.accs
    /\ dlock = (pc = "undo") /\ (dlock => meta = plan.mb)
    /\ Revocable /\ MetaCovered(Others)
    /\ ~failed => Restored(plan.accs \ todo)

AtOuter ==
  pc = "outer" =>
    /\ mode = "transact" /\ ~dlock /\ cur \in Tags
    /\ cur \in Open =>
         /\ SameDocument(recs[cur].plan, plan) /\ GoodPlan(plan) /\ Revocable
         /\ meta = plan.mb => MetaCovered(Others)

AtVerify == pc = "verify" => ~dlock /\ Applied(plan.accs) /\ plan = recs[cur].plan

AtClose ==
  pc = "close" =>
    /\ goal = "completed" =>
         dlock /\ Applied(plan.accs) /\ meta = plan.ma /\ plan = recs[cur].plan
    /\ goal = "failed" =>
         /\ mode = "transact" /\ Revocable /\ Restored(plan.accs) /\ MetaCovered(Others)
         /\ dlock => meta = plan.mb
    /\ goal # "none"

AtArchive ==
  pc \in {"archive", "unmark", "unlink"} => cur \in Tags /\ cur \notin Open /\ goal # "none"

Free == (holder = NoProc <=> pc = "idle") /\ (dlock => holder # NoProc)

Records ==
  /\ Open \subseteq pend
  /\ \A o \in Tags : o > tag => recs[o].st = "absent"
  /\ \A o \in Open : GoodPlan(recs[o].plan)

Covered == SecretsCovered(accts, Open) /\ MetaCovered(Open)

PipelineInv ==
  /\ TypeOK /\ Free /\ Records /\ Covered /\ Old(meta)
  /\ AtRecord /\ AtWork /\ AtApply /\ AtUndo /\ AtOuter
  /\ AtVerify /\ AtClose /\ AtArchive

-----------------------------------------------------------------------------
(* State documents *)

\* A document prepared on the current vault.
Prepared(q) ==
  /\ q \in Plan /\ q.mb = meta /\ q.ab = accts
  /\ \A i \in Ids : i \notin q.ids => q.ma.ent[i] = meta.ent[i]
  /\ q.ma.cat <= tag + 1
  /\ \A i \in Ids : q.ma.ent[i].live => q.ma.ent[i].tag <= tag + 1

\* PlanFor builds a prepared document from typed images and writes.
LEMMA PlanForPrepared ==
  ASSUME TypeOK, Old(meta), NEW k \in Kinds, NEW img, NEW w, NEW c \in 0..MaxTag,
         DOMAIN img \subseteq Ids, DOMAIN w \subseteq Accounts, c <= tag + 1,
         \A i \in DOMAIN img : img[i] \in Image /\ (img[i].live => img[i].tag <= tag + 1),
         \A a \in DOMAIN w : w[a] \in 0..MaxTag
  PROVE  Prepared(PlanFor(k, img, c, w))
<1> DEFINE ent == [i \in Ids |-> IF i \in DOMAIN img THEN img[i] ELSE meta.ent[i]]
           aa == [a \in Accounts |-> IF a \in DOMAIN w THEN w[a] ELSE accts[a]]
<1>0. meta \in Meta /\ accts \in Secrets /\ tag \in 0..MaxTag
  BY DEF TypeOK
<1>1. ent \in [Ids -> Image]
  BY <1>0 DEF Meta
<1>2. aa \in Secrets
  BY <1>0 DEF Secrets
<1>3. [ent |-> ent, cat |-> c] \in Meta
  BY <1>1 DEF Meta
<1>4. PlanFor(k, img, c, w) =
        [kind |-> k, ids |-> DOMAIN img, accs |-> DOMAIN w, mb |-> meta,
         ma |-> [ent |-> ent, cat |-> c], ab |-> accts, aa |-> aa]
  BY DEF PlanFor
<1>5. PlanFor(k, img, c, w) \in Plan
  BY <1>0, <1>2, <1>3, <1>4 DEF Plan
<1>6. \A i \in Ids : ent[i].live => ent[i].tag <= tag + 1
  BY <1>0 DEF Old, Meta, Image
<1> QED
  BY <1>4, <1>5, <1>6 DEF Prepared

\* Every mutation of the service is one _transact of a prepared document.
LEMMA MutationIsTransact ==
  ASSUME TypeOK, Old(meta), NEW p \in Procs, Mutate(p)
  PROVE  \E q : Prepared(q) /\ Transact(p, q)
<1> DEFINE t == tag + 1
<1>0. meta \in Meta /\ tag \in 0..MaxTag /\ MaxTag \in Nat
  BY VaultAssumption DEF TypeOK
<1>c. meta.cat \in 0..MaxTag /\ meta.cat <= t
  BY <1>0 DEF Meta, Old
<1>e. \A i \in Ids : meta.ent[i] \in Image /\ (meta.ent[i].live => meta.ent[i].tag <= t)
  BY <1>0 DEF Meta, Old, Image
<1>n. ASSUME tag < MaxTag PROVE t \in 0..MaxTag /\ LiveImage(t) \in Image /\ LiveImage(t).tag <= t
  BY <1>0, <1>n DEF LiveImage, Image
<1>s. \A s \in Stamps : Tombstone(s) \in Image /\ ~Tombstone(s).live
  BY JournalAssumption, <1>0 DEF Tombstone, Image, Tags
<1>w. ASSUME tag < MaxTag, NEW I, I \subseteq Ids, NEW input
      PROVE  /\ DOMAIN WritesFor(t, I, input) \subseteq Accounts
             /\ \A a \in DOMAIN WritesFor(t, I, input) : WritesFor(t, I, input)[a] \in 0..MaxTag
  BY <1>0, <1>w DEF WritesFor, Accounts, Absent
<1>1. CASE CreateEntry(p)
  <2>1. PICK i \in FreshIds, input \in SecretInputs :
          Transact(p, PlanFor("create", [x \in {i} |-> LiveImage(t)], meta.cat,
                              WritesFor(t, {i}, input)))
    BY <1>1 DEF CreateEntry
  <2> DEFINE img == [x \in {i} |-> LiveImage(t)]
             w == WritesFor(t, {i}, input)
  <2>2. tag < MaxTag
    BY <2>1 DEF Transact
  <2>3. {i} \subseteq Ids
    BY DEF FreshIds
  <2>4. /\ DOMAIN img \subseteq Ids
        /\ \A x \in DOMAIN img : img[x] \in Image /\ (img[x].live => img[x].tag <= t)
    BY <2>2, <2>3, <1>n
  <2>5. DOMAIN w \subseteq Accounts /\ \A a \in DOMAIN w : w[a] \in 0..MaxTag
    BY <1>w, <2>2, <2>3
  <2>6. Prepared(PlanFor("create", img, meta.cat, w))
    <3> HIDE DEF img, w
    <3> QED BY <1>c, <2>4, <2>5, PlanForPrepared DEF Kinds
  <2> QED
    BY <2>1, <2>6
<1>2. CASE UpdateEntry(p)
  <2>0. PICK i \in Live(meta), input \in SecretInputs :
          \E im \in UpdatedImages(i, t), c \in CatalogsAfter(t) :
            Transact(p, PlanFor("update", [x \in {i} |-> im], c, WritesFor(t, {i}, input)))
    BY <1>2 DEF UpdateEntry
  <2>1. PICK im \in UpdatedImages(i, t), c \in CatalogsAfter(t) :
          Transact(p, PlanFor("update", [x \in {i} |-> im], c, WritesFor(t, {i}, input)))
    BY <2>0
  <2> DEFINE img == [x \in {i} |-> im]
             w == WritesFor(t, {i}, input)
  <2>2. tag < MaxTag
    BY <2>1 DEF Transact
  <2>3. {i} \subseteq Ids
    BY DEF Live
  <2>4. im \in Image /\ (im.live => im.tag <= t)
    BY <2>2, <2>3, <1>n, <1>e DEF UpdatedImages
  <2>5. /\ DOMAIN img \subseteq Ids
        /\ \A x \in DOMAIN img : img[x] \in Image /\ (img[x].live => img[x].tag <= t)
    BY <2>3, <2>4
  <2>6. DOMAIN w \subseteq Accounts /\ \A a \in DOMAIN w : w[a] \in 0..MaxTag
    BY <1>w, <2>2, <2>3
  <2>7. c \in 0..MaxTag /\ c <= t
    BY <1>0, <1>c, <1>n, <2>2 DEF CatalogsAfter
  <2>8. Prepared(PlanFor("update", img, c, w))
    <3> HIDE DEF img, w
    <3> QED BY <2>5, <2>6, <2>7, PlanForPrepared DEF Kinds
  <2> QED
    BY <2>1, <2>8
<1>3. CASE DeleteEntry(p)
  <2> DEFINE c == IF Schema = 3 THEN t ELSE meta.cat
  <2>0. PICK i \in Live(meta), s \in Stamps : \E deps \in SUBSET (Live(meta) \ {i}) :
          Transact(p, PlanFor("delete",
                     [x \in deps \cup {i} |-> IF x = i THEN Tombstone(s) ELSE LiveImage(t)],
                     c, [a \in {i} \X Slots |-> Absent]))
    BY <1>3 DEF DeleteEntry
  <2>1. PICK deps \in SUBSET (Live(meta) \ {i}) :
          Transact(p, PlanFor("delete",
                     [x \in deps \cup {i} |-> IF x = i THEN Tombstone(s) ELSE LiveImage(t)],
                     c, [a \in {i} \X Slots |-> Absent]))
    BY <2>0
  <2> DEFINE img == [x \in deps \cup {i} |-> IF x = i THEN Tombstone(s) ELSE LiveImage(t)]
             w == [a \in {i} \X Slots |-> Absent]
  <2>2. tag < MaxTag
    BY <2>1 DEF Transact
  <2>3. i \in Ids /\ deps \subseteq Ids
    BY DEF Live
  <2>4. /\ DOMAIN img \subseteq Ids
        /\ \A x \in DOMAIN img : img[x] \in Image /\ (img[x].live => img[x].tag <= t)
    BY <2>2, <2>3, <1>n, <1>s
  <2>5. DOMAIN w \subseteq Accounts /\ \A a \in DOMAIN w : w[a] \in 0..MaxTag
    BY <1>0, <2>3 DEF Accounts, Absent
  <2>6. c \in 0..MaxTag /\ c <= t
    BY <1>0, <1>c, <1>n, <2>2
  <2>7. Prepared(PlanFor("delete", img, c, w))
    <3> HIDE DEF img, w, c
    <3> QED BY <2>4, <2>5, <2>6, PlanForPrepared DEF Kinds
  <2> QED
    BY <2>1, <2>7
<1>4. CASE BulkCreate(p)
  <2>1. PICK new \in (SUBSET FreshIds) \ {{}}, input \in SecretInputs :
          Transact(p, PlanFor("replace_all", [x \in new |-> LiveImage(t)], meta.cat,
                              WritesFor(t, new, input)))
    BY <1>4 DEF BulkCreate
  <2> DEFINE img == [x \in new |-> LiveImage(t)]
             w == WritesFor(t, new, input)
  <2>2. tag < MaxTag
    BY <2>1 DEF Transact
  <2>3. new \subseteq Ids
    BY DEF FreshIds
  <2>4. /\ DOMAIN img \subseteq Ids
        /\ \A x \in DOMAIN img : img[x] \in Image /\ (img[x].live => img[x].tag <= t)
    BY <2>2, <2>3, <1>n
  <2>5. DOMAIN w \subseteq Accounts /\ \A a \in DOMAIN w : w[a] \in 0..MaxTag
    BY <1>w, <2>2, <2>3
  <2>6. Prepared(PlanFor("replace_all", img, meta.cat, w))
    <3> HIDE DEF img, w
    <3> QED BY <1>c, <2>4, <2>5, PlanForPrepared DEF Kinds
  <2> QED
    BY <2>1, <2>6
<1>5. CASE ApplySnapshot(p)
  <2> DEFINE writes(win, del, input) ==
               [a \in (win \cup del) \X Slots |->
                  IF a[1] \in win /\ input[a[2]] = "set" THEN t ELSE Absent]
  <2>1. PICK win \in SUBSET Ids, del \in SUBSET Live(meta),
             input \in [Slots -> {"set", "remove"}], s \in Stamps :
          /\ win \cap del = {} /\ win \cup del # {}
          /\ \A a \in DOMAIN writes(win, del, input) : views[p].accts[a] = accts[a]
          /\ Transact(p, PlanFor("replace_all",
                     [x \in win \cup del |-> IF x \in win THEN LiveImage(t) ELSE Tombstone(s)],
                     meta.cat, writes(win, del, input)))
    BY <1>5, Zenon DEF ApplySnapshot
  <2> DEFINE img == [x \in win \cup del |-> IF x \in win THEN LiveImage(t) ELSE Tombstone(s)]
             w == writes(win, del, input)
  <2>2. tag < MaxTag
    BY <2>1 DEF Transact
  <2>3. win \cup del \subseteq Ids
    BY DEF Live
  <2>4. /\ DOMAIN img \subseteq Ids
        /\ \A x \in DOMAIN img : img[x] \in Image /\ (img[x].live => img[x].tag <= t)
    BY <2>2, <2>3, <1>n, <1>s
  <2>5. DOMAIN w \subseteq Accounts /\ \A a \in DOMAIN w : w[a] \in 0..MaxTag
    BY <1>0, <1>n, <2>2, <2>3 DEF Accounts, Absent
  <2>6. Prepared(PlanFor("replace_all", img, meta.cat, w))
    <3> HIDE DEF img, w
    <3> QED BY <1>c, <2>4, <2>5, PlanForPrepared DEF Kinds
  <2> QED
    BY <2>1, <2>6
<1> QED
  BY <1>1, <1>2, <1>3, <1>4, <1>5 DEF Mutate

-----------------------------------------------------------------------------
(* Type correctness *)

\* What an idle process has in memory is typed.
LEMMA Defaults ==
  /\ NoImage \in Image /\ EmptyMeta \in Meta /\ EmptySecrets \in Secrets
  /\ EmptyVault \in Vault /\ NoPlan \in Plan /\ NoRecord \in Record
<1>1. 0 \in 0..MaxTag
  BY VaultAssumption
<1>2. NoImage \in Image
  BY <1>1 DEF NoImage, Image
<1>3. EmptyMeta \in Meta
  BY <1>1, <1>2 DEF EmptyMeta, Meta
<1>4. EmptySecrets \in Secrets
  BY <1>1 DEF EmptySecrets, Secrets, Absent
<1>5. EmptyVault \in Vault
  BY <1>3, <1>4 DEF EmptyVault, Vault
<1>6. NoPlan \in Plan
  BY <1>3, <1>4 DEF NoPlan, Plan, Kinds
<1>7. NoRecord \in Record
  BY <1>6 DEF NoRecord, Record, Statuses
<1> QED
  BY <1>2, <1>3, <1>4, <1>5, <1>6, <1>7

\* The types of what a process has in memory and of the locks.
LocalType ==
  /\ holder \in Procs \cup {NoProc} /\ dlock \in BOOLEAN /\ pc \in Labels
  /\ mode \in Modes /\ goal \in {"none", "completed", "failed"}
  /\ cur \in 0..MaxTag /\ plan \in Plan
  /\ todo \subseteq Accounts /\ failed \in BOOLEAN /\ refs \subseteq Tags
  /\ phase \in [Procs -> Phases]

\* The types of what is on disk, and of the histories.
DiskType ==
  /\ meta \in Meta /\ accts \in Secrets
  /\ pend \subseteq Tags /\ recs \in [Tags -> Record] /\ receipts \in Seq(Receipt)
  /\ tag \in 0..MaxTag /\ faults \in Nat
  /\ vault \in Vault /\ outcome \in [Tags -> {"none", "completed", "failed"}]
  /\ touched \subseteq Tags /\ views \in [Procs -> Vault]

\* Leaving the profile lock keeps the process state typed.
LEMMA ReleaseType ==
  ASSUME TypeOK, NEW ph \in Phases, Release(ph)
  PROVE  LocalType'
<1>1. phase' \in [Procs -> Phases]
  BY DEF TypeOK, Release
<1>2. holder' = NoProc /\ dlock' = FALSE /\ pc' \in Labels /\ mode' \in Modes
  BY DEF Release, Forget, Labels, Modes
<1>3. goal' = "none" /\ cur' \in 0..MaxTag /\ plan' \in Plan /\ todo' = {} /\ failed' = FALSE
      /\ refs' = {}
  BY Defaults, VaultAssumption DEF Release, Forget
<1> QED
  BY <1>1, <1>2, <1>3 DEF LocalType

\* The fault counter stays a natural number.
LEMMA FaultType ==
  ASSUME TypeOK, Fault \/ NoFault
  PROVE  faults' \in Nat
BY DEF TypeOK, Fault, NoFault

\* The effect of a plan on a vault is a vault.
LEMMA EffectType ==
  ASSUME NEW q \in Plan, NEW v \in Vault
  PROVE  Effect(q, v) \in Vault
<1>1. q.ma \in Meta /\ q.aa \in Secrets /\ v.meta \in Meta /\ v.accts \in Secrets
  BY DEF Plan, Vault
<1>2. [i \in Ids |-> IF i \in q.ids THEN q.ma.ent[i] ELSE v.meta.ent[i]] \in [Ids -> Image]
  BY <1>1 DEF Meta
<1>3. [a \in Accounts |-> IF a \in q.accs THEN q.aa[a] ELSE v.accts[a]] \in Secrets
  BY <1>1 DEF Secrets
<1>4. (IF SetsCatalog(q) THEN q.ma.cat ELSE v.meta.cat) \in 0..MaxTag
  BY <1>1 DEF Meta
<1> QED
  BY <1>2, <1>3, <1>4 DEF Effect, Vault, Meta

\* A piece of a ledger is a ledger, and so is a trimmed one.
LEMMA PieceType ==
  ASSUME NEW x \in Seq(Receipt), NEW m \in Nat, NEW n \in Nat, m >= 1, n <= Len(x)
  PROVE  SubSeq(x, m, n) \in Seq(Receipt)
OBVIOUS

\* _write_receipts_unlocked cuts a ledger to a ledger.
LEMMA TrimType == ASSUME NEW all \in Seq(Receipt) PROVE Trim(all) \in Seq(Receipt)
<1>1. Len(all) \in Nat
  OBVIOUS
<1>2. CASE Len(all) > MaxReceipts
  <2>1. SubSeq(all, Len(all) - MaxReceipts + 1, Len(all)) \in Seq(Receipt)
    BY <1>1, <1>2, PieceType, JournalAssumption
  <2> QED BY <1>2, <2>1 DEF Trim
<1>3. CASE ~(Len(all) > MaxReceipts)
  BY <1>3 DEF Trim
<1> QED BY <1>2, <1>3

\* The receipt ledger stays a sequence of receipts.
LEMMA ArchivedType ==
  ASSUME NEW o \in Tags, NEW st \in {"completed", "failed"}, receipts \in Seq(Receipt)
  PROVE  Archived(o, st) \in Seq(Receipt)
<1>1. WithoutReceipt(o) \in Seq(Receipt)
  <2>1. CASE ~HasReceipt(o)
    BY <2>1 DEF WithoutReceipt
  <2>2. CASE HasReceipt(o)
    <3> DEFINE k == CHOOSE k \in DOMAIN receipts : receipts[k].op = o
    <3>1. k \in 1..Len(receipts)
      BY <2>2 DEF HasReceipt
    <3>2. SubSeq(receipts, 1, k - 1) \in Seq(Receipt)
      <4> HIDE DEF k
      <4>1. k - 1 \in Nat /\ k - 1 <= Len(receipts)
        BY <3>1
      <4> QED BY <4>1, PieceType
    <3>3. SubSeq(receipts, k + 1, Len(receipts)) \in Seq(Receipt)
      <4> HIDE DEF k
      <4>1. k + 1 \in Nat /\ k + 1 >= 1 /\ Len(receipts) \in Nat
        BY <3>1
      <4> QED BY <4>1, PieceType
    <3>4. SubSeq(receipts, 1, k - 1) \o SubSeq(receipts, k + 1, Len(receipts)) \in Seq(Receipt)
      BY <3>2, <3>3
    <3> QED
      BY <2>2, <3>4 DEF WithoutReceipt
  <2> QED
    BY <2>1, <2>2
<1>2. [op |-> o, st |-> st] \in Receipt
  BY DEF Receipt
<1>3. Append(WithoutReceipt(o), [op |-> o, st |-> st]) \in Seq(Receipt)
  BY <1>1, <1>2
<1> QED
  BY <1>3, TrimType DEF Archived

\* list_unfinished merges receipts into a ledger, in whatever order.
LEMMA MergedType ==
  ASSUME TypeOK, NEW r \in Merged({o \in Tags : Finished(o)})
  PROVE  r \in Seq(Receipt)
<1> DEFINE done == {o \in Tags : Finished(o)}
           kept == {receipts[k] : k \in {x \in DOMAIN receipts : receipts[x].op \notin done}}
           new == {[op |-> o, st |-> recs[o].st] : o \in done}
<1>1. receipts \in Seq(Receipt)
  BY DEF TypeOK
<1>2. kept \subseteq Receipt
  BY <1>1
<1>3. new \subseteq Receipt
  BY DEF Receipt, Finished
<1>4. CASE done = {}
  BY <1>1, <1>4 DEF Merged
<1>5. CASE done # {}
  <2>1. PICK s \in Rows(kept \cup new) : r = Trim(s)
    BY <1>5 DEF Merged
  <2>2. PICK n \in 0..MaxTag : s \in [1..n -> kept \cup new]
    <3> HIDE DEF kept, new
    <3> QED BY <2>1 DEF Rows
  <2>3. s \in [1..n -> Receipt] /\ n \in Nat
    <3> HIDE DEF kept, new
    <3> QED BY <1>2, <1>3, <2>2, VaultAssumption
  <2>4. s \in Seq(Receipt)
    BY <2>3
  <2> QED BY <2>1, <2>4, TrimType
<1> QED BY <1>4, <1>5

-----------------------------------------------------------------------------
(* The invariant is inductive *)

\* At every label but idle and scan the holder has to keep something.
Promises == AtRecord /\ AtWork /\ AtApply /\ AtUndo /\ AtOuter /\ AtVerify /\ AtClose /\ AtArchive

\* What is said of the disk, whoever holds the lock.
OnDisk == Records /\ Covered /\ Old(meta)

\* The inductive invariant from its parts.
LEMMA Assemble ==
  ASSUME LocalType', DiskType', Free', OnDisk', Promises'
  PROVE  PipelineInv'
<1>1. TypeOK'
  BY DEF TypeOK, LocalType, DiskType
<1> QED
  BY <1>1 DEF PipelineInv, Promises, OnDisk

\* A new profile satisfies the inductive invariant.
LEMMA PipelineInit == Init => PipelineInv
<1> SUFFICES ASSUME Init PROVE PipelineInv
  OBVIOUS
<1>1. TypeOK
  <2>1. meta \in Meta /\ accts \in Secrets /\ vault \in Vault /\ plan \in Plan
    BY Defaults DEF Init
  <2>2. recs \in [Tags -> Record] /\ pend \subseteq Tags /\ touched \subseteq Tags
    BY Defaults DEF Init
  <2>3. receipts \in Seq(Receipt)
    BY DEF Init
  <2>4. holder \in Procs \cup {NoProc} /\ dlock \in BOOLEAN /\ pc \in Labels /\ mode \in Modes
    BY DEF Init, Labels, Modes
  <2>5. goal \in {"none", "completed", "failed"} /\ todo \subseteq Accounts
        /\ failed \in BOOLEAN /\ refs \subseteq Tags
    BY DEF Init
  <2>6. cur \in 0..MaxTag /\ tag \in 0..MaxTag /\ faults \in Nat
    BY VaultAssumption DEF Init
  <2>7. phase \in [Procs -> Phases] /\ outcome \in [Tags -> {"none", "completed", "failed"}]
    BY DEF Init, Phases
  <2>8. views \in [Procs -> Vault]
    BY Defaults DEF Init
  <2> QED
    BY <2>1, <2>2, <2>3, <2>4, <2>5, <2>6, <2>7, <2>8 DEF TypeOK
<1>2. Open = {}
  BY DEF Init, Open, NoRecord
<1>3. Free
  BY DEF Init, Free
<1>4. Records
  BY <1>2 DEF Init, Records, NoRecord
<1>5. Covered
  BY DEF Init, Covered, SecretsCovered, MetaCovered, EmptyVault
<1>6. Old(meta)
  BY DEF Init, Old, EmptyMeta, NoImage
<1>7. Promises
  BY DEF Init, Promises, AtRecord, AtWork, AtApply, AtUndo, AtOuter, AtVerify, AtClose,
     AtArchive, Working
<1> QED
  BY <1>1, <1>3, <1>4, <1>5, <1>6, <1>7 DEF PipelineInv, Promises

\* A process that leaves the profile lock has nothing left to keep.
LEMMA ReleaseInv ==
  ASSUME PipelineInv, NEW ph \in Phases, Release(ph), DiskType', OnDisk'
  PROVE  PipelineInv'
<1>1. LocalType'
  BY ReleaseType DEF PipelineInv
<1>2. pc' = "idle" /\ holder' = NoProc /\ dlock' = FALSE
  BY DEF Release
<1>3. Free'
  BY <1>2 DEF Free
<1>4. Promises'
  BY <1>2 DEF Promises, AtRecord, AtWork, AtApply, AtUndo, AtOuter, AtVerify, AtClose,
     AtArchive, Working
<1> QED
  BY <1>1, <1>3, <1>4, Assemble

\* Nothing on disk changed: what is said of the disk still holds.
LEMMA DiskFrame ==
  ASSUME PipelineInv, UNCHANGED <<disk, recs, pend, tag, vault>>
  PROVE  OnDisk' /\ Open' = Open
BY DEF PipelineInv, OnDisk, Records, Covered, SecretsCovered, MetaCovered, Old, Open, GoodPlan,
   SetsCatalog, disk

\* A crash anywhere leaves the disk to recovery, and covered.
LEMMA StepCrash == ASSUME PipelineInv, Crash PROVE PipelineInv'
<1>1. DiskType'
  BY FaultType DEF PipelineInv, TypeOK, DiskType, Crash, disk, journal, history
<1>2. OnDisk'
  BY DiskFrame DEF Crash, journal, history
<1> QED
  BY <1>1, <1>2, ReleaseInv DEF Crash, Phases

\* Later tags leave old images old.
LEMMA StillGood ==
  ASSUME TypeOK, tag' \in 0..MaxTag, tag <= tag', NEW q \in Plan, GoodPlan(q)
  PROVE  /\ \A i \in Ids : i \notin q.ids => q.ma.ent[i] = q.mb.ent[i]
         /\ q.mb.cat <= tag' /\ q.ma.cat <= tag'
         /\ \A i \in Ids : q.mb.ent[i].live => q.mb.ent[i].tag <= tag'
         /\ \A i \in Ids : q.ma.ent[i].live => q.ma.ent[i].tag <= tag'
<1>1. tag \in Int /\ tag' \in Int
  BY DEF TypeOK
<1>2. q.mb \in Meta /\ q.ma \in Meta
  BY DEF Plan
<1>3. ASSUME NEW m \in Meta PROVE m.cat \in Int /\ \A i \in Ids : m.ent[i].tag \in Int
  BY <1>3 DEF Meta, Image
<1> QED
  BY <1>1, <1>2, <1>3 DEF GoodPlan, Old

\* _transact indexes an operation that has written nothing.
LEMMA StepTransact ==
  ASSUME PipelineInv, NEW p \in Procs, NEW q, Prepared(q), Transact(p, q)
  PROVE  PipelineInv'
<1> DEFINE o == tag + 1
<1>0. /\ TypeOK /\ Free /\ Records /\ Covered /\ Old(meta)
      /\ holder = NoProc /\ tag < MaxTag /\ tag' = o /\ pc = "idle" /\ ~dlock
      /\ UNCHANGED <<disk, recs, receipts, history>>
  BY DEF PipelineInv, Transact, Free
<1>1. o \in Tags /\ tag \in Nat /\ recs[o].st = "absent"
  BY <1>0, VaultAssumption DEF Records, TypeOK, Tags
<1>2. Open' = Open
  BY <1>0 DEF Open
<1>3. DiskType'
  <2>1. pend' \subseteq Tags
    BY <1>0, <1>1 DEF Transact, TypeOK
  <2>2. tag' \in 0..MaxTag
    BY <1>0, <1>1, VaultAssumption
  <2>3. faults' \in Nat
    BY <1>0, FaultType DEF Transact
  <2> QED
    BY <1>0, <2>1, <2>2, <2>3 DEF TypeOK, DiskType, disk, history
<1>4. Old(meta)'
  BY <1>0, <1>1 DEF Old, disk, TypeOK, Meta, Image
<1>5. Covered'
  BY <1>0, <1>2 DEF Covered, SecretsCovered, MetaCovered, disk, history
<1>6. Records'
  <2>1. (Open \subseteq pend)'
    BY <1>0, <1>2 DEF Records, Transact
  <2>2. \A x \in Tags : x > tag' => recs'[x].st = "absent"
    BY <1>0, <1>1 DEF Records, Tags
  <2>3. ASSUME NEW x \in Open PROVE GoodPlan(recs[x].plan)'
    <3>1. recs[x].plan \in Plan /\ recs'[x] = recs[x]
      BY <1>0 DEF TypeOK, Record, Open
    <3>2. GoodPlan(recs[x].plan) /\ tag <= tag' /\ tag' \in 0..MaxTag
      BY <1>0, <1>1, VaultAssumption DEF Records
    <3> QED
      BY <1>0, <3>1, <3>2, StillGood DEF GoodPlan, Old
  <2> QED
    BY <1>0, <1>2, <2>1, <2>2, <2>3 DEF Records
<1>7. OnDisk'
  BY <1>4, <1>5, <1>6 DEF OnDisk
<1>8. CASE pc' = "record"
  <2>1. /\ holder' = p /\ dlock' = TRUE /\ mode' = "transact" /\ cur' = o /\ plan' = q
        /\ pend' = pend \cup {o}
        /\ UNCHANGED <<goal, todo, failed, refs, phase>>
    BY <1>0, <1>8 DEF Transact
  <2>2. LocalType'
    BY <1>0, <1>1, <1>8, <2>1, VaultAssumption DEF TypeOK, LocalType, Labels, Modes, Prepared, Tags
  <2>3. Free'
    BY <1>8, <2>1, JournalAssumption DEF Free
  <2>4. GoodPlan(plan)'
    BY <1>0, <1>1, <1>4, <2>1 DEF Prepared, GoodPlan, Old, disk, Plan, Meta, Image
  <2>5. AtRecord'
    BY <1>0, <1>1, <2>1, <2>4 DEF AtRecord, Prepared, disk
  <2>6. Promises'
    BY <1>8, <2>5 DEF Promises, AtWork, AtApply, AtUndo, AtOuter, AtVerify, AtClose,
       AtArchive, Working
  <2> QED
    BY <1>3, <1>7, <2>2, <2>3, <2>6, Assemble
<1>9. CASE pc' # "record"
  <2>1. UNCHANGED <<holder, dlock, pc, local>> /\ phase' = [phase EXCEPT ![p] = "idle"]
    BY <1>9 DEF Transact
  <2>2. LocalType'
    BY <1>0, <2>1 DEF TypeOK, LocalType, Phases, local
  <2>3. Free'
    BY <1>0, <2>1 DEF Free
  <2>4. Promises'
    BY <1>0, <2>1 DEF Promises, AtRecord, AtWork, AtApply, AtUndo, AtOuter, AtVerify, AtClose,
       AtArchive, Working
  <2> QED
    BY <1>3, <1>7, <2>2, <2>3, <2>4, Assemble
<1> QED
  BY <1>8, <1>9

\* begin() indexes an operation before its record exists.
LEMMA StepWriteRecord == ASSUME PipelineInv, WriteRecord PROVE PipelineInv'
<1> DEFINE written == [recs EXCEPT ![cur] = [st |-> "pending", plan |-> plan]]
<1>0. /\ TypeOK /\ Records /\ Covered /\ Old(meta) /\ AtRecord /\ pc = "record" /\ Free
      /\ UNCHANGED <<disk, receipts, tag, history>>
  BY DEF PipelineInv, WriteRecord
<1>1. /\ mode = "transact" /\ dlock /\ cur \in Tags /\ cur \in pend
      /\ recs[cur].st = "absent" /\ cur <= tag
      /\ meta = plan.mb /\ accts = plan.ab /\ GoodPlan(plan)
      /\ holder # NoProc
  BY <1>0 DEF AtRecord, Free
<1>2. cur \notin Open
  BY <1>1 DEF Open
<1>3. faults' \in Nat
  <2>1. faults \in Nat
    BY <1>0 DEF TypeOK
  <2>2. NoFault \/ Fault \/ faults' = faults + 2
    BY DEF WriteRecord
  <2> QED
    BY <2>1, <2>2 DEF Fault, NoFault
<1>4. meta' = meta /\ accts' = accts /\ tag' = tag /\ vault' = vault
  BY <1>0 DEF disk, history
<1>5. ASSUME recs' = written, pend' = pend
      PROVE  DiskType' /\ OnDisk' /\ Open' = Open \cup {cur} /\ recs'[cur].plan = plan
             /\ \A o \in Open : recs'[o] = recs[o]
  <2>1. recs' \in [Tags -> Record]
    BY <1>0, <1>1, <1>5 DEF TypeOK, Record, Statuses
  <2>2. DiskType'
    BY <1>0, <1>3, <1>5, <2>1 DEF TypeOK, DiskType, disk, history
  <2>3. recs'[cur] = [st |-> "pending", plan |-> plan]
        /\ \A o \in Tags \ {cur} : recs'[o] = recs[o]
    BY <1>0, <1>1, <1>5 DEF TypeOK
  <2>4. Open' = Open \cup {cur}
    BY <1>1, <2>3 DEF Open
  <2>5. \A o \in Open : recs'[o] = recs[o]
    BY <1>2, <2>3 DEF Open
  <2>6. Records'
    <3>1. (Open \subseteq pend)'
      BY <1>0, <1>1, <1>5, <2>4 DEF Records
    <3>2. \A o \in Tags : o > tag' => recs'[o].st = "absent"
      <4>1. cur \in Int /\ tag \in Int
        BY <1>0, <1>1 DEF TypeOK, Tags
      <4>2. TAKE o \in Tags
      <4>3. o \in Int
        BY DEF Tags
      <4>4. o > tag => o # cur /\ recs[o].st = "absent"
        BY <1>0, <1>1, <4>1, <4>3 DEF Records
      <4> QED BY <1>4, <2>3, <4>4
    <3>3. \A o \in Open' : GoodPlan(recs[o].plan)'
      BY <1>0, <1>1, <1>4, <2>3, <2>4, <2>5 DEF Records, GoodPlan, Old
    <3> QED BY <3>1, <3>2, <3>3 DEF Records
  <2>7. Covered'
    BY <1>0, <1>4, <2>4, <2>5 DEF Covered, SecretsCovered, MetaCovered
  <2>8. Old(meta)'
    BY <1>0, <1>4 DEF Old
  <2> QED BY <2>2, <2>3, <2>4, <2>5, <2>6, <2>7, <2>8 DEF OnDisk
<1>6. CASE NoFault /\ recs' = written /\ todo' = plan.accs /\ Goto("apply", TRUE)
           /\ UNCHANGED <<pend, mode, goal, cur, plan, failed, refs>>
  <2>1. Open' = Open \cup {cur} /\ recs'[cur].plan = plan /\ DiskType' /\ OnDisk'
        /\ \A o \in Open : recs'[o] = recs[o]
    BY <1>5, <1>6
  <2>2. pc' = "apply" /\ dlock' = TRUE /\ holder' = holder /\ phase' = phase
    BY <1>6 DEF Goto
  <2>3. LocalType'
    BY <1>0, <1>6, <2>2 DEF TypeOK, LocalType, Labels, Plan
  <2>4. Free'
    BY <1>1, <2>2 DEF Free
  <2>5. AtWork'
    BY <1>1, <1>4, <1>6, <2>1, <2>2 DEF AtWork, SameDocument, GoodPlan, Old
  <2>6. Others' = Open
    BY <1>2, <1>6, <2>1 DEF Others
  <2>7. (Revocable /\ MetaCovered(Others))'
    BY <1>0, <1>1, <1>4, <1>6, <2>1, <2>6
       DEF Covered, Revocable, SecretsCovered, MetaCovered, Restored, Untouched
  <2>8. AtApply'
    BY <1>1, <1>4, <1>6, <2>1, <2>2, <2>7 DEF AtApply, Applied
  <2>9. Promises'
    BY <2>2, <2>5, <2>8 DEF Promises, AtRecord, AtUndo, AtOuter, AtVerify, AtClose, AtArchive
  <2> QED BY <2>1, <2>3, <2>4, <2>9, Assemble
<1>7. CASE recs' = written /\ pend' = pend /\ Release("idle")
  BY <1>5, <1>7, ReleaseInv DEF Phases
<1>8. CASE recs' = recs /\ pend' \in {pend, pend \ {cur}} /\ Release("idle")
  <2>1. Open' = Open
    BY <1>8 DEF Open
  <2>2. OnDisk'
    BY <1>0, <1>2, <1>4, <1>8, <2>1
       DEF OnDisk, Records, Covered, SecretsCovered, MetaCovered, Old, GoodPlan
  <2>3. DiskType'
    BY <1>0, <1>3, <1>8 DEF TypeOK, DiskType, disk, history
  <2> QED BY <1>8, <2>2, <2>3, ReleaseInv DEF Phases
<1> QED
  BY <1>6, <1>7, <1>8 DEF WriteRecord

\* Writing an account of the open operation keeps the rest covered.
LEMMA AccountWrite ==
  ASSUME PipelineInv, cur \in Open, NEW a \in plan.accs, NEW v \in 0..MaxTag,
         SameDocument(recs[cur].plan, plan),
         accts' \in {accts, [accts EXCEPT ![a] = v]},
         UNCHANGED <<meta, journal, tag, vault>>
  PROVE  /\ OnDisk' /\ Open' = Open /\ accts' \in Secrets
         /\ \A x \in Accounts : x # a => accts'[x] = accts[x]
         /\ a \in Accounts /\ accts'[a] \in {accts[a], v}
<1>0. TypeOK /\ Records /\ Covered /\ Old(meta)
  BY DEF PipelineInv
<1>1. recs' = recs /\ pend' = pend /\ tag' = tag /\ vault' = vault /\ meta' = meta
  BY DEF journal
<1>2. a \in Accounts /\ accts \in [Accounts -> 0..MaxTag]
  BY <1>0 DEF TypeOK, Plan, Secrets
<1>3. accts' \in Secrets /\ \A x \in Accounts : x # a => accts'[x] = accts[x]
  BY <1>2 DEF Secrets
<1>4. Open' = Open
  BY <1>1 DEF Open
<1>5. SecretsCovered(accts, Open)'
  <2> SUFFICES ASSUME NEW x \in Accounts, accts'[x] # vault.accts[x]
               PROVE  \E o \in Open : x \in recs[o].plan.accs
    BY <1>1, <1>4 DEF SecretsCovered
  <2>1. CASE x = a
    BY <2>1 DEF SameDocument
  <2>2. CASE x # a
    BY <1>0, <1>3, <2>2 DEF Covered, SecretsCovered
  <2> QED BY <2>1, <2>2
<1>6. MetaCovered(Open)'
  BY <1>0, <1>1, <1>4 DEF Covered, MetaCovered
<1>7. Records' /\ Old(meta)'
  BY <1>0, <1>1, <1>4 DEF Records, Old, GoodPlan
<1>8. accts'[a] \in {accts[a], v}
  BY <1>2
<1> QED
  BY <1>2, <1>3, <1>4, <1>5, <1>6, <1>7, <1>8 DEF OnDisk, Covered

\* After an error the accounts are rolled back, or recovery stops.
LEMMA GiveUp ==
  ASSUME PipelineInv, pc = "apply", GiveUpApplying, DiskType', OnDisk', meta' = meta,
         cur \in Open', SameDocument(recs'[cur].plan, plan), tag' = tag,
         mode = "transact" => /\ SecretsCovered(plan.ab, Others)' /\ MetaCovered(Others)'
                              /\ \A a \in Untouched : accts'[a] = plan.ab[a]
  PROVE  PipelineInv'
<1>0. TypeOK /\ AtWork /\ AtApply /\ Free
  BY DEF PipelineInv
<1>1. CASE mode = "transact"
  <2>1. pc' = "undo" /\ dlock' = TRUE /\ holder' = holder /\ phase' = phase
        /\ todo' = plan.accs /\ failed' = FALSE
        /\ UNCHANGED <<mode, goal, cur, plan, refs>>
    BY <1>1 DEF GiveUpApplying, Goto
  <2>2. LocalType'
    BY <1>0, <2>1 DEF TypeOK, LocalType, Labels, Plan
  <2>3. Free'
    BY <1>0, <2>1 DEF Free
  <2>4. AtWork'
    BY <1>0, <1>1, <2>1 DEF AtWork, Working, SameDocument, GoodPlan, Old
  <2>5. SecretsCovered(plan.ab, Others)' /\ MetaCovered(Others)'
    BY <1>1
  <2>6. Revocable'
    BY <1>1, <2>1, <2>5 DEF Revocable, Restored, Untouched
  <2>7. meta = plan.mb
    BY <1>0, <1>1 DEF AtApply
  <2>8. AtUndo'
    BY <1>1, <2>1, <2>5, <2>6, <2>7 DEF AtUndo, Restored
  <2>9. Promises'
    BY <2>1, <2>4, <2>8 DEF Promises, AtRecord, AtApply, AtOuter, AtVerify, AtClose, AtArchive
  <2> QED BY <2>2, <2>3, <2>9, Assemble
<1>2. CASE mode # "transact"
  BY <1>2, ReleaseInv DEF GiveUpApplying, Phases
<1> QED BY <1>1, <1>2

\* _apply_accounts writes accounts of the open operation only.
LEMMA StepApplyAccount == ASSUME PipelineInv, ApplyAccount PROVE PipelineInv'
<1>0. TypeOK /\ AtWork /\ AtApply /\ Free /\ pc = "apply"
      /\ UNCHANGED <<meta, journal, tag, vault, outcome, views>>
      /\ touched' = touched \cup {cur}
  BY DEF PipelineInv, ApplyAccount
<1>1. /\ cur \in Open /\ SameDocument(recs[cur].plan, plan) /\ GoodPlan(plan)
      /\ todo \subseteq plan.accs
  BY <1>0 DEF AtWork, AtApply, Working
<1>2. PICK a \in todo :
        \/ /\ NoFault
           /\ accts' = [accts EXCEPT ![a] = plan.aa[a]] /\ todo' = todo \ {a}
           /\ UNCHANGED <<lock, mode, goal, cur, plan, failed, refs>>
        \/ /\ Fault
           /\ accts' \in {accts, [accts EXCEPT ![a] = plan.aa[a]]}
           /\ GiveUpApplying
  BY DEF ApplyAccount
<1>3. a \in plan.accs /\ plan.accs \subseteq Accounts /\ plan.aa[a] \in 0..MaxTag
  BY <1>0, <1>1 DEF TypeOK, Plan, Secrets
<1>4. /\ OnDisk' /\ Open' = Open /\ accts' \in Secrets
      /\ \A x \in Accounts : x # a => accts'[x] = accts[x]
  BY <1>0, <1>1, <1>2, <1>3, AccountWrite
<1>5. DiskType'
  <2>1. faults' \in Nat
    BY <1>0, <1>2, FaultType
  <2>2. touched' \subseteq Tags
    BY <1>0, <1>1 DEF TypeOK, Open
  <2> QED
    BY <1>0, <1>4, <2>1, <2>2 DEF TypeOK, DiskType, journal
<1>6. recs' = recs /\ vault' = vault /\ meta' = meta /\ tag' = tag
  BY <1>0 DEF journal
<1>7. cur' = cur => Others' = Others
  BY <1>4 DEF Others
<1>8. \A x \in Untouched : accts'[x] = accts[x]
  BY <1>3, <1>4 DEF Untouched
<1>9. CASE Fault /\ GiveUpApplying
  <2>1. mode = "transact" => plan' = plan /\ cur' = cur
    BY <1>9 DEF GiveUpApplying
  <2>2. mode = "transact" => Revocable /\ MetaCovered(Others)
    BY <1>0 DEF AtApply
  <2>3. mode = "transact" => SecretsCovered(plan.ab, Others)' /\ MetaCovered(Others)'
    BY <1>6, <1>7, <2>1, <2>2 DEF Revocable, SecretsCovered, MetaCovered
  <2>4. mode = "transact" => \A x \in Untouched : accts'[x] = plan.ab[x]
    BY <1>8, <2>2 DEF Revocable, Restored
  <2> QED
    BY <1>0, <1>1, <1>4, <1>5, <1>6, <1>9, <2>3, <2>4, GiveUp
<1>10. CASE /\ accts' = [accts EXCEPT ![a] = plan.aa[a]] /\ todo' = todo \ {a}
            /\ UNCHANGED <<lock, mode, goal, cur, plan, failed, refs>>
  <2>1. pc' = pc /\ dlock' = dlock /\ holder' = holder /\ phase' = phase
    BY <1>10 DEF lock
  <2>2. LocalType'
    BY <1>0, <1>10, <2>1 DEF TypeOK, LocalType
  <2>3. Free'
    BY <1>0, <2>1 DEF Free
  <2>4. AtWork'
    BY <1>0, <1>1, <1>4, <1>6, <1>10, <2>1 DEF AtWork, SameDocument, GoodPlan, Old, Working
  <2>5. (Applied(plan.accs \ todo))'
    <3>1. accts'[a] = plan.aa[a]
      BY <1>0, <1>3, <1>10 DEF TypeOK, Secrets
    <3>2. Applied(plan.accs \ todo)
      BY <1>0 DEF AtApply
    <3> QED BY <1>3, <1>4, <1>10, <3>1, <3>2 DEF Applied
  <2>6. mode = "transact" => (Revocable /\ MetaCovered(Others))'
    <3>1. mode = "transact" => Revocable /\ MetaCovered(Others)
      BY <1>0 DEF AtApply
    <3> QED
      BY <1>6, <1>7, <1>8, <1>10, <3>1
         DEF Revocable, SecretsCovered, MetaCovered, Restored, Untouched
  <2>7. AtApply'
    BY <1>0, <1>1, <1>6, <1>10, <2>1, <2>5, <2>6 DEF AtApply
  <2>8. Promises'
    BY <1>0, <2>1, <2>4, <2>7
       DEF Promises, AtRecord, AtUndo, AtOuter, AtVerify, AtClose, AtArchive
  <2> QED BY <1>4, <1>5, <2>2, <2>3, <2>8, Assemble
<1> QED BY <1>2, <1>9, <1>10

\* stage() may replace the document by one that differs in tombstone stamps.
LEMMA StepStageApplied == ASSUME PipelineInv, StageApplied PROVE PipelineInv'
<1> DEFINE staged == [recs EXCEPT ![cur].plan = plan]
<1>0. TypeOK /\ AtWork /\ AtApply /\ Free /\ Records /\ Covered /\ Old(meta) /\ pc = "apply"
      /\ todo = {} /\ UNCHANGED <<disk, pend, receipts, tag, history>>
  BY DEF PipelineInv, StageApplied
<1>1. /\ cur \in Open /\ SameDocument(recs[cur].plan, plan) /\ GoodPlan(plan) /\ cur \in Tags
      /\ dlock
  BY <1>0 DEF AtWork, AtApply, Working, Open
<1>2. recs' \in {recs, staged}
  BY DEF StageApplied
<1>3. \A o \in Tags : recs'[o] = recs[o] \/ (o = cur /\ recs'[o] = [recs[o] EXCEPT !.plan = plan])
  BY <1>0, <1>1, <1>2 DEF TypeOK
<1>4. recs' \in [Tags -> Record]
  BY <1>0, <1>1, <1>2 DEF TypeOK, Record
<1>5. \A o \in Tags : /\ recs'[o].st = recs[o].st
                      /\ SameDocument(recs[o].plan, recs'[o].plan)
  <2> TAKE o \in Tags
  <2>1. CASE recs'[o] = recs[o]
    BY <2>1 DEF SameDocument
  <2>2. CASE o = cur /\ recs'[o] = [recs[o] EXCEPT !.plan = plan]
    <3>1. recs[o] \in Record
      BY <1>0 DEF TypeOK
    <3>2. recs'[o].st = recs[o].st /\ recs'[o].plan = plan
      BY <2>2, <3>1 DEF Record
    <3> QED BY <1>1, <2>2, <3>2
  <2> QED BY <1>3, <2>1, <2>2
<1>6. Open' = Open
  BY <1>5 DEF Open
<1>7. meta' = meta /\ accts' = accts /\ vault' = vault /\ tag' = tag /\ pend' = pend
  BY <1>0 DEF disk, history
<1>8. DiskType'
  <2>1. faults' \in Nat
    BY <1>0, FaultType DEF StageApplied
  <2> QED BY <1>0, <1>4, <2>1 DEF TypeOK, DiskType, disk, history
<1>9. Records'
  <2>1. \A o \in Open : GoodPlan(recs[o].plan)'
    <3> TAKE o \in Open
    <3>1. o \in Tags /\ GoodPlan(recs[o].plan)
      BY <1>0 DEF Records, Open
    <3>2. recs'[o].plan = recs[o].plan \/ recs'[o].plan = plan
      BY <1>0, <1>3, <3>1 DEF TypeOK, Record
    <3> QED BY <1>1, <1>7, <3>1, <3>2 DEF GoodPlan, Old
  <2> QED BY <1>0, <1>5, <1>6, <1>7, <2>1 DEF Records
<1>10. ASSUME NEW S, S \subseteq Tags
       PROVE  /\ MetaCovered(S) => MetaCovered(S)'
              /\ \A v : SecretsCovered(v, S) =>
                   \A a \in Accounts : v[a] # vault'.accts[a] => \E o \in S : a \in recs'[o].plan.accs
  <2>1. \A o \in S : /\ recs'[o].plan.ids = recs[o].plan.ids
                     /\ recs'[o].plan.accs = recs[o].plan.accs
                     /\ SetsCatalog(recs'[o].plan) = SetsCatalog(recs[o].plan)
    BY <1>5, <1>10 DEF SameDocument, SetsCatalog
  <2>2. MetaCovered(S) => MetaCovered(S)'
    BY <1>7, <2>1 DEF MetaCovered
  <2> QED BY <1>7, <2>1, <2>2 DEF SecretsCovered
<1>11. OnDisk'
  <2>1. Open \subseteq Tags
    BY DEF Open
  <2> QED BY <1>0, <1>6, <1>7, <1>9, <1>10, <2>1 DEF OnDisk, Covered, SecretsCovered, MetaCovered, Old
<1>12. Others \subseteq Tags
  BY DEF Others, Open
<1>13. cur' = cur => Others' = Others
  BY <1>6 DEF Others
<1>14. SameDocument(recs'[cur].plan, plan)
  BY <1>1, <1>5 DEF SameDocument
<1>15. mode = "transact" => Revocable /\ MetaCovered(Others)
  BY <1>0 DEF AtApply
<1>16. CASE GiveUpApplying
  <2>1. mode = "transact" => plan' = plan /\ cur' = cur
    BY <1>16 DEF GiveUpApplying
  <2>2. mode = "transact" => SecretsCovered(plan.ab, Others)' /\ MetaCovered(Others)'
    BY <1>10, <1>12, <1>13, <1>15, <2>1 DEF Revocable, SecretsCovered, MetaCovered
  <2>3. mode = "transact" => \A x \in Untouched : accts'[x] = plan.ab[x]
    BY <1>7, <1>15 DEF Revocable, Restored
  <2> QED BY <1>0, <1>1, <1>6, <1>7, <1>8, <1>11, <1>14, <1>16, <2>2, <2>3, GiveUp
<1>17. CASE mode = "confirm" /\ Goto("verify", FALSE) /\ UNCHANGED <<recs, local>>
  <2>1. pc' = "verify" /\ dlock' = FALSE /\ holder' = holder /\ phase' = phase
    BY <1>17 DEF Goto
  <2>2. LocalType'
    BY <1>0, <1>17, <2>1 DEF TypeOK, LocalType, Labels, local
  <2>3. Free'
    BY <1>0, <2>1 DEF Free
  <2>4. AtWork'
    BY <1>0, <1>1, <1>6, <1>7, <1>17, <2>1 DEF AtWork, SameDocument, GoodPlan, Old, Working, local
  <2>5. AtVerify'
    BY <1>0, <1>7, <1>17, <2>1 DEF AtApply, AtVerify, Applied, local
  <2>6. Promises'
    BY <2>1, <2>4, <2>5 DEF Promises, AtRecord, AtApply, AtUndo, AtOuter, AtClose, AtArchive
  <2> QED BY <1>8, <1>11, <2>2, <2>3, <2>6, Assemble
<1>18. CASE mode # "confirm" /\ recs' = staged /\ Goto("publish", TRUE) /\ UNCHANGED local
  <2>1. pc' = "publish" /\ dlock' = TRUE /\ holder' = holder /\ phase' = phase
    BY <1>18 DEF Goto
  <2>2. LocalType'
    BY <1>0, <1>18, <2>1 DEF TypeOK, LocalType, Labels, local
  <2>3. Free'
    BY <1>0, <1>1, <2>1 DEF Free
  <2>4. AtWork'
    BY <1>0, <1>1, <1>6, <1>7, <1>14, <1>18, <2>1
       DEF AtWork, SameDocument, GoodPlan, Old, Working, local
  <2>5. recs'[cur].plan = plan
    BY <1>0, <1>1, <1>18 DEF TypeOK, Record
  <2>6. mode = "transact" => (Revocable /\ MetaCovered(Others))'
    <3>1. plan' = plan /\ cur' = cur
      BY <1>18 DEF local
    <3>2. mode = "transact" => SecretsCovered(plan.ab, Others)' /\ MetaCovered(Others)'
      BY <1>10, <1>12, <1>13, <1>15, <3>1 DEF Revocable, SecretsCovered, MetaCovered
    <3> QED
      BY <1>7, <1>15, <3>1, <3>2 DEF Revocable, Restored, Untouched
  <2>7. AtApply'
    BY <1>0, <1>7, <1>18, <2>1, <2>5, <2>6 DEF AtApply, Applied, local
  <2>8. Promises'
    BY <2>1, <2>4, <2>7 DEF Promises, AtRecord, AtUndo, AtOuter, AtVerify, AtClose, AtArchive
  <2> QED BY <1>8, <1>11, <2>2, <2>3, <2>8, Assemble
<1> QED BY <1>16, <1>17, <1>18 DEF StageApplied

\* Publishing writes the after image of the open operation.
LEMMA StepPublish == ASSUME PipelineInv, Publish PROVE PipelineInv'
<1>0. TypeOK /\ AtWork /\ AtApply /\ Free /\ Records /\ Covered /\ Old(meta) /\ pc = "publish"
      /\ UNCHANGED <<accts, journal, tag, vault, outcome, views>>
      /\ touched' = touched \cup {cur} /\ meta' \in {meta, plan.ma}
  BY DEF PipelineInv, Publish
<1>1. /\ cur \in Open /\ GoodPlan(plan) /\ cur \in Tags /\ mode \in {"transact", "forward"}
      /\ dlock /\ todo = {} /\ plan = recs[cur].plan /\ meta = plan.mb
      /\ Applied(plan.accs)
      /\ mode = "transact" => Revocable /\ MetaCovered(Others)
  BY <1>0 DEF AtWork, AtApply, Working, Open
<1>2. recs' = recs /\ pend' = pend /\ tag' = tag /\ vault' = vault /\ accts' = accts
  BY <1>0 DEF journal
<1>3. Open' = Open
  BY <1>2 DEF Open
<1>4. plan.ma \in Meta /\ meta' \in Meta
  BY <1>0 DEF TypeOK, Plan
<1>5. DiskType'
  <2>1. faults' \in Nat
    BY <1>0, FaultType DEF Publish
  <2>2. touched' \subseteq Tags
    BY <1>0, <1>1 DEF TypeOK
  <2> QED BY <1>0, <1>4, <2>1, <2>2 DEF TypeOK, DiskType, journal
<1>6. MetaCovered(Open)'
  <2>1. MetaCovered(Open)
    BY <1>0 DEF Covered
  <2>2. \A i \in Ids : plan.ma.ent[i] # vault.meta.ent[i] => \E o \in Open : i \in recs[o].plan.ids
    BY <1>1, <2>1 DEF MetaCovered, GoodPlan
  <2>3. plan.ma.cat # vault.meta.cat => \E o \in Open : SetsCatalog(recs[o].plan)
    BY <1>1, <2>1 DEF MetaCovered, SetsCatalog
  <2> QED BY <1>0, <1>2, <1>3, <2>1, <2>2, <2>3 DEF MetaCovered
<1>7. OnDisk'
  BY <1>0, <1>1, <1>2, <1>3, <1>6 DEF OnDisk, Records, Covered, SecretsCovered, Old, GoodPlan
<1>8. CASE meta' = plan.ma /\ Goto("verify", FALSE) /\ UNCHANGED local
  <2>1. pc' = "verify" /\ dlock' = FALSE /\ holder' = holder /\ phase' = phase
    BY <1>8 DEF Goto
  <2>2. LocalType'
    BY <1>0, <1>8, <2>1 DEF TypeOK, LocalType, Labels, local
  <2>3. Free'
    BY <1>0, <2>1 DEF Free
  <2>4. AtWork'
    BY <1>1, <1>2, <1>3, <1>8, <2>1 DEF AtWork, SameDocument, GoodPlan, Old, local
  <2>5. AtVerify'
    BY <1>1, <1>2, <1>8, <2>1 DEF AtVerify, Applied, local
  <2>6. Promises'
    BY <2>1, <2>4, <2>5 DEF Promises, AtRecord, AtApply, AtUndo, AtOuter, AtClose, AtArchive
  <2> QED BY <1>5, <1>7, <2>2, <2>3, <2>6, Assemble
<1>9. CASE mode = "transact" /\ Goto("outer", FALSE) /\ UNCHANGED local
  <2>1. pc' = "outer" /\ dlock' = FALSE /\ holder' = holder /\ phase' = phase
    BY <1>9 DEF Goto
  <2>2. LocalType'
    BY <1>0, <1>9, <2>1 DEF TypeOK, LocalType, Labels, local
  <2>3. Free'
    BY <1>0, <2>1 DEF Free
  <2>4. Others' = Others
    BY <1>3, <1>9 DEF Others, local
  <2>5. Revocable'
    BY <1>1, <1>2, <1>9, <2>4 DEF Revocable, SecretsCovered, Restored, Untouched, local
  <2>6. meta' = plan.mb => MetaCovered(Others)'
    BY <1>1, <1>2, <1>9, <2>4 DEF MetaCovered
  <2>7. AtOuter'
    BY <1>1, <1>2, <1>9, <2>1, <2>5, <2>6 DEF AtOuter, SameDocument, GoodPlan, Old, local
  <2>8. Promises'
    BY <2>1, <2>7 DEF Promises, AtRecord, AtWork, AtApply, AtUndo, AtVerify, AtClose, AtArchive,
       Working
  <2> QED BY <1>5, <1>7, <2>2, <2>3, <2>8, Assemble
<1>10. CASE Release("idle")
  BY <1>5, <1>7, <1>10, ReleaseInv DEF Phases
<1> QED BY <1>8, <1>9, <1>10 DEF Publish

-----------------------------------------------------------------------------
(* Compensation keeps the invariant *)

\* _restore_accounts puts accounts of the open operation back.
LEMMA StepRestoreAccount == ASSUME PipelineInv, RestoreAccount PROVE PipelineInv'
<1>0. TypeOK /\ AtWork /\ AtUndo /\ Free /\ pc \in {"undo", "outerundo"}
      /\ UNCHANGED <<meta, journal, lock, mode, goal, cur, plan, refs, tag, history>>
  BY DEF PipelineInv, RestoreAccount
<1>1. /\ cur \in Open /\ SameDocument(recs[cur].plan, plan) /\ GoodPlan(plan)
      /\ mode = "transact" /\ todo \subseteq plan.accs
      /\ Revocable /\ MetaCovered(Others)
  BY <1>0 DEF AtWork, AtUndo, Working
<1>2. PICK a \in todo :
        /\ todo' = todo \ {a}
        /\ \/ NoFault /\ accts' = [accts EXCEPT ![a] = plan.ab[a]] /\ UNCHANGED failed
           \/ Fault /\ accts' \in {accts, [accts EXCEPT ![a] = plan.ab[a]]} /\ failed' = TRUE
  BY DEF RestoreAccount
<1>3. a \in plan.accs /\ plan.accs \subseteq Accounts /\ plan.ab[a] \in 0..MaxTag
  BY <1>0, <1>1 DEF TypeOK, Plan, Secrets
<1>4. recs' = recs /\ vault' = vault /\ meta' = meta /\ tag' = tag
      /\ pc' = pc /\ dlock' = dlock /\ holder' = holder /\ phase' = phase
  BY <1>0 DEF journal, lock, history
<1>5. /\ OnDisk' /\ Open' = Open /\ accts' \in Secrets
      /\ \A x \in Accounts : x # a => accts'[x] = accts[x]
  BY <1>0, <1>1, <1>2, <1>3, <1>4, AccountWrite
<1>6. DiskType'
  <2>1. faults' \in Nat
    BY <1>0, <1>2, FaultType
  <2> QED BY <1>0, <1>5, <2>1 DEF TypeOK, DiskType, journal, history
<1>7. LocalType'
  <2>1. failed' \in BOOLEAN
    BY <1>0, <1>2 DEF TypeOK
  <2>2. todo' \subseteq Accounts
    BY <1>0, <1>2 DEF TypeOK
  <2> QED BY <1>0, <1>4, <2>1, <2>2 DEF TypeOK, LocalType
<1>8. Free'
  BY <1>0, <1>4 DEF Free
<1>9. AtWork'
  BY <1>0, <1>1, <1>4, <1>5 DEF AtWork, SameDocument, GoodPlan, Old, Working
<1>10. Others' = Others
  BY <1>0, <1>5 DEF Others
<1>11. (Revocable /\ MetaCovered(Others))'
  <2>1. \A x \in Untouched : accts'[x] = accts[x]
    BY <1>3, <1>5 DEF Untouched
  <2> QED
    BY <1>0, <1>1, <1>4, <1>10, <2>1
       DEF Revocable, SecretsCovered, MetaCovered, Restored, Untouched
<1>12. ~failed' => Restored(plan.accs \ todo)'
  <2> SUFFICES ASSUME ~failed' PROVE Restored(plan.accs \ todo)'
    OBVIOUS
  <2>1. accts' = [accts EXCEPT ![a] = plan.ab[a]] /\ ~failed
    BY <1>2
  <2>2. accts'[a] = plan.ab[a]
    BY <1>0, <1>3, <2>1 DEF TypeOK, Secrets
  <2>3. Restored(plan.accs \ todo)
    BY <1>0, <2>1 DEF AtUndo
  <2> QED BY <1>0, <1>2, <1>3, <1>5, <2>2, <2>3 DEF Restored
<1>13. AtUndo'
  BY <1>0, <1>1, <1>2, <1>4, <1>11, <1>12 DEF AtUndo
<1>14. Promises'
  BY <1>0, <1>4, <1>9, <1>13
     DEF Promises, AtRecord, AtApply, AtOuter, AtVerify, AtClose, AtArchive
<1> QED BY <1>5, <1>6, <1>7, <1>8, <1>14, Assemble

\* The holder moves on and the disk stays as it is.
LEMMA QuietType ==
  ASSUME PipelineInv, UNCHANGED <<disk, journal, tag, history>>, faults' \in Nat
  PROVE  DiskType' /\ OnDisk' /\ Open' = Open
<1>1. UNCHANGED <<disk, recs, pend, tag, vault>>
  BY DEF journal, history
<1> QED
  BY <1>1, DiskFrame DEF PipelineInv, TypeOK, DiskType, disk, journal, history

\* Only a complete rollback goes on to fail().
LEMMA StepRestoreDone == ASSUME PipelineInv, RestoreDone PROVE PipelineInv'
<1>0. TypeOK /\ AtWork /\ AtUndo /\ Free /\ pc \in {"undo", "outerundo"} /\ todo = {}
      /\ UNCHANGED <<disk, journal, tag, faults, history>>
  BY DEF PipelineInv, RestoreDone
<1>1. /\ cur \in Open /\ SameDocument(recs[cur].plan, plan) /\ GoodPlan(plan)
      /\ mode = "transact" /\ cur \in Tags
      /\ Revocable /\ MetaCovered(Others) /\ (dlock => meta = plan.mb)
      /\ ~failed => Restored(plan.accs)
  BY <1>0 DEF AtWork, AtUndo, Working, Open
<1>2. DiskType' /\ OnDisk' /\ Open' = Open
  BY <1>0, QuietType DEF TypeOK
<1>3. recs' = recs /\ vault' = vault /\ meta' = meta /\ tag' = tag /\ accts' = accts
  BY <1>0 DEF disk, journal, history
<1>4. ASSUME cur' = cur, plan' = plan
      PROVE  (Revocable /\ MetaCovered(Others) /\ GoodPlan(plan) /\ SameDocument(recs[cur].plan, plan))'
  BY <1>1, <1>2, <1>3, <1>4
     DEF Others, Revocable, SecretsCovered, MetaCovered, Restored, Untouched, GoodPlan, Old
<1>5. CASE /\ ~failed /\ goal' = "failed" /\ Goto("close", dlock)
           /\ UNCHANGED <<mode, cur, plan, todo, failed, refs>>
  <2>1. pc' = "close" /\ dlock' = dlock /\ holder' = holder /\ phase' = phase
    BY <1>5 DEF Goto
  <2>2. LocalType'
    BY <1>0, <1>5, <2>1 DEF TypeOK, LocalType, Labels
  <2>3. Free'
    BY <1>0, <2>1 DEF Free
  <2>4. AtWork'
    BY <1>1, <1>2, <1>4, <1>5, <2>1 DEF AtWork
  <2>5. AtClose'
    BY <1>1, <1>3, <1>4, <1>5, <2>1 DEF AtClose, Restored
  <2>6. Promises'
    BY <2>1, <2>4, <2>5 DEF Promises, AtRecord, AtApply, AtUndo, AtOuter, AtVerify, AtArchive
  <2> QED BY <1>2, <2>2, <2>3, <2>6, Assemble
<1>6. CASE Goto("outer", FALSE) /\ UNCHANGED local
  <2>1. pc' = "outer" /\ dlock' = FALSE /\ holder' = holder /\ phase' = phase
    BY <1>6 DEF Goto
  <2>2. LocalType'
    BY <1>0, <1>6, <2>1 DEF TypeOK, LocalType, Labels, local
  <2>3. Free'
    BY <1>0, <2>1 DEF Free
  <2>4. AtOuter'
    BY <1>1, <1>4, <1>6, <2>1 DEF AtOuter, local
  <2>5. Promises'
    BY <2>1, <2>4 DEF Promises, AtRecord, AtWork, AtApply, AtUndo, AtVerify, AtClose, AtArchive,
       Working
  <2> QED BY <1>2, <2>2, <2>3, <2>5, Assemble
<1>7. CASE Release("idle")
  BY <1>2, <1>7, ReleaseInv DEF Phases
<1> QED BY <1>5, <1>6, <1>7 DEF RestoreDone

\* The outer handler rolls back only under the old metadata.
LEMMA StepOuterHandler == ASSUME PipelineInv, OuterHandler PROVE PipelineInv'
<1>0. TypeOK /\ AtOuter /\ Free /\ pc = "outer"
      /\ UNCHANGED <<disk, journal, tag, faults, history>>
  BY DEF PipelineInv, OuterHandler
<1>1. DiskType' /\ OnDisk' /\ Open' = Open
  BY <1>0, QuietType DEF TypeOK
<1>2. recs' = recs /\ vault' = vault /\ meta' = meta /\ tag' = tag /\ accts' = accts
  BY <1>0 DEF disk, journal, history
<1>3. CASE cur \in Open /\ meta = plan.mb
  <2>1. /\ pc' = "outerundo" /\ dlock' = FALSE /\ holder' = holder /\ phase' = phase
        /\ todo' = plan.accs /\ failed' = FALSE /\ UNCHANGED <<mode, goal, cur, plan, refs>>
    BY <1>3 DEF OuterHandler, Goto
  <2>2. mode = "transact" /\ SameDocument(recs[cur].plan, plan) /\ GoodPlan(plan)
        /\ Revocable /\ MetaCovered(Others)
    BY <1>0, <1>3 DEF AtOuter
  <2>3. (Revocable /\ MetaCovered(Others) /\ GoodPlan(plan) /\ SameDocument(recs[cur].plan, plan))'
    BY <1>1, <1>2, <2>1, <2>2
       DEF Others, Revocable, SecretsCovered, MetaCovered, Restored, Untouched, GoodPlan, Old
  <2>4. LocalType'
    BY <1>0, <2>1 DEF TypeOK, LocalType, Labels, Plan
  <2>5. Free'
    BY <1>0, <2>1 DEF Free
  <2>6. AtWork'
    BY <1>1, <1>3, <2>1, <2>2, <2>3 DEF AtWork
  <2>7. AtUndo'
    BY <2>1, <2>2, <2>3 DEF AtUndo, Restored
  <2>8. Promises'
    BY <2>1, <2>6, <2>7 DEF Promises, AtRecord, AtApply, AtOuter, AtVerify, AtClose, AtArchive
  <2> QED BY <1>1, <2>4, <2>5, <2>8, Assemble
<1>4. CASE ~(cur \in Open /\ meta = plan.mb)
  BY <1>1, <1>4, ReleaseInv DEF OuterHandler, Phases
<1> QED BY <1>3, <1>4

-----------------------------------------------------------------------------
(* Closing keeps the invariant *)

\* _commit_record goes on only when the file is the after image.
LEMMA StepVerify == ASSUME PipelineInv, Verify PROVE PipelineInv'
<1>0. TypeOK /\ AtWork /\ AtVerify /\ Free /\ pc = "verify"
      /\ UNCHANGED <<disk, journal, tag, history>>
  BY DEF PipelineInv, Verify
<1>1. DiskType' /\ OnDisk' /\ Open' = Open
  <2>1. faults' \in Nat
    BY <1>0, FaultType DEF Verify
  <2> QED BY <1>0, <2>1, QuietType
<1>2. recs' = recs /\ vault' = vault /\ meta' = meta /\ tag' = tag /\ accts' = accts
  BY <1>0 DEF disk, journal, history
<1>3. CASE /\ meta = recs[cur].plan.ma /\ goal' = "completed" /\ Goto("close", TRUE)
           /\ UNCHANGED <<mode, cur, plan, todo, failed, refs>>
  <2>1. pc' = "close" /\ dlock' = TRUE /\ holder' = holder /\ phase' = phase
    BY <1>3 DEF Goto
  <2>2. LocalType'
    BY <1>0, <1>3, <2>1 DEF TypeOK, LocalType, Labels
  <2>3. Free'
    BY <1>0, <2>1 DEF Free
  <2>4. AtWork'
    BY <1>0, <1>1, <1>2, <1>3, <2>1 DEF AtWork, Working, SameDocument, GoodPlan, Old
  <2>5. AtClose'
    BY <1>0, <1>2, <1>3, <2>1 DEF AtVerify, AtClose, Applied
  <2>6. Promises'
    BY <2>1, <2>4, <2>5 DEF Promises, AtRecord, AtApply, AtUndo, AtOuter, AtVerify, AtArchive
  <2> QED BY <1>1, <2>2, <2>3, <2>6, Assemble
<1>4. CASE Release("idle")
  BY <1>1, <1>4, ReleaseInv DEF Phases
<1> QED BY <1>3, <1>4 DEF Verify

\* An error while closing leads to the outer handler or out of the lock; the
\* handler is promised nothing once the operation is no longer open.
LEMMA CloseErrorInv ==
  ASSUME PipelineInv, CloseError, DiskType', OnDisk', cur \in Tags, pc # "idle",
         cur \in Open' => /\ pc = "close" /\ Open' = Open
                          /\ UNCHANGED <<recs, vault, meta, accts, tag>>
  PROVE  PipelineInv'
<1>0. TypeOK /\ AtWork /\ AtClose /\ Free
  BY DEF PipelineInv
<1>1. CASE mode = "transact" /\ goal = "failed" /\ dlock
  <2>1. pc' = "outer" /\ dlock' = FALSE /\ holder' = holder /\ phase' = phase
        /\ UNCHANGED <<mode, goal, cur, plan, todo, failed, refs>>
    BY <1>1 DEF CloseError, Goto, local
  <2>2. LocalType'
    BY <1>0, <2>1 DEF TypeOK, LocalType, Labels
  <2>3. Free'
    BY <1>0, <2>1 DEF Free
  <2>4. ASSUME cur \in Open'
        PROVE  (SameDocument(recs[cur].plan, plan) /\ GoodPlan(plan) /\ Revocable
                /\ MetaCovered(Others))'
    <3>1. SameDocument(recs[cur].plan, plan) /\ GoodPlan(plan)
      BY <1>0, <2>4 DEF AtWork, Working
    <3>2. Revocable /\ MetaCovered(Others)
      BY <1>0, <1>1, <2>4 DEF AtClose
    <3>3. Others' = Others
      BY <2>1, <2>4 DEF Others
    <3> QED
      BY <2>1, <2>4, <3>1, <3>2, <3>3
         DEF Revocable, SecretsCovered, MetaCovered, Restored, Untouched, GoodPlan, Old
  <2>5. AtOuter'
    BY <1>1, <2>1, <2>4 DEF AtOuter
  <2>6. Promises'
    BY <2>1, <2>5 DEF Promises, AtRecord, AtWork, AtApply, AtUndo, AtVerify, AtClose, AtArchive,
       Working
  <2> QED BY <2>2, <2>3, <2>6, Assemble
<1>2. CASE ~(mode = "transact" /\ goal = "failed" /\ dlock)
  BY <1>2, ReleaseInv DEF CloseError, Phases
<1> QED BY <1>1, <1>2

\* The heart of the matter: the disk agrees with the decision.  A completed
\* operation adds its effect to the vault, a failed one has left no trace.
LEMMA StepCloseRecord == ASSUME PipelineInv, CloseRecord PROVE PipelineInv'
<1>0. TypeOK /\ AtWork /\ AtClose /\ Free /\ Records /\ Covered /\ Old(meta) /\ pc = "close"
      /\ UNCHANGED <<disk, pend, receipts, tag, touched, views>>
  BY DEF PipelineInv, CloseRecord
<1>1. /\ cur \in Open /\ SameDocument(recs[cur].plan, plan) /\ GoodPlan(plan) /\ cur \in Tags
      /\ goal \in {"completed", "failed"}
  BY <1>0 DEF AtWork, AtClose, Working, Open, TypeOK
<1>2. faults' \in Nat
  BY <1>0, FaultType DEF CloseRecord
<1>3. meta' = meta /\ accts' = accts /\ tag' = tag /\ pend' = pend
  BY <1>0 DEF disk
<1>4. CASE UNCHANGED <<recs, outcome, vault>> /\ CloseError
  <2>1. UNCHANGED <<disk, journal, tag, history>>
    BY <1>0, <1>4 DEF journal, history
  <2>2. DiskType' /\ OnDisk' /\ Open' = Open
    BY <1>2, <2>1, QuietType
  <2> QED BY <1>0, <1>1, <1>3, <1>4, <2>2, CloseErrorInv
<1>5. CASE /\ recs' = [recs EXCEPT ![cur].st = goal]
           /\ outcome' = [outcome EXCEPT ![cur] = goal]
           /\ vault' = IF goal = "completed" THEN Effect(recs[cur].plan, vault) ELSE vault
  <2>1. /\ recs' \in [Tags -> Record]
        /\ \A o \in Tags : recs'[o].plan = recs[o].plan /\ (o # cur => recs'[o] = recs[o])
        /\ recs'[cur].st = goal
    <3>1. recs \in [Tags -> Record] /\ recs[cur] \in Record
      BY <1>0, <1>1 DEF TypeOK
    <3>2. recs'[cur] = [recs[cur] EXCEPT !.st = goal] /\ \A o \in Tags : o # cur => recs'[o] = recs[o]
      BY <1>1, <1>5, <3>1
    <3>3. recs'[cur].plan = recs[cur].plan /\ recs'[cur].st = goal /\ recs'[cur] \in Record
      BY <1>1, <3>1, <3>2 DEF Record, Statuses
    <3>4. recs' \in [Tags -> Record]
      <4>1. DOMAIN recs' = Tags /\ recs' = [o \in Tags |-> recs'[o]]
        BY <1>5, <3>1
      <4> QED BY <3>1, <3>2, <3>3, <4>1
    <3> QED BY <3>2, <3>3, <3>4
  <2>2. Open' = Others
    BY <1>1, <2>1 DEF Open, Others
  <2>3. recs[cur].plan \in Plan /\ vault \in Vault
    BY <1>0, <1>1 DEF TypeOK, Record
  <2>4. DiskType'
    <3>1. vault' \in Vault
      BY <1>5, <2>3, EffectType
    <3>2. outcome' \in [Tags -> {"none", "completed", "failed"}]
      BY <1>0, <1>1, <1>5 DEF TypeOK
    <3> QED BY <1>0, <1>2, <2>1, <3>1, <3>2 DEF TypeOK, DiskType, disk
  <2>5. Records'
    <3>1. (Open \subseteq pend)'
      BY <1>0, <1>3, <2>2 DEF Records, Others
    <3>2. \A o \in Tags : o > tag' => recs'[o].st = "absent"
      <4>1. recs[cur].st # "absent"
        BY <1>1 DEF Open
      <4> QED BY <1>0, <1>1, <1>3, <2>1, <4>1 DEF Records
    <3>3. \A o \in Open' : GoodPlan(recs[o].plan)'
      BY <1>0, <1>3, <2>1, <2>2 DEF Records, GoodPlan, Old, Others, Open
    <3> QED BY <3>1, <3>2, <3>3 DEF Records
  <2>6. \A o \in Others : recs'[o].plan = recs[o].plan
    BY <2>1 DEF Others, Open
  <2>7. ASSUME goal = "completed" PROVE Covered'
    <3> DEFINE q == recs[cur].plan
    <3>1. Applied(plan.accs) /\ meta = plan.ma /\ plan = q
      BY <1>0, <2>7 DEF AtClose
    <3>2. vault' = Effect(q, vault)
      BY <1>5, <2>7
    <3>3. \A a \in Accounts : vault'.accts[a] = IF a \in q.accs THEN q.aa[a] ELSE vault.accts[a]
      BY <3>2 DEF Effect
    <3>4. /\ \A i \in Ids : vault'.meta.ent[i] = IF i \in q.ids THEN q.ma.ent[i] ELSE vault.meta.ent[i]
          /\ vault'.meta.cat = IF SetsCatalog(q) THEN q.ma.cat ELSE vault.meta.cat
      BY <3>2 DEF Effect
    <3>5. SecretsCovered(accts, Open)'
      <4> SUFFICES ASSUME NEW a \in Accounts, accts[a] # vault'.accts[a]
                   PROVE  \E o \in Others : a \in recs[o].plan.accs
        BY <1>3, <2>2, <2>6 DEF SecretsCovered
      <4>1. a \notin q.accs
        BY <3>1, <3>3 DEF Applied
      <4>2. PICK o \in Open : a \in recs[o].plan.accs
        BY <1>0, <3>3, <4>1 DEF Covered, SecretsCovered
      <4> QED BY <4>1, <4>2 DEF Others
    <3>6. MetaCovered(Open)'
      <4>1. ASSUME NEW i \in Ids, meta.ent[i] # vault'.meta.ent[i]
            PROVE  \E o \in Others : i \in recs[o].plan.ids
        <5>1. i \notin q.ids
          BY <3>1, <3>4, <4>1
        <5>2. PICK o \in Open : i \in recs[o].plan.ids
          BY <1>0, <3>4, <4>1, <5>1 DEF Covered, MetaCovered
        <5> QED BY <5>1, <5>2 DEF Others
      <4>2. ASSUME meta.cat # vault'.meta.cat
            PROVE  \E o \in Others : SetsCatalog(recs[o].plan)
        <5>1. ~SetsCatalog(q)
          BY <3>1, <3>4, <4>2
        <5>2. PICK o \in Open : SetsCatalog(recs[o].plan)
          BY <1>0, <3>4, <4>2, <5>1 DEF Covered, MetaCovered
        <5> QED BY <5>1, <5>2 DEF Others
      <4> QED BY <1>3, <2>2, <2>6, <4>1, <4>2 DEF MetaCovered
    <3> QED BY <3>5, <3>6 DEF Covered
  <2>8. ASSUME goal = "failed" PROVE Covered'
    <3>1. vault' = vault
      BY <1>5, <2>8
    <3>2. Revocable /\ Restored(plan.accs) /\ MetaCovered(Others)
      BY <1>0, <2>8 DEF AtClose
    <3>3. \A a \in Accounts : accts[a] = plan.ab[a]
      BY <3>2 DEF Revocable, Restored, Untouched
    <3>4. SecretsCovered(accts, Open)'
      BY <1>3, <2>2, <2>6, <3>1, <3>2, <3>3 DEF SecretsCovered, Revocable
    <3>5. MetaCovered(Open)'
      BY <1>3, <2>2, <2>6, <3>1, <3>2 DEF MetaCovered
    <3> QED BY <3>4, <3>5 DEF Covered
  <2>9. Covered'
    BY <1>1, <2>7, <2>8
  <2>10. OnDisk'
    BY <1>0, <1>3, <2>5, <2>9 DEF OnDisk, Old
  <2>11. CASE Goto("archive", dlock) /\ UNCHANGED local
    <3>1. pc' = "archive" /\ dlock' = dlock /\ holder' = holder /\ phase' = phase
      BY <2>11 DEF Goto
    <3>2. LocalType'
      BY <1>0, <2>11, <3>1 DEF TypeOK, LocalType, Labels, local
    <3>3. Free'
      BY <1>0, <3>1 DEF Free
    <3>4. AtArchive'
      BY <1>1, <2>2, <2>11 DEF AtArchive, Others, local
    <3>5. Promises'
      BY <3>1, <3>4 DEF Promises, AtRecord, AtWork, AtApply, AtUndo, AtOuter, AtVerify, AtClose,
         Working
    <3> QED BY <2>4, <2>10, <3>2, <3>3, <3>5, Assemble
  <2>12. CASE CloseError
    <3>1. cur \notin Open'
      BY <2>2 DEF Others
    <3> QED BY <1>0, <1>1, <2>4, <2>10, <2>12, <3>1, CloseErrorInv
  <2> QED BY <1>5, <2>11, <2>12 DEF CloseRecord
<1> QED BY <1>4, <1>5 DEF CloseRecord

\* Steps of the archive: the operation is closed, the disk only loses what
\* stood for it.
LEMMA ArchiveStep ==
  ASSUME PipelineInv, pc \in {"archive", "unmark", "unlink"},
         NEW l \in {"unmark", "unlink"}, Goto(l, dlock), UNCHANGED local, DiskType', OnDisk',
         Open' = Open
  PROVE  PipelineInv'
<1>0. TypeOK /\ AtArchive /\ Free
  BY DEF PipelineInv
<1>1. pc' = l /\ dlock' = dlock /\ holder' = holder /\ phase' = phase
  BY DEF Goto
<1>2. LocalType'
  BY <1>0, <1>1 DEF TypeOK, LocalType, Labels, local
<1>3. Free'
  BY <1>0, <1>1 DEF Free
<1>4. AtArchive'
  BY <1>0 DEF AtArchive, local
<1>5. Promises'
  BY <1>1, <1>4 DEF Promises, AtRecord, AtWork, AtApply, AtUndo, AtOuter, AtVerify, AtClose,
     Working
<1> QED BY <1>2, <1>3, <1>5, Assemble

\* The receipt is written for a closed operation.
LEMMA StepArchiveReceipt == ASSUME PipelineInv, ArchiveReceipt PROVE PipelineInv'
<1>0. TypeOK /\ AtArchive /\ pc = "archive" /\ UNCHANGED <<disk, pend, recs, tag, history>>
  BY DEF PipelineInv, ArchiveReceipt
<1>1. cur \in Tags /\ cur \notin Open /\ goal \in {"completed", "failed"}
  BY <1>0 DEF AtArchive, TypeOK
<1>2. receipts' \in Seq(Receipt)
  BY <1>0, <1>1, ArchivedType DEF ArchiveReceipt, TypeOK
<1>3. faults' \in Nat
  BY <1>0, FaultType DEF ArchiveReceipt
<1>4. DiskType'
  BY <1>0, <1>2, <1>3 DEF TypeOK, DiskType, disk, history
<1>5. OnDisk' /\ Open' = Open
  BY <1>0, DiskFrame DEF history
<1>6. CASE Goto("unmark", dlock) /\ UNCHANGED local
  BY <1>0, <1>4, <1>5, <1>6, ArchiveStep
<1>7. CASE CloseError
  BY <1>0, <1>1, <1>4, <1>5, <1>7, CloseErrorInv
<1> QED BY <1>6, <1>7 DEF ArchiveReceipt

\* The marker goes after the terminal record is written.
LEMMA StepRemoveMarker == ASSUME PipelineInv, RemoveMarker PROVE PipelineInv'
<1>0. TypeOK /\ AtArchive /\ Records /\ Covered /\ Old(meta) /\ pc = "unmark"
      /\ UNCHANGED <<disk, recs, receipts, tag, history>>
  BY DEF PipelineInv, RemoveMarker
<1>1. cur \in Tags /\ cur \notin Open
  BY <1>0 DEF AtArchive
<1>2. pend' \in {pend, pend \ {cur}} /\ faults' \in Nat
  BY <1>0, FaultType DEF RemoveMarker
<1>3. DiskType'
  BY <1>0, <1>2 DEF TypeOK, DiskType, disk, history
<1>4. Open' = Open
  BY <1>0 DEF Open
<1>5. OnDisk'
  BY <1>0, <1>1, <1>2, <1>4
     DEF OnDisk, Records, Covered, SecretsCovered, MetaCovered, Old, GoodPlan, disk, history
<1>6. CASE Goto("unlink", dlock) /\ UNCHANGED local
  BY <1>0, <1>3, <1>4, <1>5, <1>6, ArchiveStep
<1>7. CASE CloseError
  BY <1>0, <1>1, <1>3, <1>4, <1>5, <1>7, CloseErrorInv
<1> QED BY <1>6, <1>7 DEF RemoveMarker

\* Dropping records that are not open leaves the open ones as they are.
LEMMA RecordsDropped ==
  ASSUME PipelineInv, NEW gone, gone \cap Open = {},
         recs' = [o \in Tags |-> IF o \in gone THEN NoRecord ELSE recs[o]],
         UNCHANGED <<disk, pend, tag, vault>>
  PROVE  OnDisk' /\ Open' = Open /\ recs' \in [Tags -> Record]
<1>0. TypeOK /\ Records /\ Covered /\ Old(meta)
  BY DEF PipelineInv
<1>1. recs' \in [Tags -> Record]
  BY <1>0, Defaults DEF TypeOK
<1>2. NoRecord.st = "absent"
  BY DEF NoRecord
<1>3. Open' = Open
  BY <1>2 DEF Open
<1>4. \A o \in Open : recs'[o] = recs[o]
  BY DEF Open
<1>5. Records'
  <2>1. \A o \in Tags : o > tag' => recs'[o].st = "absent"
    BY <1>0, <1>2 DEF Records
  <2>2. Open' \subseteq pend'
    BY <1>0, <1>3 DEF Records
  <2>3. ASSUME NEW o \in Open PROVE GoodPlan(recs[o].plan)'
    <3>1. recs'[o].plan = recs[o].plan
      BY <1>4
    <3>2. GoodPlan(recs[o].plan)
      BY <1>0 DEF Records
    <3> QED BY <3>1, <3>2 DEF GoodPlan, Old
  <2> QED BY <1>3, <2>1, <2>2, <2>3 DEF Records
<1>6. Covered' /\ Old(meta)'
  BY <1>0, <1>3, <1>4 DEF Covered, SecretsCovered, MetaCovered, Old, disk
<1> QED BY <1>1, <1>3, <1>5, <1>6 DEF OnDisk

\* The holder is at scan, with nothing in hand.
LEMMA ScanInv ==
  ASSUME DiskType', OnDisk', LocalType', Free', pc' = "scan"
  PROVE  PipelineInv'
<1>1. Promises'
  BY DEF Promises, AtRecord, AtWork, AtApply, AtUndo, AtOuter, AtVerify, AtClose, AtArchive,
     Working
<1> QED BY <1>1, Assemble

\* The record goes last, and it is not open.
LEMMA StepUnlinkRecord == ASSUME PipelineInv, UnlinkRecord PROVE PipelineInv'
<1>0. TypeOK /\ AtArchive /\ Free /\ pc = "unlink"
      /\ UNCHANGED <<disk, pend, receipts, tag, history>>
  BY DEF PipelineInv, UnlinkRecord
<1>1. cur \in Tags /\ cur \notin Open
  BY <1>0 DEF AtArchive
<1>2. faults' \in Nat
  BY <1>0, FaultType DEF UnlinkRecord
<1>3. recs' \in {recs, [recs EXCEPT ![cur] = NoRecord]}
  BY DEF UnlinkRecord
<1>4. \E gone \in {{}, {cur}} : recs' = [o \in Tags |-> IF o \in gone THEN NoRecord ELSE recs[o]]
  <2>1. CASE recs' = recs
    <3>1. recs = [o \in Tags |-> IF o \in {} THEN NoRecord ELSE recs[o]]
      BY <1>0 DEF TypeOK
    <3> QED BY <2>1, <3>1
  <2>2. CASE recs' = [recs EXCEPT ![cur] = NoRecord]
    <3>1. recs' = [o \in Tags |-> IF o \in {cur} THEN NoRecord ELSE recs[o]]
      BY <1>0, <2>2 DEF TypeOK
    <3> QED BY <3>1
  <2> QED BY <1>3, <2>1, <2>2
<1>5. OnDisk' /\ Open' = Open /\ recs' \in [Tags -> Record]
  BY <1>0, <1>1, <1>4, RecordsDropped DEF history
<1>6. DiskType'
  BY <1>0, <1>2, <1>5 DEF TypeOK, DiskType, disk, history
<1>7. CASE Release("idle")
  BY <1>5, <1>6, <1>7, ReleaseInv DEF Phases
<1>8. CASE /\ Goto("scan", FALSE) /\ refs' = refs \ {cur}
           /\ mode' = "none" /\ goal' = "none" /\ cur' = 0 /\ plan' = NoPlan
           /\ UNCHANGED <<todo, failed>>
  <2>1. pc' = "scan" /\ dlock' = FALSE /\ holder' = holder /\ phase' = phase
    BY <1>8 DEF Goto
  <2>2. LocalType'
    <3>1. plan' \in Plan /\ cur' \in 0..MaxTag /\ goal' = "none"
      BY <1>8, Defaults, VaultAssumption
    <3>2. mode' \in Modes /\ pc' \in Labels
      BY <1>8, <2>1 DEF Labels, Modes
    <3>3. refs' \subseteq Tags /\ todo' \subseteq Accounts /\ failed' \in BOOLEAN
          /\ phase' \in [Procs -> Phases] /\ holder' \in Procs \cup {NoProc}
      BY <1>0, <1>8, <2>1 DEF TypeOK
    <3> QED BY <2>1, <3>1, <3>2, <3>3 DEF LocalType
  <2>3. Free'
    BY <1>0, <2>1 DEF Free
  <2> QED BY <1>5, <1>6, <2>1, <2>2, <2>3, ScanInv
<1>9. CASE CloseError
  BY <1>0, <1>1, <1>5, <1>6, <1>9, CloseErrorInv
<1> QED BY <1>7, <1>8, <1>9 DEF UnlinkRecord

-----------------------------------------------------------------------------
(* Recovery keeps the invariant *)

\* The oldest pending reference is one of them.
LEMMA NextRefIn == ASSUME refs \subseteq Tags, refs # {} PROVE NextRef \in refs
<1> DEFINE R == {s \in Nat \X Nat : s[1] < s[2]}
<1>1. IsWellFoundedOn(R, Nat)
  BY NatLessThanWellFounded DEF OpToRel
<1>2. refs \subseteq Nat
  BY VaultAssumption DEF Tags
<1>3. PICK x \in refs : \A y \in refs : ~(<<y, x>> \in R)
  <2> HIDE DEF R
  <2> QED BY <1>1, <1>2, WFMin
<1>4. \A y \in refs : x <= y
  <2> TAKE y \in refs
  <2>1. x \in Nat /\ y \in Nat
    BY <1>2
  <2>2. ~(y < x)
    BY <1>3, <2>1
  <2> QED BY <2>1, <2>2
<1> QED BY <1>4 DEF NextRef

\* recover() starts from the index as it is.
LEMMA StepRecover == ASSUME PipelineInv, NEW p \in Procs, Recover(p) PROVE PipelineInv'
<1>0. TypeOK /\ Free /\ holder' = p /\ pc' = "scan" /\ refs' = pend
      /\ UNCHANGED <<dlock, phase, mode, goal, cur, plan, todo, failed>>
      /\ UNCHANGED <<disk, journal, tag, faults, history>>
  BY DEF PipelineInv, Recover
<1>1. DiskType' /\ OnDisk'
  BY <1>0, QuietType DEF TypeOK
<1>2. LocalType'
  BY <1>0 DEF TypeOK, LocalType, Labels
<1>3. Free'
  BY <1>0, JournalAssumption DEF Free
<1> QED BY <1>0, <1>1, <1>2, <1>3, ScanInv

\* A marker without a record has written nothing.
LEMMA StepScanMissing == ASSUME PipelineInv, ScanMissing PROVE PipelineInv'
<1>0. TypeOK /\ Free /\ Records /\ Covered /\ Old(meta) /\ pc = "scan" /\ refs # {}
      /\ recs[NextRef].st = "absent" /\ UNCHANGED <<disk, recs, receipts, tag, faults, history>>
  BY DEF PipelineInv, ScanMissing
<1>1. NextRef \in Tags /\ NextRef \notin Open
  BY <1>0, NextRefIn DEF TypeOK, Open
<1>2. pend' \in {pend, pend \ {NextRef}}
  BY DEF ScanMissing
<1>3. DiskType'
  BY <1>0, <1>2 DEF TypeOK, DiskType, disk, history
<1>4. Open' = Open
  BY <1>0 DEF Open
<1>5. OnDisk'
  BY <1>0, <1>1, <1>2, <1>4
     DEF OnDisk, Records, Covered, SecretsCovered, MetaCovered, Old, GoodPlan, disk, history
<1>6. CASE Release("idle")
  BY <1>3, <1>5, <1>6, ReleaseInv DEF Phases
<1>7. CASE refs' = refs \ {NextRef} /\ UNCHANGED <<lock, mode, goal, cur, plan, todo, failed>>
  <2>1. pc' = pc /\ dlock' = dlock /\ holder' = holder /\ phase' = phase
    BY <1>7 DEF lock
  <2>2. LocalType'
    BY <1>0, <1>7, <2>1 DEF TypeOK, LocalType
  <2>3. Free'
    BY <1>0, <2>1 DEF Free
  <2> QED BY <1>0, <1>3, <1>5, <2>1, <2>2, <2>3, ScanInv
<1> QED BY <1>6, <1>7 DEF ScanMissing

\* A terminal record is archived with its own status.
LEMMA StepScanFinished == ASSUME PipelineInv, ScanFinished PROVE PipelineInv'
<1>0. TypeOK /\ Free /\ pc = "scan" /\ refs # {} /\ Finished(NextRef)
      /\ mode' = "archive" /\ goal' = recs[NextRef].st
      /\ cur' = NextRef /\ plan' = recs[NextRef].plan /\ Goto("archive", FALSE)
      /\ UNCHANGED <<todo, failed, refs, disk, journal, tag, faults, history>>
  BY DEF PipelineInv, ScanFinished
<1>1. NextRef \in Tags /\ recs[NextRef].st \in {"completed", "failed"}
  BY <1>0, NextRefIn DEF TypeOK, Finished
<1>2. NextRef \notin Open /\ recs[NextRef].plan \in Plan /\ NextRef \in 0..MaxTag
  BY <1>0, <1>1 DEF Open, TypeOK, Record, Tags
<1>3. DiskType' /\ OnDisk' /\ Open' = Open
  BY <1>0, QuietType DEF TypeOK
<1>4. pc' = "archive" /\ dlock' = FALSE /\ holder' = holder /\ phase' = phase
  BY <1>0 DEF Goto
<1>5. LocalType'
  <2>1. mode' \in Modes /\ pc' \in Labels
    BY <1>0, <1>4 DEF Labels, Modes
  <2> QED BY <1>0, <1>1, <1>2, <1>4, <2>1 DEF TypeOK, LocalType
<1>6. Free'
  BY <1>0, <1>4 DEF Free
<1>7. AtArchive'
  BY <1>0, <1>1, <1>2, <1>3 DEF AtArchive
<1>8. Promises'
  BY <1>4, <1>7 DEF Promises, AtRecord, AtWork, AtApply, AtUndo, AtOuter, AtVerify, AtClose,
     Working
<1> QED BY <1>3, <1>5, <1>6, <1>8, Assemble

\* A document prepared anew for a replay differs in its tombstones only.
LEMMA RestampSame ==
  ASSUME NEW q \in Plan, NEW s \in Stamps, GoodPlan(q)
  PROVE  Restamp(q, s) \in Plan /\ SameDocument(q, Restamp(q, s)) /\ GoodPlan(Restamp(q, s))
<1> DEFINE r == Restamp(q, s)
           ent == [i \in Ids |-> IF i \in q.ids /\ ~q.ma.ent[i].live THEN Tombstone(s)
                                                                     ELSE q.ma.ent[i]]
<1>1. CASE q.kind # "delete"
  BY <1>1 DEF Restamp, SameDocument
<1>2. CASE q.kind = "delete"
  <2>0. q.ma \in Meta /\ Tombstone(s) \in Image /\ ~Tombstone(s).live
    BY JournalAssumption, VaultAssumption DEF Plan, Tombstone, Image, Tags
  <2>1. ent \in [Ids -> Image]
    BY <2>0 DEF Meta
  <2>2. r = [q EXCEPT !.ma = [q.ma EXCEPT !.ent = ent]]
    BY <1>2 DEF Restamp
  <2>3. [q.ma EXCEPT !.ent = ent] = [ent |-> ent, cat |-> q.ma.cat]
    BY <2>0 DEF Meta
  <2>4. r = [kind |-> q.kind, ids |-> q.ids, accs |-> q.accs, mb |-> q.mb,
             ma |-> [ent |-> ent, cat |-> q.ma.cat], ab |-> q.ab, aa |-> q.aa]
    <3> HIDE DEF ent, r
    <3> QED BY <2>2, <2>3 DEF Plan
  <2>5. [ent |-> ent, cat |-> q.ma.cat] \in Meta
    BY <2>0, <2>1 DEF Meta
  <2>6. r \in Plan
    <3> HIDE DEF ent, r
    <3> QED BY <2>4, <2>5 DEF Plan
  <2>7. SameDocument(q, r)
    <3> HIDE DEF ent, r
    <3> QED BY <2>4 DEF SameDocument
  <2>8. \A i \in Ids : /\ i \notin q.ids => ent[i] = q.ma.ent[i]
                       /\ ent[i].live => ent[i] = q.ma.ent[i]
    BY <2>0
  <2>9. GoodPlan(r)
    <3> HIDE DEF ent, r
    <3> QED BY <2>4, <2>8 DEF GoodPlan, Old
  <2> QED BY <2>6, <2>7, <2>9
<1> QED BY <1>1, <1>2

\* _recover_record resumes a record from the before or the after image.
LEMMA StepScanOpen == ASSUME PipelineInv, ScanOpen PROVE PipelineInv'
<1> DEFINE q == recs[NextRef].plan
<1>0. TypeOK /\ Free /\ Records /\ pc = "scan" /\ refs # {} /\ NextRef \in Open
      /\ UNCHANGED <<disk, journal, tag, faults, history>>
  BY DEF PipelineInv, ScanOpen
<1>1. q \in Plan /\ GoodPlan(q) /\ NextRef \in Tags /\ NextRef \in 0..MaxTag
  BY <1>0 DEF Open, TypeOK, Record, Tags, Records
<1>2. DiskType' /\ OnDisk' /\ Open' = Open
  BY <1>0, QuietType DEF TypeOK
<1>3. recs' = recs /\ vault' = vault /\ meta' = meta /\ tag' = tag /\ accts' = accts
  BY <1>0 DEF disk, journal, history
<1>4. CASE Release("idle")
  BY <1>2, <1>4, ReleaseInv DEF Phases
<1>5. ASSUME NEW m \in {"confirm", "forward"}, NEW doc \in Plan,
             mode' = m, plan' = doc, cur' = NextRef, todo' = doc.accs, Goto("apply", TRUE),
             UNCHANGED <<goal, failed, refs>>,
             SameDocument(q, doc), GoodPlan(doc), m = "confirm" => doc = q,
             m = "forward" => meta = q.mb
      PROVE  PipelineInv'
  <2>1. pc' = "apply" /\ dlock' = TRUE /\ holder' = holder /\ phase' = phase
    BY <1>5 DEF Goto
  <2>2. LocalType'
    <3>1. mode' \in Modes /\ pc' \in Labels
      BY <1>5, <2>1 DEF Labels, Modes
    <3>2. todo' \subseteq Accounts
      BY <1>5 DEF Plan
    <3> QED BY <1>0, <1>1, <1>5, <2>1, <3>1, <3>2 DEF TypeOK, LocalType
  <2>3. Free'
    BY <1>0, <2>1 DEF Free
  <2>4. AtWork'
    BY <1>0, <1>2, <1>3, <1>5, <2>1 DEF AtWork, SameDocument, GoodPlan, Old
  <2>5. AtApply'
    BY <1>3, <1>5, <2>1 DEF AtApply, Applied, SameDocument
  <2>6. Promises'
    BY <2>1, <2>4, <2>5 DEF Promises, AtRecord, AtUndo, AtOuter, AtVerify, AtClose, AtArchive
  <2> QED BY <1>2, <2>2, <2>3, <2>6, Assemble
<1>6. CASE /\ mode' = "confirm" /\ plan' = q /\ cur' = NextRef /\ todo' = q.accs
           /\ Goto("apply", TRUE) /\ UNCHANGED <<goal, failed, refs>>
  <2>1. SameDocument(q, q)
    BY DEF SameDocument
  <2> QED BY <1>1, <1>5, <1>6, <2>1
<1>7. CASE meta = q.mb /\ \E s \in Stamps :
             /\ mode' = "forward" /\ plan' = Restamp(q, s) /\ cur' = NextRef
             /\ todo' = Restamp(q, s).accs
             /\ Goto("apply", TRUE) /\ UNCHANGED <<goal, failed, refs>>
  <2>1. PICK s \in Stamps :
             /\ mode' = "forward" /\ plan' = Restamp(q, s) /\ cur' = NextRef
             /\ todo' = Restamp(q, s).accs
             /\ Goto("apply", TRUE) /\ UNCHANGED <<goal, failed, refs>>
    BY <1>7
  <2>2. Restamp(q, s) \in Plan /\ SameDocument(q, Restamp(q, s)) /\ GoodPlan(Restamp(q, s))
    BY <1>1, RestampSame
  <2> QED BY <1>5, <1>7, <2>1, <2>2
<1> QED BY <1>4, <1>6, <1>7 DEF ScanOpen

\* list_unfinished removes terminal records only.
LEMMA StepCompact == ASSUME PipelineInv, Compact PROVE PipelineInv'
<1>0. TypeOK /\ pc = "scan" /\ UNCHANGED <<disk, pend, tag, history>>
  BY DEF PipelineInv, Compact
<1>1. faults' \in Nat
  BY <1>0, FaultType DEF Compact
<1>2. receipts' \in Seq(Receipt)
  <2>1. receipts' = receipts \/ receipts' \in Merged({o \in Tags : Finished(o)})
    BY DEF Compact
  <2> QED BY <1>0, <2>1, MergedType DEF TypeOK
<1>3. \E gone : /\ gone \cap Open = {}
                /\ recs' = [o \in Tags |-> IF o \in gone THEN NoRecord ELSE recs[o]]
  <2>1. ASSUME NEW g \in SUBSET {o \in Tags : Finished(o)} PROVE g \cap Open = {}
    BY DEF Finished, Open
  <2>2. CASE recs' = recs
    <3>1. recs' = [o \in Tags |-> IF o \in {} THEN NoRecord ELSE recs[o]]
      BY <1>0, <2>2 DEF TypeOK
    <3>2. {} \cap Open = {}
      OBVIOUS
    <3> QED BY <3>1, <3>2, Zenon
  <2>3. CASE \E g \in SUBSET {o \in Tags : Finished(o)} :
               recs' = [o \in Tags |-> IF o \in g THEN NoRecord ELSE recs[o]]
    BY <2>1, <2>3
  <2> QED BY <2>2, <2>3 DEF Compact
<1>4. OnDisk' /\ recs' \in [Tags -> Record]
  BY <1>0, <1>3, RecordsDropped DEF history
<1>5. DiskType'
  BY <1>0, <1>1, <1>2, <1>4 DEF TypeOK, DiskType, disk, history
<1>6. \E ph \in {"idle", "recovered"} : Release(ph)
  BY DEF Compact
<1> QED BY <1>4, <1>5, <1>6, ReleaseInv DEF Phases

-----------------------------------------------------------------------------
(* Steps beside the pipeline *)

\* A step that leaves the pipeline alone.
LEMMA Bystander ==
  ASSUME PipelineInv, UNCHANGED <<holder, dlock, pc, disk, journal, local, tag, vault>>,
         phase' \in [Procs -> Phases], faults' \in Nat, views' \in [Procs -> Vault],
         UNCHANGED <<outcome, touched>>
  PROVE  PipelineInv'
<1>0. TypeOK /\ Free /\ Promises
  BY DEF PipelineInv, Promises
<1>1. /\ meta' = meta /\ accts' = accts /\ recs' = recs /\ pend' = pend /\ receipts' = receipts
      /\ mode' = mode /\ goal' = goal /\ cur' = cur /\ plan' = plan /\ todo' = todo
      /\ failed' = failed /\ refs' = refs
  BY DEF disk, journal, local
<1>2. OnDisk' /\ Open' = Open
  BY <1>1, DiskFrame DEF disk
<1>3. DiskType'
  BY <1>0, <1>1 DEF TypeOK, DiskType
<1>4. LocalType'
  BY <1>0, <1>1 DEF TypeOK, LocalType
<1>5. Free'
  BY <1>0 DEF Free
<1>6. Others' = Others /\ Untouched' = Untouched
  BY <1>1, <1>2 DEF Others, Untouched
<1>7. (Revocable' <=> Revocable) /\ (MetaCovered(Others)' <=> MetaCovered(Others))
      /\ (GoodPlan(plan)' <=> GoodPlan(plan))
  BY <1>1, <1>6 DEF Revocable, SecretsCovered, MetaCovered, Restored, Old, GoodPlan
<1>8. AtRecord' /\ AtWork' /\ AtVerify' /\ AtArchive'
  BY <1>0, <1>1, <1>2, <1>7 DEF Promises, AtRecord, AtWork, AtVerify, AtArchive, Applied
<1>9. AtApply' /\ AtUndo'
  BY <1>0, <1>1, <1>2, <1>7 DEF Promises, AtApply, AtUndo, Applied, Restored
<1>10. AtOuter' /\ AtClose'
  BY <1>0, <1>1, <1>2, <1>7 DEF Promises, AtOuter, AtClose, Applied, Restored
<1> QED BY <1>2, <1>3, <1>4, <1>5, <1>8, <1>9, <1>10, Assemble DEF Promises

\* Refusals, readiness checks and projections leave the pipeline alone.
LEMMA StepBystander ==
  ASSUME PipelineInv, NEW p \in Procs, Refuse(p) \/ AssertReady(p) \/ Project(p)
  PROVE  PipelineInv'
<1>0. TypeOK
  BY DEF PipelineInv
<1>1. CASE Refuse(p) \/ AssertReady(p)
  <2>1. phase' \in [Procs -> Phases]
    BY <1>0, <1>1 DEF TypeOK, Refuse, AssertReady, Phases
  <2>2. UNCHANGED <<holder, dlock, pc, disk, journal, local, tag, faults, history>>
    BY <1>1 DEF Refuse, AssertReady
  <2>3. faults' \in Nat /\ views' \in [Procs -> Vault] /\ UNCHANGED <<vault, outcome, touched>>
    BY <1>0, <2>2 DEF TypeOK, history
  <2> QED BY <2>1, <2>2, <2>3, Bystander
<1>2. CASE Project(p)
  <2>1. [meta |-> meta, accts |-> accts] \in Vault
    BY <1>0 DEF TypeOK, Vault
  <2>2. views' \in [Procs -> Vault]
    BY <1>0, <1>2, <2>1 DEF TypeOK, Project
  <2>3. UNCHANGED <<disk, journal, local, lock, tag, faults, vault, outcome, touched>>
    BY <1>2 DEF Project
  <2>4. phase' \in [Procs -> Phases] /\ faults' \in Nat /\ UNCHANGED <<holder, dlock, pc>>
    BY <1>0, <2>3 DEF TypeOK, lock
  <2> QED BY <2>2, <2>3, <2>4, Bystander
<1> QED BY <1>1, <1>2

\* A catalog edit happens while no process has the metadata lock.  It makes
\* the file unlike every before image, and keeps what is covered covered.
LEMMA StepEditCatalog == ASSUME PipelineInv, EditCatalog PROVE PipelineInv'
<1> DEFINE t == tag + 1
<1>0. TypeOK /\ Free /\ Records /\ Covered /\ Old(meta) /\ Promises
      /\ ~dlock /\ tag < MaxTag /\ tag' = t
      /\ UNCHANGED <<accts, journal, local, lock, faults, outcome, touched, views>>
  BY DEF PipelineInv, EditCatalog, Promises
<1>1. /\ recs' = recs /\ pend' = pend /\ receipts' = receipts
      /\ mode' = mode /\ goal' = goal /\ cur' = cur /\ plan' = plan /\ todo' = todo
      /\ failed' = failed /\ refs' = refs
      /\ holder' = holder /\ dlock' = dlock /\ pc' = pc /\ phase' = phase
  BY <1>0 DEF journal, local, lock
<1>2. tag \in Nat /\ tag' \in 0..MaxTag /\ tag <= tag' /\ t \in 0..MaxTag /\ t \in Tags
  BY <1>0, VaultAssumption DEF TypeOK, Tags
<1>3. /\ meta \in Meta /\ vault \in Vault /\ vault.meta \in Meta
      /\ LiveImage(t) \in Image /\ LiveImage(t).live /\ LiveImage(t).tag = t
  BY <1>0, <1>2 DEF TypeOK, Vault, LiveImage, Image
<1>4. /\ meta' \in Meta /\ vault' \in Vault /\ vault'.accts = vault.accts
      /\ \A i \in Ids : meta'.ent[i] = meta.ent[i] \/ meta'.ent[i] = LiveImage(t)
      /\ meta'.cat = meta.cat \/ meta'.cat = t
      /\ meta'.cat = t \/ \E i \in Ids : meta'.ent[i] = LiveImage(t)
      /\ \A i \in Ids : meta'.ent[i] # vault'.meta.ent[i] => meta.ent[i] # vault.meta.ent[i]
      /\ meta'.cat # vault'.meta.cat => meta.cat # vault.meta.cat
  <2>1. PICK moved \in SUBSET Live(meta), new \in BOOLEAN :
             /\ new \/ moved # {}
             /\ meta' = Edited(meta, moved, IF new THEN t ELSE meta.cat)
             /\ vault' = [vault EXCEPT !.meta =
                            Edited(@, moved \cap Live(@), IF new THEN t ELSE @.cat)]
    BY DEF EditCatalog
  <2> DEFINE kept == moved \cap Live(vault.meta)
             c == IF new THEN t ELSE meta.cat
             vc == IF new THEN t ELSE vault.meta.cat
  <2>2. vault' = [meta |-> Edited(vault.meta, kept, vc), accts |-> vault.accts]
    BY <1>3, <2>1 DEF Vault
  <2>3. c \in 0..MaxTag /\ vc \in 0..MaxTag
    BY <1>2, <1>3 DEF Meta
  <2>4. ASSUME NEW m \in Meta, NEW S \in SUBSET Ids, NEW k \in 0..MaxTag
        PROVE  Edited(m, S, k) \in Meta
    BY <1>3 DEF Edited, Meta
  <2>5. moved \subseteq Ids /\ kept \subseteq Ids
    BY DEF Live
  <2>6. meta' \in Meta /\ vault' \in Vault
    BY <1>3, <2>1, <2>2, <2>3, <2>4, <2>5 DEF Vault
  <2>7. /\ \A i \in Ids : meta'.ent[i] = IF i \in moved THEN LiveImage(t) ELSE meta.ent[i]
        /\ \A i \in Ids : vault'.meta.ent[i] = IF i \in kept THEN LiveImage(t)
                                                             ELSE vault.meta.ent[i]
        /\ meta'.cat = c /\ vault'.meta.cat = vc
    BY <2>1, <2>2 DEF Edited
  <2>8. \A i \in moved : i \in Ids /\ (i \notin kept => meta.ent[i] # vault.meta.ent[i])
    BY DEF Live
  <2>9. meta'.cat = t \/ \E i \in Ids : meta'.ent[i] = LiveImage(t)
    <3>1. CASE new
      BY <2>7, <3>1
    <3>2. CASE ~new
      <4>1. PICK i \in moved : TRUE
        BY <2>1, <3>2
      <4> QED BY <2>7, <2>8, <4>1
    <3> QED BY <3>1, <3>2
  <2>10. \A i \in Ids : meta'.ent[i] # vault'.meta.ent[i] => meta.ent[i] # vault.meta.ent[i]
    <3> SUFFICES ASSUME NEW i \in Ids, meta'.ent[i] # vault'.meta.ent[i]
                 PROVE  meta.ent[i] # vault.meta.ent[i]
      OBVIOUS
    <3> HIDE DEF kept
    <3>1. CASE i \in moved
      BY <2>7, <2>8, <3>1
    <3>2. CASE i \notin moved
      <4>1. i \notin kept
        BY <3>2 DEF kept
      <4> QED BY <2>7, <3>2, <4>1
    <3> QED BY <3>1, <3>2
  <2>11. vault'.accts = vault.accts
    BY <2>2
  <2>12. \A i \in Ids : meta'.ent[i] = meta.ent[i] \/ meta'.ent[i] = LiveImage(t)
    BY <2>7
  <2> QED BY <2>6, <2>7, <2>9, <2>10, <2>11, <2>12
<1>5. DiskType'
  BY <1>0, <1>1, <1>2, <1>4 DEF TypeOK, DiskType
<1>6. LocalType'
  BY <1>0, <1>1 DEF TypeOK, LocalType
<1>7. Free'
  BY <1>0, <1>1 DEF Free
<1>8. Open' = Open /\ Others' = Others /\ Untouched' = Untouched
  BY <1>1 DEF Open, Others, Untouched
<1>9. \A q \in Plan : GoodPlan(q) => /\ meta' # q.mb
                                     /\ \A i \in Ids : i \notin q.ids => q.ma.ent[i] = q.mb.ent[i]
                                     /\ q.mb.cat <= tag' /\ q.ma.cat <= tag'
                                     /\ \A i \in Ids : q.mb.ent[i].live => q.mb.ent[i].tag <= tag'
                                     /\ \A i \in Ids : q.ma.ent[i].live => q.ma.ent[i].tag <= tag'
  <2> SUFFICES ASSUME NEW q \in Plan, GoodPlan(q) PROVE meta' # q.mb
    BY <1>0, <1>2, StillGood
  <2>1. q.mb \in Meta /\ q.mb.cat \in Int /\ \A i \in Ids : q.mb.ent[i].tag \in Int
    BY DEF Plan, Meta, Image
  <2>2. q.mb.cat # t /\ \A i \in Ids : q.mb.ent[i] # LiveImage(t)
    BY <1>2, <1>3, <2>1 DEF GoodPlan, Old
  <2> QED BY <1>4, <2>2
<1>10. \A S : MetaCovered(S) => MetaCovered(S)'
  BY <1>1, <1>4 DEF MetaCovered
<1>11. Records'
  <2>1. \A o \in Tags : o > tag' => recs'[o].st = "absent"
    BY <1>0, <1>1, <1>2 DEF Records, Tags
  <2>2. ASSUME NEW o \in Open PROVE GoodPlan(recs[o].plan)'
    <3>1. recs[o].plan \in Plan /\ GoodPlan(recs[o].plan)
      BY <1>0 DEF TypeOK, Record, Open, Records
    <3> QED BY <1>1, <1>9, <3>1 DEF GoodPlan, Old
  <2> QED BY <1>0, <1>1, <1>8, <2>1, <2>2 DEF Records
<1>12. Old(meta)'
  <2>1. meta.cat \in Int /\ \A i \in Ids : meta.ent[i].tag \in Int
    BY <1>3 DEF Meta, Image
  <2> QED BY <1>0, <1>2, <1>3, <1>4, <2>1 DEF Old
<1>13. Covered'
  <2>1. MetaCovered(Open)'
    BY <1>0, <1>8, <1>10 DEF Covered, MetaCovered
  <2>2. SecretsCovered(accts, Open)'
    BY <1>0, <1>1, <1>4, <1>8 DEF Covered, SecretsCovered
  <2> QED BY <2>1, <2>2 DEF Covered
<1>14. OnDisk'
  BY <1>11, <1>12, <1>13 DEF OnDisk
<1>15. plan \in Plan
  BY <1>0 DEF TypeOK
<1>16. GoodPlan(plan) => GoodPlan(plan)' /\ meta' # plan.mb
  BY <1>1, <1>9, <1>15 DEF GoodPlan, Old
<1>17. Revocable => Revocable'
  BY <1>0, <1>1, <1>4, <1>8 DEF Revocable, SecretsCovered, Restored
<1>18. MetaCovered(Others) => MetaCovered(Others)'
  BY <1>8, <1>10 DEF MetaCovered
<1>19. AtRecord' /\ AtApply'
  BY <1>0, <1>1 DEF Promises, AtRecord, AtApply
<1>20. AtWork' /\ AtVerify' /\ AtArchive'
  BY <1>0, <1>1, <1>8, <1>16 DEF Promises, AtWork, AtVerify, AtArchive, Applied
<1>21. AtUndo'
  BY <1>0, <1>1, <1>17, <1>18 DEF Promises, AtUndo, Restored
<1>22. AtOuter'
  BY <1>0, <1>1, <1>8, <1>16, <1>17 DEF Promises, AtOuter
<1>23. AtClose'
  BY <1>0, <1>1, <1>17, <1>18 DEF Promises, AtClose, Restored
<1> QED BY <1>5, <1>6, <1>7, <1>14, <1>19, <1>20, <1>21, <1>22, <1>23, Assemble DEF Promises

\* Every step of the system preserves the inductive invariant.
LEMMA PipelineStep == PipelineInv /\ [Next]_vars => PipelineInv'
<1> SUFFICES ASSUME PipelineInv, [Next]_vars PROVE PipelineInv'
  OBVIOUS
<1>1. CASE Step
  BY <1>1, StepWriteRecord, StepApplyAccount, StepStageApplied, StepPublish, StepRestoreAccount,
     StepRestoreDone, StepOuterHandler, StepVerify, StepCloseRecord, StepArchiveReceipt,
     StepRemoveMarker, StepUnlinkRecord, StepScanMissing, StepScanFinished, StepScanOpen,
     StepCompact DEF Step
<1>2. CASE Crash
  BY <1>2, StepCrash
<1>3. CASE EditCatalog
  BY <1>3, StepEditCatalog
<1>4. CASE \E p \in Procs : Mutate(p)
  BY <1>4, MutationIsTransact, StepTransact DEF PipelineInv
<1>5. CASE \E p \in Procs : Refuse(p) \/ Recover(p) \/ AssertReady(p) \/ Project(p)
  BY <1>5, StepRecover, StepBystander
<1>6. CASE UNCHANGED vars
  <2>1. UNCHANGED <<holder, dlock, pc, disk, journal, local, tag, vault>>
        /\ UNCHANGED <<phase, faults, views, outcome, touched>>
    BY <1>6 DEF vars, lock, history
  <2>2. phase \in [Procs -> Phases] /\ faults \in Nat /\ views \in [Procs -> Vault]
    BY DEF PipelineInv, TypeOK
  <2> QED BY <2>1, <2>2, Bystander
<1> QED BY <1>1, <1>2, <1>3, <1>4, <1>5, <1>6 DEF Next

-----------------------------------------------------------------------------
(* Theorems *)

\* The inductive invariant holds in every reachable state.
THEOREM PipelineInvariant == Spec => []PipelineInv
<1>1. Init => PipelineInv
  BY PipelineInit
<1>2. PipelineInv /\ [Next]_vars => PipelineInv'
  BY PipelineStep
<1> QED BY <1>1, <1>2, PTL DEF Spec

\* Type correctness, for every vault, every set of processes and any number of
\* faults.
THEOREM TypeCorrect == Spec => []TypeOK
<1>1. PipelineInv => TypeOK
  BY DEF PipelineInv
<1> QED BY <1>1, PipelineInvariant, PTL

\* With no operation open there is nothing on disk but the closed mutations.
LEMMA NothingPending == PipelineInv => ProjectedVaultWhole
<1> SUFFICES ASSUME PipelineInv, pend = {}
             PROVE  meta = vault.meta /\ accts = vault.accts
  BY DEF ProjectedVaultWhole
<1>0. TypeOK /\ Records /\ Covered
  BY DEF PipelineInv
<1>1. Open = {}
  BY <1>0 DEF Records
<1>2. meta \in Meta /\ vault.meta \in Meta /\ accts \in Secrets /\ vault.accts \in Secrets
  BY <1>0 DEF TypeOK, Vault
<1>3. \A a \in Accounts : accts[a] = vault.accts[a]
  BY <1>0, <1>1 DEF Covered, SecretsCovered
<1>4. accts = vault.accts
  BY <1>2, <1>3 DEF Secrets
<1>5. (\A i \in Ids : meta.ent[i] = vault.meta.ent[i]) /\ meta.cat = vault.meta.cat
  BY <1>0, <1>1 DEF Covered, MetaCovered
<1>6. meta.ent \in [Ids -> Image] /\ vault.meta.ent \in [Ids -> Image]
  BY <1>2 DEF Meta
<1>7. meta.ent = vault.meta.ent
  BY <1>5, <1>6
<1>8. meta = vault.meta
  BY <1>2, <1>5, <1>7 DEF Meta
<1> QED BY <1>4, <1>8

\* The guarantee of projection_guard: whatever crashes, failed writes, failed
\* rollbacks and catalog edits came before, a projection that finds nothing
\* pending finds exactly the effect of the completed mutations.
THEOREM VaultWhole == Spec => []ProjectedVaultWhole
BY PipelineInvariant, NothingPending, PTL

-----------------------------------------------------------------------------
(* The outcomes of the operations *)

\* An open operation has no outcome yet; one that has written and has no
\* outcome is open.
Undecided ==
  /\ \A o \in Open : outcome[o] = "none"
  /\ \A o \in Tags : o > tag => outcome[o] = "none"
  /\ pc = "record" => outcome[cur] = "none"
  /\ \A o \in touched : outcome[o] = "none" => o \in Open

\* What every step but the closing one does to the histories.
HistoryKept ==
  /\ outcome' = outcome /\ Open \subseteq Open' /\ tag <= tag'
  /\ Open' \subseteq Open \/ (pc = "record" /\ Open' \subseteq Open \cup {cur})
  /\ touched' \subseteq touched \/ (cur \in Open /\ touched' \subseteq touched \cup {cur})
  /\ pc' = "record" => (cur' = tag' /\ tag < tag') \/ (pc = "record" /\ cur' = cur)

\* At first no operation has begun, so none is decided.
LEMMA UndecidedInit == Init => Undecided
BY DEF Init, Undecided, Open, NoRecord

\* A step that decides nothing keeps open operations undecided.
LEMMA KeptUndecided ==
  ASSUME PipelineInv, PipelineInv', Undecided, HistoryKept
  PROVE  Undecided'
<1>0. tag \in Nat /\ tag' \in Nat /\ touched \subseteq Tags /\ Open \subseteq Tags
      /\ (pc' = "record" => cur' \in Tags)
  BY DEF PipelineInv, TypeOK, Open, AtRecord
<1>1. \A o \in Open' : outcome'[o] = "none"
  BY DEF Undecided, HistoryKept
<1>2. ASSUME NEW o \in Tags, o > tag' PROVE outcome'[o] = "none"
  <2>1. o \in Int /\ o > tag
    BY <1>0, <1>2 DEF Tags, HistoryKept
  <2> QED BY <2>1 DEF Undecided, HistoryKept
<1>3. pc' = "record" => outcome'[cur'] = "none"
  <2>1. CASE pc' = "record" /\ cur' = tag' /\ tag < tag'
    BY <1>0, <2>1 DEF Undecided, HistoryKept
  <2>2. CASE pc' = "record" /\ pc = "record" /\ cur' = cur
    BY <2>2 DEF Undecided, HistoryKept
  <2> QED BY <2>1, <2>2 DEF HistoryKept
<1>4. \A o \in touched' : outcome'[o] = "none" => o \in Open'
  BY DEF Undecided, HistoryKept
<1> QED BY <1>1, <1>2, <1>3, <1>4 DEF Undecided

\* Steps that leave the journal records alone.
LEMMA SameRecords ==
  ASSUME PipelineInv, recs' = recs, outcome' = outcome, touched' = touched, tag' = tag,
         pc' # "record" \/ (pc' = pc /\ cur' = cur)
  PROVE  HistoryKept
<1>1. Open' = Open
  BY DEF Open
<1>2. tag \in Nat
  BY DEF PipelineInv, TypeOK
<1> QED BY <1>1, <1>2 DEF HistoryKept

\* No step of the lock holder but the close decides an outcome.
LEMMA StepKeeps ==
  ASSUME PipelineInv, Step, ~CloseRecord
  PROVE  HistoryKept
<1>0. TypeOK /\ tag \in Nat /\ recs \in [Tags -> Record]
  BY DEF PipelineInv, TypeOK
<1>1. CASE WriteRecord
  <2>1. AtRecord /\ pc = "record" /\ cur \in Tags /\ recs[cur].st = "absent"
    BY <1>1 DEF PipelineInv, WriteRecord, AtRecord
  <2>2. outcome' = outcome /\ touched' = touched /\ tag' = tag /\ pc' # "record"
    BY <1>1 DEF WriteRecord, Goto, Release, history
  <2>3. recs' = recs \/ recs' = [recs EXCEPT ![cur] = [st |-> "pending", plan |-> plan]]
    BY <1>1 DEF WriteRecord
  <2>4. Open \subseteq Open' /\ Open' \subseteq Open \cup {cur}
    BY <1>0, <2>1, <2>3 DEF Open
  <2> QED BY <1>0, <2>1, <2>2, <2>4 DEF HistoryKept
<1>2. CASE ApplyAccount \/ Publish
  <2>1. pc \in {"apply", "publish"} /\ recs' = recs /\ outcome' = outcome /\ tag' = tag
        /\ touched' = touched \cup {cur}
    BY <1>2 DEF ApplyAccount, Publish, journal
  <2>2. cur \in Open
    BY <2>1 DEF PipelineInv, AtWork, Working
  <2>3. pc' # "record"
    BY <1>2, <2>1 DEF ApplyAccount, Publish, GiveUpApplying, Goto, Release, lock
  <2>4. Open' = Open
    BY <2>1 DEF Open
  <2> QED BY <1>0, <2>1, <2>2, <2>3, <2>4 DEF HistoryKept
<1>3. CASE StageApplied
  <2>1. outcome' = outcome /\ touched' = touched /\ tag' = tag /\ pc' # "record" /\ pc = "apply"
    BY <1>3 DEF StageApplied, GiveUpApplying, Goto, Release, history
  <2>2. recs' = recs \/ recs' = [recs EXCEPT ![cur].plan = plan]
    BY <1>3 DEF StageApplied
  <2>3. \A o \in Tags : recs'[o].st = recs[o].st
    <3>1. CASE recs' = recs
      BY <3>1
    <3>2. CASE recs' = [recs EXCEPT ![cur].plan = plan]
      <4>1. \A o \in Tags : recs'[o] = IF o = cur THEN [recs[o] EXCEPT !.plan = plan] ELSE recs[o]
        BY <1>0, <3>2
      <4> QED BY <1>0, <4>1 DEF Record
    <3> QED BY <2>2, <3>1, <3>2
  <2>4. Open' = Open
    BY <2>3 DEF Open
  <2> QED BY <1>0, <2>1, <2>4 DEF HistoryKept
<1>4. CASE RestoreAccount \/ RestoreDone \/ OuterHandler \/ Verify
  <2>1. recs' = recs /\ outcome' = outcome /\ touched' = touched /\ tag' = tag
    BY <1>4 DEF RestoreAccount, RestoreDone, OuterHandler, Verify, journal, history
  <2>2. pc' # "record"
    BY <1>4 DEF RestoreAccount, RestoreDone, OuterHandler, Verify, Goto, Release, lock
  <2> QED BY <2>1, <2>2, SameRecords
<1>5. CASE ArchiveReceipt \/ RemoveMarker \/ ScanMissing \/ ScanFinished \/ ScanOpen
  <2>1. recs' = recs /\ outcome' = outcome /\ touched' = touched /\ tag' = tag
    BY <1>5 DEF ArchiveReceipt, RemoveMarker, ScanMissing, ScanFinished, ScanOpen, journal, history
  <2>2. pc' # "record"
    BY <1>5 DEF ArchiveReceipt, RemoveMarker, ScanMissing, ScanFinished, ScanOpen, CloseError,
       Goto, Release, lock
  <2> QED BY <2>1, <2>2, SameRecords
<1>6. CASE UnlinkRecord
  <2>1. outcome' = outcome /\ touched' = touched /\ tag' = tag /\ pc' # "record" /\ pc = "unlink"
    BY <1>6 DEF UnlinkRecord, CloseError, Goto, Release, history
  <2>2. cur \in Tags /\ cur \notin Open
    BY <2>1 DEF PipelineInv, AtArchive
  <2>3. recs' = recs \/ recs' = [recs EXCEPT ![cur] = NoRecord]
    BY <1>6 DEF UnlinkRecord
  <2>4. NoRecord.st = "absent"
    BY DEF NoRecord
  <2>5. Open' = Open
    BY <1>0, <2>2, <2>3, <2>4 DEF Open
  <2> QED BY <1>0, <2>1, <2>5 DEF HistoryKept
<1>7. CASE Compact
  <2>1. outcome' = outcome /\ touched' = touched /\ tag' = tag /\ pc' # "record"
    BY <1>7 DEF Compact, Release, history
  <2>2. NoRecord.st = "absent"
    BY DEF NoRecord
  <2>3. \A o \in Tags : recs'[o] = recs[o] \/ (Finished(o) /\ recs'[o] = NoRecord)
    BY <1>0, <1>7 DEF Compact
  <2>4. Open' = Open
    BY <2>2, <2>3 DEF Open, Finished
  <2> QED BY <1>0, <2>1, <2>4 DEF HistoryKept
<1> QED BY <1>1, <1>2, <1>3, <1>4, <1>5, <1>6, <1>7 DEF Step

\* No step of another process decides an outcome.
LEMMA OtherKeeps ==
  ASSUME PipelineInv, [Next]_vars, ~Step
  PROVE  HistoryKept
<1>0. TypeOK /\ tag \in Nat /\ Old(meta)
  BY DEF PipelineInv, TypeOK
<1>1. CASE Crash
  <2>1. recs' = recs /\ outcome' = outcome /\ touched' = touched /\ tag' = tag /\ pc' # "record"
    BY <1>1 DEF Crash, Release, journal, history
  <2> QED BY <2>1, SameRecords
<1>2. CASE EditCatalog
  <2>1. recs' = recs /\ outcome' = outcome /\ touched' = touched /\ tag' = tag + 1
        /\ pc' = pc /\ cur' = cur
    BY <1>2 DEF EditCatalog, journal, local, lock
  <2>2. Open' = Open
    BY <2>1 DEF Open
  <2> QED BY <1>0, <2>1, <2>2 DEF HistoryKept
<1>3. ASSUME NEW p \in Procs, Mutate(p) PROVE HistoryKept
  <2>1. PICK q : Transact(p, q)
    BY <1>0, <1>3, MutationIsTransact
  <2>2. recs' = recs /\ outcome' = outcome /\ touched' = touched /\ tag' = tag + 1
    BY <2>1 DEF Transact, history
  <2>3. pc' = "record" => cur' = tag' \/ (pc = "record" /\ cur' = cur)
    BY <2>1 DEF Transact, local
  <2>4. Open' = Open
    BY <2>2 DEF Open
  <2> QED BY <1>0, <2>2, <2>3, <2>4 DEF HistoryKept
<1>4. ASSUME NEW p \in Procs, Refuse(p) \/ Recover(p) \/ AssertReady(p) \/ Project(p)
      PROVE  HistoryKept
  <2>1. recs' = recs /\ outcome' = outcome /\ touched' = touched /\ tag' = tag
    BY <1>4 DEF Refuse, Recover, AssertReady, Project, journal, history
  <2>2. pc' # "record" \/ (pc' = pc /\ cur' = cur)
    BY <1>4 DEF Refuse, Recover, AssertReady, Project, local, lock
  <2> QED BY <2>1, <2>2, SameRecords
<1>5. CASE UNCHANGED vars
  <2>1. recs' = recs /\ outcome' = outcome /\ touched' = touched /\ tag' = tag
        /\ pc' = pc /\ cur' = cur
    BY <1>5 DEF vars, journal, local, lock, history
  <2> QED BY <2>1, SameRecords
<1> QED BY <1>1, <1>2, <1>3, <1>4, <1>5 DEF Next

\* The closing step: the outcome is decided and the operation no longer open,
\* or nothing happened.
LEMMA CloseDecides ==
  ASSUME PipelineInv, CloseRecord
  PROVE  /\ cur \in Open /\ cur \in Tags /\ goal \in {"completed", "failed"}
         /\ touched' = touched /\ views' = views /\ tag' = tag /\ pc' # "record"
         /\ \/ UNCHANGED <<recs, outcome, vault>>
            \/ /\ outcome' = [outcome EXCEPT ![cur] = goal]
               /\ Open' = Open \ {cur}
               /\ vault' = IF goal = "completed" THEN Effect(recs[cur].plan, vault) ELSE vault
<1>0. TypeOK /\ AtWork /\ AtClose /\ pc = "close"
  BY DEF PipelineInv, CloseRecord
<1>1. cur \in Open /\ cur \in Tags /\ goal \in {"completed", "failed"}
  BY <1>0 DEF AtWork, AtClose, Working, Open, TypeOK
<1>2. touched' = touched /\ views' = views /\ tag' = tag /\ pc' # "record"
  BY DEF CloseRecord, CloseError, Goto, Release
<1>3. ASSUME recs' = [recs EXCEPT ![cur].st = goal] PROVE Open' = Open \ {cur}
  <2>1. \A o \in Tags : recs'[o] = IF o = cur THEN [recs[o] EXCEPT !.st = goal] ELSE recs[o]
    BY <1>0, <1>3 DEF TypeOK
  <2>2. recs'[cur].st = goal
    BY <1>0, <1>1, <2>1 DEF TypeOK, Record
  <2> QED BY <1>1, <2>1, <2>2 DEF Open
<1>4. \/ UNCHANGED <<recs, outcome, vault>>
      \/ /\ recs' = [recs EXCEPT ![cur].st = goal]
         /\ outcome' = [outcome EXCEPT ![cur] = goal]
         /\ vault' = IF goal = "completed" THEN Effect(recs[cur].plan, vault) ELSE vault
  BY DEF CloseRecord
<1> QED BY <1>1, <1>2, <1>3, <1>4

\* Every step keeps open operations undecided.
LEMMA UndecidedStep ==
  ASSUME PipelineInv, PipelineInv', Undecided, [Next]_vars
  PROVE  Undecided'
<1>1. CASE ~CloseRecord
  BY <1>1, StepKeeps, OtherKeeps, KeptUndecided
<1>2. CASE CloseRecord
  <2>0. cur \in Open /\ cur \in Tags /\ goal \in {"completed", "failed"}
        /\ touched' = touched /\ tag' = tag /\ pc' # "record"
    BY <1>2, CloseDecides
  <2>1. CASE UNCHANGED <<recs, outcome, vault>>
    BY <2>0, <2>1 DEF Undecided, Open
  <2>2. CASE outcome' = [outcome EXCEPT ![cur] = goal] /\ Open' = Open \ {cur}
    <3>1. \A o \in Tags : outcome'[o] = IF o = cur THEN goal ELSE outcome[o]
      BY <2>2 DEF PipelineInv, TypeOK
    <3>2. touched \subseteq Tags /\ Open \subseteq Tags
      BY DEF PipelineInv, TypeOK, Open
    <3>3. ~(cur > tag)
      BY <2>0 DEF PipelineInv, Records, Open
    <3>4. \A o \in Tags : o > tag' => outcome'[o] = "none"
      BY <2>0, <3>1, <3>3 DEF Undecided
    <3>5. \A o \in touched' : outcome'[o] = "none" => o \in Open'
      BY <2>0, <2>2, <3>1, <3>2 DEF Undecided
    <3>6. \A o \in Open' : outcome'[o] = "none"
      BY <2>2, <3>1, <3>2 DEF Undecided
    <3> QED BY <2>0, <3>4, <3>5, <3>6 DEF Undecided
  <2> QED BY <1>2, <2>1, <2>2, CloseDecides
<1> QED BY <1>1, <1>2

\* An operation with an open record has no outcome yet.
LEMMA UndecidedInvariant == Spec => []Undecided
<1>1. Init => Undecided
  BY UndecidedInit
<1>2. PipelineInv /\ PipelineInv' /\ Undecided /\ [Next]_vars => Undecided'
  BY UndecidedStep
<1> QED BY <1>1, <1>2, PipelineInvariant, PTL DEF Spec

\* The write-ahead rule of begin(): an operation that has changed a secret or
\* the metadata and is not closed is indexed and has its record on disk.
THEOREM WriteAheadRule == Spec => []WriteAhead
<1>1. PipelineInv /\ Undecided => WriteAhead
  BY DEF PipelineInv, Records, Undecided, WriteAhead
<1> QED BY <1>1, PipelineInvariant, UndecidedInvariant, PTL

-----------------------------------------------------------------------------
(* Refinement *)

\* Both specifications speak of the same data.
LEMMA SameData ==
  /\ Atomic!Vault = Vault /\ Atomic!Tags = Tags /\ Atomic!EmptyVault = EmptyVault
  /\ \A m : Atomic!Live(m) = Live(m)
<1>1. Atomic!Meta = Meta /\ Atomic!Secrets = Secrets
  BY DEF Atomic!Meta, Meta, Atomic!Image, Image, Atomic!Secrets, Secrets, Atomic!Accounts,
     Accounts, Atomic!Slots, Slots
<1>2. Atomic!EmptyMeta = EmptyMeta /\ Atomic!EmptySecrets = EmptySecrets
  BY DEF Atomic!EmptyMeta, EmptyMeta, Atomic!NoImage, NoImage, Atomic!EmptySecrets, EmptySecrets,
     Atomic!Absent, Absent, Atomic!Accounts, Accounts, Atomic!Slots, Slots
<1>3. \A m : Atomic!Live(m) = Live(m)
  BY DEF Atomic!Live, Live
<1> QED
  BY <1>1, <1>2, <1>3 DEF Atomic!Vault, Vault, Atomic!Tags, Tags, Atomic!EmptyVault, EmptyVault

\* A catalog edit is an edit of the atomic vault, or goes unnoticed there.
LEMMA EditRefines ==
  ASSUME PipelineInv, PipelineInv', EditCatalog
  PROVE  Atomic!Edit
<1>0. vault \in Vault /\ vault' \in Vault /\ vault.meta \in Meta
  BY DEF PipelineInv, TypeOK, Vault
<1>1. UNCHANGED <<outcome, views>>
  BY DEF EditCatalog
<1> DEFINE t == tag + 1
<1>2. vault'.accts = vault.accts /\ Live(vault'.meta) = Live(vault.meta)
  <2>1. PICK S \in SUBSET Live(vault.meta), c \in Int :
             vault' = [vault EXCEPT !.meta = Edited(@, S, c)]
    <3>1. PICK moved \in SUBSET Live(meta), new \in BOOLEAN :
               vault' = [vault EXCEPT !.meta =
                           Edited(@, moved \cap Live(@), IF new THEN t ELSE @.cat)]
      BY DEF EditCatalog
    <3>2. t \in Int /\ vault.meta.cat \in Int
      BY <1>0 DEF PipelineInv, TypeOK, Meta
    <3> QED BY <1>0, <3>1, <3>2 DEF Vault
  <2>2. vault' = [meta |-> Edited(vault.meta, S, c), accts |-> vault.accts]
    BY <1>0, <2>1 DEF Vault
  <2>3. \A i \in Ids : vault'.meta.ent[i] = IF i \in S THEN LiveImage(t) ELSE vault.meta.ent[i]
    BY <2>2 DEF Edited
  <2>4. \A i \in S : i \in Ids /\ vault.meta.ent[i].live
    BY DEF Live
  <2>5. LiveImage(t).live = TRUE
    BY DEF LiveImage
  <2>6. \A i \in Ids : vault'.meta.ent[i].live <=> vault.meta.ent[i].live
    BY <2>3, <2>4, <2>5
  <2> QED BY <2>2, <2>6 DEF Live
<1> QED BY <1>0, <1>1, <1>2, SameData DEF Atomic!Edit

\* Every step of the pipeline is a step of the atomic vault, or leaves it alone.
LEMMA AtomicStep ==
  ASSUME PipelineInv, PipelineInv', Undecided, ProjectedVaultWhole, [Next]_vars
  PROVE  [Atomic!Next]_(Atomic!vars)
<1>0. vault \in Vault /\ vault' \in Vault
  BY DEF PipelineInv, TypeOK
<1>1. CASE CloseRecord
  <2>0. cur \in Open /\ cur \in Tags /\ goal \in {"completed", "failed"} /\ views' = views
    BY <1>1, CloseDecides
  <2>1. outcome[cur] = "none"
    BY <2>0 DEF Undecided
  <2>2. CASE UNCHANGED <<recs, outcome, vault>>
    BY <2>0, <2>2 DEF Atomic!vars
  <2>3. CASE outcome' = [outcome EXCEPT ![cur] = goal]
             /\ vault' = IF goal = "completed" THEN Effect(recs[cur].plan, vault) ELSE vault
    <3>1. CASE goal = "completed"
      BY <1>0, <2>0, <2>1, <2>3, <3>1, SameData DEF Atomic!Next, Atomic!Commit
    <3>2. CASE goal = "failed"
      BY <2>0, <2>1, <2>3, <3>2, SameData DEF Atomic!Next, Atomic!Abort
    <3> QED BY <2>0, <3>1, <3>2
  <2> QED BY <1>1, <2>2, <2>3, CloseDecides
<1>2. CASE EditCatalog
  BY <1>2, EditRefines DEF Atomic!Next
<1>3. CASE \E p \in Procs : Project(p)
  <2>1. PICK p \in Procs : Project(p)
    BY <1>3
  <2>2. meta = vault.meta /\ accts = vault.accts
    BY <2>1 DEF ProjectedVaultWhole, Project
  <2>3. [meta |-> meta, accts |-> accts] = vault
    BY <1>0, <2>2 DEF Vault
  <2> QED BY <2>1, <2>3 DEF Atomic!Next, Atomic!Project, Project
<1>4. CASE Step /\ ~CloseRecord
  <2>1. UNCHANGED <<vault, outcome, views>>
    BY <1>4 DEF Step, WriteRecord, ApplyAccount, StageApplied, Publish, RestoreAccount,
       RestoreDone, OuterHandler, Verify, ArchiveReceipt, RemoveMarker, UnlinkRecord,
       ScanMissing, ScanFinished, ScanOpen, Compact, history
  <2> QED BY <2>1 DEF Atomic!vars
<1>5. CASE Crash \/ \E p \in Procs : Refuse(p) \/ Recover(p) \/ AssertReady(p)
  BY <1>5 DEF Crash, Refuse, Recover, AssertReady, history, Atomic!vars
<1>6. CASE \E p \in Procs : Mutate(p)
  <2>1. PICK p \in Procs : \E q : Transact(p, q)
    BY <1>6, MutationIsTransact DEF PipelineInv
  <2>2. PICK q : Transact(p, q)
    BY <2>1
  <2> QED BY <2>2 DEF Transact, history, Atomic!vars
<1>7. CASE UNCHANGED vars
  BY <1>7 DEF vars, history, Atomic!vars
<1> QED BY <1>1, <1>2, <1>3, <1>4, <1>5, <1>6, <1>7 DEF Next

\* The pipeline implements the atomic vault, for every vault and any number of
\* processes and faults.
THEOREM Implements == Spec => ImplementsAtomicVault
<1>1. Init => Atomic!Init
  BY SameData DEF Init, Atomic!Init
<1>2. PipelineInv /\ PipelineInv' /\ Undecided /\ ProjectedVaultWhole /\ [Next]_vars
        => [Atomic!Next]_(Atomic!vars)
  BY AtomicStep
<1> QED
  BY <1>1, <1>2, PipelineInvariant, UndecidedInvariant, VaultWhole, PTL
     DEF Spec, ImplementsAtomicVault, Atomic!Spec

-----------------------------------------------------------------------------
(* The ledger of terminal receipts *)

Has(ledger, o) == \E k \in DOMAIN ledger : ledger[k].op = o

\* An operation has one receipt at most.
Single(ledger) == \A j, k \in DOMAIN ledger : ledger[j].op = ledger[k].op => j = k

\* Ledger new forgets no operation that old has, unless it is full, and a full
\* one is followed by a full one.
Succeeds(old, new) ==
  /\ new \in Seq(Receipt) /\ Single(new) /\ Len(new) <= MaxReceipts
  /\ \A o \in Tags : Has(old, o) => Has(new, o) \/ Len(new) = MaxReceipts
  /\ Len(old) = MaxReceipts => Len(new) = MaxReceipts

\* The ledger is within its limit and holds an operation once.
LedgerInv ==
  /\ Single(receipts) /\ Len(receipts) <= MaxReceipts
  /\ FinishedRemembered

LEMMA LedgerBound == MaxReceipts \in Nat \ {0}
BY JournalAssumption

LEMMA SeqDomain ==
  ASSUME NEW T, NEW s \in Seq(T)
  PROVE  Len(s) \in Nat /\ DOMAIN s = 1..Len(s) /\ \A k \in 1..Len(s) : s[k] \in T
BY LenProperties

LEMMA Part ==
  ASSUME NEW T, NEW s \in Seq(T), NEW m \in Int, NEW n \in Int, 1 <= m, m <= n + 1, n <= Len(s)
  PROVE  /\ SubSeq(s, m, n) \in Seq(T) /\ Len(SubSeq(s, m, n)) = n - m + 1
         /\ \A j \in 1..n - m + 1 : SubSeq(s, m, n)[j] = s[m + j - 1]
<1>1. \A i \in m..n : s[i] \in T
  BY SeqDomain
<1>2. /\ SubSeq(s, m, n) \in Seq(T) /\ Len(SubSeq(s, m, n)) = IF m <= n THEN n - m + 1 ELSE 0
      /\ \A j \in 1..n - m + 1 : SubSeq(s, m, n)[j] = s[m + j - 1]
  BY <1>1, SubSeqProperties
<1> QED BY <1>2

\* Trimming keeps the last receipts, all of them if there is room, and always
\* the very last one.
LEMMA TrimKeeps ==
  ASSUME NEW s \in Seq(Receipt), Single(s)
  PROVE  /\ Trim(s) \in Seq(Receipt) /\ Single(Trim(s)) /\ Len(Trim(s)) <= MaxReceipts
         /\ Len(s) >= MaxReceipts => Len(Trim(s)) = MaxReceipts
         /\ Len(s) <= MaxReceipts => Trim(s) = s
         /\ Len(s) > 0 => Has(Trim(s), s[Len(s)].op)
<1> DEFINE n == Len(s)
           m == n - MaxReceipts + 1
           t == SubSeq(s, m, n)
<1>1. n \in Nat /\ DOMAIN s = 1..n /\ \A k \in 1..n : s[k] \in Receipt
  BY SeqDomain
<1>2. CASE ~(n > MaxReceipts)
  <2>1. Trim(s) = s
    BY <1>2 DEF Trim
  <2>2. n <= MaxReceipts /\ (n >= MaxReceipts => n = MaxReceipts)
    <3>1. n \in Int /\ MaxReceipts \in Int /\ ~(n > MaxReceipts)
      BY <1>1, <1>2, LedgerBound
    <3> HIDE DEF n
    <3> QED BY <3>1
  <2>3. n > 0 => Has(s, s[n].op)
    BY <1>1 DEF Has
  <2> QED BY <2>1, <2>2, <2>3
<1>3. CASE n > MaxReceipts
  <2>1. Trim(s) = t
    BY <1>3 DEF Trim
  <2>2. m \in Int /\ m >= 1 /\ m <= n /\ n - m + 1 = MaxReceipts
    BY <1>1, <1>3, LedgerBound
  <2> HIDE DEF n, m
  <2>4. t \in Seq(Receipt) /\ Len(t) = n - m + 1 /\ \A k \in 1..n - m + 1 : t[k] = s[m + k - 1]
    <3>1. n = Len(s)
      BY DEF n
    <3> QED BY <1>1, <2>2, <3>1, Part
  <2> HIDE DEF t
  <2>5. DOMAIN t = 1..MaxReceipts
    BY <2>2, <2>4, SeqDomain
  <2>6. Single(t)
    <3> SUFFICES ASSUME NEW j \in 1..MaxReceipts, NEW k \in 1..MaxReceipts, t[j].op = t[k].op
                 PROVE  j = k
      BY <2>5 DEF Single
    <3>1. t[j] = s[m + j - 1] /\ t[k] = s[m + k - 1]
      BY <2>2, <2>4
    <3>2. m + j - 1 \in DOMAIN s /\ m + k - 1 \in DOMAIN s
      BY <1>1, <2>2, LedgerBound
    <3>3. m + j - 1 = m + k - 1
      BY <3>1, <3>2 DEF Single
    <3> QED BY <2>2, <3>3, LedgerBound
  <2>7. Has(t, s[n].op)
    <3>1. MaxReceipts \in DOMAIN t
      BY <2>5, LedgerBound
    <3>2. t[MaxReceipts] = s[n]
      <4>1. MaxReceipts \in 1..n - m + 1 /\ m + MaxReceipts - 1 = n
        BY <1>1, <2>2, LedgerBound
      <4> QED BY <2>4, <4>1
    <3> QED BY <3>1, <3>2 DEF Has
  <2> QED BY <1>1, <1>3, <2>1, <2>2, <2>4, <2>6, <2>7, LedgerBound DEF n
<1> QED BY <1>2, <1>3

\* What is left when the receipt of o is taken out.
LEMMA WithoutKeeps ==
  ASSUME receipts \in Seq(Receipt), Single(receipts), NEW o
  PROVE  /\ WithoutReceipt(o) \in Seq(Receipt) /\ Single(WithoutReceipt(o)) /\ ~Has(WithoutReceipt(o), o)
         /\ \A x : x # o /\ HasReceipt(x) => Has(WithoutReceipt(o), x)
         /\ Len(WithoutReceipt(o)) + 1 >= Len(receipts)
<1> DEFINE n == Len(receipts)
<1>1. n \in Nat /\ DOMAIN receipts = 1..n /\ \A j \in 1..n : receipts[j] \in Receipt
  BY SeqDomain
<1>2. CASE ~HasReceipt(o)
  <2>1. WithoutReceipt(o) = receipts
    BY <1>2 DEF WithoutReceipt
  <2> QED BY <1>1, <1>2, <2>1 DEF HasReceipt, Has
<1>3. CASE HasReceipt(o)
  <2> DEFINE k == CHOOSE j \in DOMAIN receipts : receipts[j].op = o
             a == SubSeq(receipts, 1, k - 1)
             b == SubSeq(receipts, k + 1, n)
             w == a \o b
  <2>1. k \in 1..n /\ receipts[k].op = o
    BY <1>1, <1>3 DEF HasReceipt
  <2>2. WithoutReceipt(o) = w
    BY <1>3 DEF WithoutReceipt
  <2> HIDE DEF k
  <2>3. k - 1 \in Int /\ k + 1 \in Int /\ n \in Int /\ k \in Int /\ 1 <= k /\ k <= n
    BY <1>1, <2>1
  <2> HIDE DEF n
  <2>5. /\ a \in Seq(Receipt) /\ Len(a) = k - 1
        /\ \A j \in 1..k - 1 : a[j] = receipts[j]
    <3>1. /\ a \in Seq(Receipt) /\ Len(a) = k - 1 - 1 + 1
          /\ \A j \in 1..k - 1 - 1 + 1 : a[j] = receipts[1 + j - 1]
      <4>1. k - 1 \in Int /\ 1 \in Int /\ 1 <= 1 /\ 1 <= k - 1 + 1 /\ k - 1 <= Len(receipts)
        BY <2>3 DEF n
      <4> QED BY <4>1, Part, Zenon
    <3> HIDE DEF a
    <3> QED BY <2>3, <3>1
  <2>6. /\ b \in Seq(Receipt) /\ Len(b) = n - k
        /\ \A j \in 1..n - k : b[j] = receipts[k + j]
    <3>1. /\ b \in Seq(Receipt) /\ Len(b) = n - (k + 1) + 1
          /\ \A j \in 1..n - (k + 1) + 1 : b[j] = receipts[k + 1 + j - 1]
      <4>1. k + 1 \in Int /\ n \in Int /\ 1 <= k + 1 /\ k + 1 <= n + 1 /\ n <= Len(receipts)
        BY <2>3 DEF n
      <4> QED BY <4>1, Part, Zenon
    <3> HIDE DEF b
    <3> QED BY <2>3, <3>1
  <2> HIDE DEF a, b
  <2>7. /\ w \in Seq(Receipt) /\ Len(w) = Len(a) + Len(b)
        /\ \A j \in 1..Len(a) + Len(b) : w[j] = IF j <= Len(a) THEN a[j] ELSE b[j - Len(a)]
    BY <2>5, <2>6, ConcatProperties
  <2> HIDE DEF w
  <2>8. Len(w) = n - 1 /\ DOMAIN w = 1..n - 1
    BY <2>3, <2>5, <2>6, <2>7, SeqDomain
  <2>9. \A j \in 1..n - 1 : w[j] = IF j <= k - 1 THEN receipts[j] ELSE receipts[j + 1]
    <3> SUFFICES ASSUME NEW j \in 1..n - 1 PROVE w[j] = IF j <= k - 1 THEN receipts[j] ELSE receipts[j + 1]
      OBVIOUS
    <3>1. w[j] = IF j <= k - 1 THEN a[j] ELSE b[j - (k - 1)]
      BY <2>3, <2>5, <2>6, <2>7
    <3>2. CASE j <= k - 1
      BY <2>3, <2>5, <3>1, <3>2
    <3>3. CASE ~(j <= k - 1)
      <4>1. j - (k - 1) \in 1..n - k /\ k + (j - (k - 1)) = j + 1
        BY <2>3, <3>3
      <4> QED BY <2>6, <3>1, <3>3, <4>1
    <3> QED BY <3>2, <3>3
  <2>10. \A j \in 1..n - 1 : \E i \in 1..n : i # k /\ w[j] = receipts[i] /\ i = IF j <= k - 1 THEN j ELSE j + 1
    <3> SUFFICES ASSUME NEW j \in 1..n - 1
                 PROVE  \E i \in 1..n : i # k /\ w[j] = receipts[i] /\ i = IF j <= k - 1 THEN j ELSE j + 1
      OBVIOUS
    <3>1. CASE j <= k - 1
      <4>1. j \in 1..n /\ j # k /\ w[j] = receipts[j]
        BY <2>3, <2>9, <3>1
      <4> QED BY <3>1, <4>1
    <3>2. CASE ~(j <= k - 1)
      <4>1. j + 1 \in 1..n /\ j + 1 # k /\ w[j] = receipts[j + 1]
        BY <2>3, <2>9, <3>2
      <4> QED BY <3>2, <4>1
    <3> QED BY <3>1, <3>2
  <2>11. Single(w)
    <3> SUFFICES ASSUME NEW i \in 1..n - 1, NEW j \in 1..n - 1, w[i].op = w[j].op
                 PROVE  i = j
      BY <2>8 DEF Single
    <3>1. PICK x \in 1..n : w[i] = receipts[x] /\ x = IF i <= k - 1 THEN i ELSE i + 1
      BY <2>10
    <3>2. PICK y \in 1..n : w[j] = receipts[y] /\ y = IF j <= k - 1 THEN j ELSE j + 1
      BY <2>10
    <3>3. x = y
      BY <1>1, <3>1, <3>2 DEF Single
    <3> QED BY <2>3, <3>1, <3>2, <3>3
  <2>12. ~Has(w, o)
    <3> SUFFICES ASSUME NEW j \in 1..n - 1, w[j].op = o
                 PROVE  FALSE
      BY <2>8 DEF Has
    <3>1. PICK i \in 1..n : i # k /\ w[j] = receipts[i]
      BY <2>10
    <3> QED BY <1>1, <2>1, <3>1 DEF Single
  <2>13. ASSUME NEW x, x # o, HasReceipt(x)
         PROVE  Has(w, x)
    <3>1. PICK i \in 1..n : receipts[i].op = x
      BY <1>1, <2>13 DEF HasReceipt
    <3>2. i # k
      BY <2>1, <2>13, <3>1
    <3>3. CASE i <= k - 1
      <4>1. i \in 1..n - 1 /\ w[i] = receipts[i]
        BY <2>3, <2>9, <3>3
      <4> QED BY <2>8, <3>1, <4>1 DEF Has
    <3>4. CASE ~(i <= k - 1)
      <4>1. i - 1 \in 1..n - 1 /\ ~(i - 1 <= k - 1) /\ i - 1 + 1 = i
        BY <2>3, <3>2, <3>4
      <4>2. w[i - 1] = receipts[i]
        BY <2>9, <4>1
      <4> QED BY <2>8, <3>1, <4>1, <4>2 DEF Has
    <3> QED BY <3>3, <3>4
  <2>14. Len(w) + 1 >= n
    BY <2>3, <2>8
  <2> QED BY <2>2, <2>7, <2>11, <2>12, <2>13, <2>14 DEF n
<1> QED BY <1>2, <1>3

\* One receipt more, or the same one renewed.
LEMMA ArchivedSucceeds ==
  ASSUME receipts \in Seq(Receipt), Single(receipts), NEW o \in Tags, NEW st \in {"completed", "failed"}
  PROVE  Succeeds(receipts, Archived(o, st)) /\ Has(Archived(o, st), o)
<1> DEFINE w == WithoutReceipt(o)
           r == [op |-> o, st |-> st]
           a == Append(w, r)
<1>1. /\ w \in Seq(Receipt) /\ Single(w) /\ ~Has(w, o) /\ Len(w) + 1 >= Len(receipts)
      /\ \A x : x # o /\ Has(receipts, x) => Has(w, x)
  BY WithoutKeeps DEF HasReceipt, Has
<1>2. r \in Receipt /\ r.op = o
  BY DEF Receipt
<1>3. Archived(o, st) = Trim(a)
  BY DEF Archived
<1> HIDE DEF w, r
<1>4. /\ Len(w) \in Nat /\ a \in Seq(Receipt) /\ Len(a) = Len(w) + 1
      /\ \A i \in 1..Len(w) : a[i] = w[i]
      /\ a[Len(w) + 1] = r
  BY <1>1, <1>2, AppendProperties, SeqDomain
<1> HIDE DEF a
<1>5. DOMAIN w = 1..Len(w) /\ DOMAIN a = 1..Len(w) + 1
  BY <1>1, <1>4, SeqDomain
<1>6. \A i \in 1..Len(w) : i \in DOMAIN a /\ a[i] = w[i]
  BY <1>4, <1>5
<1>7. Len(w) + 1 \in DOMAIN a /\ \A i \in DOMAIN a : i \in 1..Len(w) \/ i = Len(w) + 1
  BY <1>4, <1>5
<1>8. Single(a)
  <2> SUFFICES ASSUME NEW i \in DOMAIN a, NEW j \in DOMAIN a, a[i].op = a[j].op
               PROVE  i = j
    BY DEF Single
  <2>1. \A k \in 1..Len(w) : a[k].op # o
    BY <1>1, <1>5, <1>6 DEF Has
  <2>2. CASE i \in 1..Len(w) /\ j \in 1..Len(w)
    BY <1>1, <1>5, <1>6, <2>2 DEF Single
  <2> QED BY <1>2, <1>4, <1>7, <2>1, <2>2
<1>9. Has(a, o) /\ \A x : Has(receipts, x) => Has(a, x)
  <2>1. Has(a, o)
    BY <1>2, <1>4, <1>7 DEF Has
  <2>2. \A x : Has(w, x) => Has(a, x)
    BY <1>5, <1>6 DEF Has
  <2> QED BY <1>1, <2>1, <2>2
<1>10. Len(a) >= Len(receipts) /\ Len(a) \in Nat /\ Len(receipts) \in Nat
  BY <1>1, <1>4, SeqDomain
<1>11. /\ Trim(a) \in Seq(Receipt) /\ Single(Trim(a)) /\ Len(Trim(a)) <= MaxReceipts
       /\ Len(a) >= MaxReceipts => Len(Trim(a)) = MaxReceipts
       /\ Len(a) <= MaxReceipts => Trim(a) = a
       /\ Has(Trim(a), o)
  BY <1>2, <1>4, <1>8, TrimKeeps
<1>12. CASE Len(a) <= MaxReceipts
  BY <1>3, <1>9, <1>10, <1>11, <1>12, LedgerBound DEF Succeeds
<1>13. CASE Len(a) >= MaxReceipts
  BY <1>3, <1>11, <1>13 DEF Succeeds
<1> QED BY <1>10, <1>12, <1>13, LedgerBound

\* A ledger that has all operations of another is as long.
LEMMA HasAllIsLonger ==
  ASSUME NEW r \in Seq(Receipt), NEW s \in Seq(Receipt), Single(r),
         \A k \in DOMAIN r : Has(s, r[k].op)
  PROVE  Len(r) <= Len(s)
<1> DEFINE f == [k \in 1..Len(r) |-> CHOOSE j \in 1..Len(s) : s[j].op = r[k].op]
<1>1. Len(r) \in Nat /\ Len(s) \in Nat /\ DOMAIN r = 1..Len(r) /\ DOMAIN s = 1..Len(s)
  BY SeqDomain
<1>2. \A k \in 1..Len(r) : f[k] \in 1..Len(s) /\ s[f[k]].op = r[k].op
  BY <1>1 DEF Has
<1>3. f \in [1..Len(r) -> 1..Len(s)]
  BY <1>2
<1> HIDE DEF f
<1>4. \A j, k \in 1..Len(r) : f[j] = f[k] => j = k
  BY <1>1, <1>2 DEF Single
<1>5. f \in Injection(1..Len(r), 1..Len(s))
  BY <1>3, <1>4 DEF Injection, IsInjective
<1>6. /\ IsFiniteSet(1..Len(r)) /\ IsFiniteSet(1..Len(s))
      /\ Cardinality(1..Len(r)) = Len(r) /\ Cardinality(1..Len(s)) = Len(s)
  <2>1. ASSUME NEW n \in Nat
        PROVE  IsFiniteSet(1..n) /\ Cardinality(1..n) = n
    BY FS_Interval
  <2> QED BY <1>1, <2>1
<1> QED BY <1>5, <1>6, FS_Injection

\* The receipts of the finished operations are merged in.
LEMMA MergedSucceeds ==
  ASSUME TypeOK, Single(receipts), Len(receipts) <= MaxReceipts, NEW done \in SUBSET Tags,
         \A o \in done : Finished(o), NEW new \in Merged(done)
  PROVE  Succeeds(receipts, new) /\ \A o \in done : Has(new, o) \/ Len(new) = MaxReceipts
<1>1. receipts \in Seq(Receipt)
  BY DEF TypeOK
<1>2. CASE done = {}
  BY <1>1, <1>2 DEF Merged, Succeeds
<1>3. CASE done # {}
  <2> DEFINE kept == {receipts[k] : k \in {x \in DOMAIN receipts : receipts[x].op \notin done}}
             fresh == {[op |-> o, st |-> recs[o].st] : o \in done}
             S == kept \cup fresh
  <2>1. PICK s \in Rows(S) : new = Trim(s)
    BY <1>3 DEF Merged
  <2>2. \A k \in DOMAIN receipts : receipts[k] \in Receipt
    BY <1>1, SeqDomain
  <2>3. fresh \subseteq Receipt
    BY DEF Finished, Receipt
  <2>4. S \subseteq Receipt
    BY <2>2, <2>3
  <2>5. \A x, y \in S : x.op = y.op => x = y
    <3>1. \A x \in kept : x.op \notin done
      OBVIOUS
    <3>2. \A x \in fresh : x.op \in done /\ x = [op |-> x.op, st |-> recs[x.op].st]
      OBVIOUS
    <3>3. \A x, y \in kept : x.op = y.op => x = y
      BY DEF Single
    <3>4. \A x, y \in fresh : x.op = y.op => x = y
      <4> HIDE DEF fresh
      <4> QED BY <3>2
    <3> HIDE DEF kept, fresh
    <3> QED BY <3>1, <3>2, <3>3, <3>4
  <2>6. \A o \in done : \E x \in S : x.op = o
    <3>1. \A o \in done : [op |-> o, st |-> recs[o].st] \in S
      OBVIOUS
    <3> HIDE DEF S
    <3> QED BY <3>1
  <2>7. \A k \in DOMAIN receipts : \E x \in S : x.op = receipts[k].op
    <3> SUFFICES ASSUME NEW k \in DOMAIN receipts PROVE \E x \in S : x.op = receipts[k].op
      OBVIOUS
    <3>1. CASE receipts[k].op \in done
      BY <2>6, <3>1
    <3>2. CASE receipts[k].op \notin done
      BY <3>2
    <3> QED BY <3>1, <3>2
  <2> HIDE DEF S, kept, fresh
  <2>8. PICK n \in 0..MaxTag : s \in [1..n -> S]
    BY <2>1 DEF Rows
  <2>9. /\ \A x \in S : \E k \in DOMAIN s : s[k] = x
        /\ \A j, k \in DOMAIN s : s[j] = s[k] => j = k
    BY <2>1 DEF Rows
  <2>10. s \in Seq(Receipt)
    <3>1. n \in Nat /\ s \in [1..n -> Receipt]
      BY <2>4, <2>8, VaultAssumption
    <3> QED BY <3>1
  <2>11. Single(s)
    BY <2>5, <2>8, <2>9 DEF Single
  <2>12. \A o \in done : Has(s, o)
    BY <2>6, <2>9 DEF Has
  <2>13. \A k \in DOMAIN receipts : Has(s, receipts[k].op)
    BY <2>7, <2>9 DEF Has
  <2>14. Len(receipts) <= Len(s) /\ Len(receipts) \in Nat /\ Len(s) \in Nat
    BY <1>1, <2>10, <2>13, HasAllIsLonger, SeqDomain
  <2>15. /\ Trim(s) \in Seq(Receipt) /\ Single(Trim(s)) /\ Len(Trim(s)) <= MaxReceipts
         /\ Len(s) >= MaxReceipts => Len(Trim(s)) = MaxReceipts
         /\ Len(s) <= MaxReceipts => Trim(s) = s
    BY <2>10, <2>11, TrimKeeps
  <2>16. CASE Len(s) <= MaxReceipts
    <3>1. \A o : Has(receipts, o) => Has(s, o)
      BY <2>13 DEF Has
    <3> QED BY <2>1, <2>12, <2>14, <2>15, <2>16, <3>1, LedgerBound DEF Succeeds
  <2>17. CASE Len(s) >= MaxReceipts
    BY <2>1, <2>15, <2>17 DEF Succeeds
  <2> QED BY <2>14, <2>16, <2>17, LedgerBound
<1> QED BY <1>2, <1>3

\* Steps that leave the ledger and the outcomes alone.
LEMMA LedgerKept ==
  ASSUME LedgerInv, receipts' = receipts, outcome' = outcome, pc' \notin {"unmark", "unlink"},
         \A o \in Tags : Finished(o) => recs'[o].st \in {"completed", "failed"}
  PROVE  LedgerInv'
BY DEF LedgerInv, FinishedRemembered, Finished, HasReceipt

\* Steps that write the ledger, or forget records for which it stands.
LEMMA LedgerMoves ==
  ASSUME TypeOK, LedgerInv, Succeeds(receipts, receipts'), outcome' = outcome,
         \A o \in Tags : Finished(o) => \/ recs'[o].st \in {"completed", "failed"}
                                        \/ Has(receipts', o) \/ Len(receipts') = MaxReceipts,
         pc' \in {"unmark", "unlink"} => Has(receipts', cur')
  PROVE  LedgerInv'
BY DEF LedgerInv, FinishedRemembered, Finished, HasReceipt, Has, Succeeds

LEMMA SameSucceeds ==
  ASSUME TypeOK, LedgerInv, receipts' = receipts
  PROVE  Succeeds(receipts, receipts')
BY DEF TypeOK, LedgerInv, Succeeds

LEMMA CloseErrorLeaves ==
  ASSUME CloseError
  PROVE  pc' \in {"outer", "idle"}
BY DEF CloseError, Goto, Release

LEMMA LedgerInit == Init => LedgerInv
<1> SUFFICES ASSUME Init PROVE LedgerInv
  OBVIOUS
<1>1. receipts = <<>> /\ Len(receipts) = 0 /\ DOMAIN receipts = {} /\ pc = "idle"
  BY DEF Init
<1>2. \A o \in Tags : outcome[o] = "none"
  BY DEF Init
<1> QED BY <1>1, <1>2, LedgerBound DEF LedgerInv, Single, FinishedRemembered

LEMMA LedgerStep ==
  ASSUME PipelineInv, LedgerInv, [Next]_vars
  PROVE  LedgerInv'
<1>0. TypeOK /\ receipts \in Seq(Receipt) /\ Single(receipts) /\ Len(receipts) <= MaxReceipts
  BY DEF PipelineInv, TypeOK, LedgerInv
<1>1. CASE WriteRecord
  <2>1. pc = "record" /\ cur \in Tags /\ recs[cur].st = "absent"
    BY <1>1 DEF WriteRecord, PipelineInv, AtRecord
  <2>2. \A o \in Tags : Finished(o) => recs'[o].st \in {"completed", "failed"}
    BY <1>0, <1>1, <2>1 DEF WriteRecord, Finished, TypeOK
  <2>3. receipts' = receipts /\ outcome' = outcome /\ pc' \notin {"unmark", "unlink"}
    BY <1>1 DEF WriteRecord, Goto, Release, history
  <2> QED BY <2>2, <2>3, LedgerKept
<1>2. CASE StageApplied
  <2>1. recs' \in {recs, [recs EXCEPT ![cur].plan = plan]}
    BY <1>2 DEF StageApplied
  <2>2. \A o \in Tags : recs'[o].st = recs[o].st
    BY <1>0, <2>1 DEF TypeOK, Record
  <2>3. receipts' = receipts /\ outcome' = outcome /\ pc' \notin {"unmark", "unlink"}
    BY <1>2 DEF StageApplied, Goto, Release, GiveUpApplying, history
  <2> QED BY <2>2, <2>3, LedgerKept DEF Finished
<1>3. CASE CloseRecord
  <2>1. cur \in Tags /\ goal \in {"completed", "failed"}
    BY <1>0, <1>3 DEF CloseRecord, PipelineInv, AtClose, AtWork, Working, Open, TypeOK
  <2>2. receipts' = receipts /\ pc' \notin {"unmark", "unlink"}
    BY <1>3, CloseErrorLeaves DEF CloseRecord, Goto
  <2>3. CASE recs' = recs /\ outcome' = outcome
    BY <2>2, <2>3, LedgerKept DEF Finished
  <2>4. CASE /\ recs' = [recs EXCEPT ![cur].st = goal]
             /\ outcome' = [outcome EXCEPT ![cur] = goal]
    <3>1. \A o \in Tags : \/ recs'[o].st \in {"completed", "failed"}
                          \/ recs'[o] = recs[o] /\ outcome'[o] = outcome[o]
      BY <1>0, <2>1, <2>4 DEF TypeOK, Record
    <3> QED BY <2>2, <3>1 DEF LedgerInv, FinishedRemembered, Finished, HasReceipt
  <2> QED BY <1>3, <2>3, <2>4 DEF CloseRecord
<1>4. CASE ArchiveReceipt
  <2>1. cur \in Tags /\ goal \in {"completed", "failed"}
    BY <1>0, <1>4 DEF ArchiveReceipt, PipelineInv, AtArchive, TypeOK
  <2>2. recs' = recs /\ outcome' = outcome
    BY <1>4 DEF ArchiveReceipt, history
  <2>3. Succeeds(receipts, Archived(cur, goal)) /\ Has(Archived(cur, goal), cur)
    BY <1>0, <2>1, ArchivedSucceeds
  <2>4. CASE receipts' = Archived(cur, goal) /\ Goto("unmark", dlock) /\ UNCHANGED local
    <3>1. cur' = cur
      BY <2>4 DEF local
    <3> QED BY <1>0, <2>2, <2>3, <2>4, <3>1, LedgerMoves DEF Finished
  <2>5. CASE receipts' \in {receipts, Archived(cur, goal)} /\ CloseError
    <3>1. Succeeds(receipts, receipts')
      BY <1>0, <2>3, <2>5, SameSucceeds
    <3> QED BY <1>0, <2>2, <2>5, <3>1, CloseErrorLeaves, LedgerMoves DEF Finished
  <2> QED BY <1>4, <2>4, <2>5 DEF ArchiveReceipt
<1>5. CASE RemoveMarker
  <2>1. recs' = recs /\ outcome' = outcome /\ receipts' = receipts /\ pc = "unmark"
    BY <1>5 DEF RemoveMarker, history
  <2>2. pc' \in {"unmark", "unlink"} => cur' = cur
    BY <1>5, CloseErrorLeaves DEF RemoveMarker, local
  <2>3. HasReceipt(cur)
    BY <2>1 DEF LedgerInv, FinishedRemembered
  <2> QED BY <1>0, <2>1, <2>2, <2>3, SameSucceeds, LedgerMoves DEF Finished, HasReceipt, Has
<1>6. CASE UnlinkRecord
  <2>1. receipts' = receipts /\ outcome' = outcome /\ recs' \in {recs, [recs EXCEPT ![cur] = NoRecord]} /\ pc = "unlink"
    BY <1>6 DEF UnlinkRecord, history
  <2>2. pc' \notin {"unmark", "unlink"}
    BY <1>6, CloseErrorLeaves DEF UnlinkRecord, Goto, Release
  <2>3. HasReceipt(cur)
    BY <2>1 DEF LedgerInv, FinishedRemembered
  <2>4. \A o \in Tags : o # cur => recs'[o] = recs[o]
    BY <1>0, <2>1 DEF TypeOK
  <2>5. \A o \in Tags : Finished(o) => \/ recs'[o].st \in {"completed", "failed"}
                                        \/ Has(receipts', o) \/ Len(receipts') = MaxReceipts
    BY <2>1, <2>3, <2>4 DEF Finished, HasReceipt, Has
  <2> QED BY <1>0, <2>1, <2>2, <2>5, SameSucceeds, LedgerMoves
<1>7. CASE Compact
  <2> DEFINE done == {o \in Tags : Finished(o)}
  <2>1. outcome' = outcome /\ pc' \notin {"unmark", "unlink"}
    BY <1>7 DEF Compact, Release, history
  <2>2. CASE receipts' = receipts /\ recs' = recs
    BY <2>1, <2>2, LedgerKept DEF Finished
  <2>3. CASE receipts' \in Merged(done) /\ \E gone \in SUBSET done :
               recs' = [o \in Tags |-> IF o \in gone THEN NoRecord ELSE recs[o]]
    <3>1. done \in SUBSET Tags /\ \A o \in done : Finished(o)
      OBVIOUS
    <3>2. \A o \in Tags : o \notin done => ~Finished(o)
      OBVIOUS
    <3> HIDE DEF done
    <3>3. Succeeds(receipts, receipts') /\ \A o \in done : Has(receipts', o) \/ Len(receipts') = MaxReceipts
      BY <1>0, <2>3, <3>1, MergedSucceeds
    <3> QED BY <1>0, <2>1, <3>2, <3>3, LedgerMoves
  <2> QED BY <1>7, <2>2, <2>3 DEF Compact
<1>8. CASE UNCHANGED <<recs, receipts, outcome>> /\ pc' \notin {"unmark", "unlink"}
  BY <1>8, LedgerKept DEF Finished
<1>9. CASE UNCHANGED <<recs, receipts, outcome, pc, cur>>
  BY <1>0, <1>9, SameSucceeds, LedgerMoves DEF LedgerInv, FinishedRemembered, Finished, HasReceipt, Has
<1>10. CASE \E p \in Procs : Mutate(p)
  <2>0. PICK p \in Procs : \E q : Transact(p, q)
    BY <1>0, <1>10, MutationIsTransact DEF PipelineInv
  <2>1. PICK q : Transact(p, q)
    BY <2>0
  <2>2. UNCHANGED <<recs, receipts, outcome>> /\ (pc' = "record" \/ pc' = pc)
    BY <2>1 DEF Transact, history
  <2>3. pc = "idle"
    BY <2>1 DEF Transact, PipelineInv, Free
  <2> QED BY <1>8, <2>2, <2>3
<1>11. CASE ApplyAccount \/ Publish \/ RestoreAccount \/ RestoreDone \/ OuterHandler \/ Verify
  BY <1>8, <1>11 DEF ApplyAccount, Publish, RestoreAccount, RestoreDone, OuterHandler, Verify, GiveUpApplying,
     Goto, Release, journal, history, lock
<1>12. CASE ScanMissing \/ ScanFinished \/ ScanOpen \/ Crash
  BY <1>8, <1>12 DEF ScanMissing, ScanFinished, ScanOpen, Crash, Goto, Release, journal, history, lock
<1>13. CASE EditCatalog \/ UNCHANGED vars
  BY <1>9, <1>13 DEF EditCatalog, vars, journal, lock, local, history
<1>14. CASE \E p \in Procs : Refuse(p) \/ Recover(p) \/ AssertReady(p) \/ Project(p)
  BY <1>8, <1>9, <1>14 DEF Refuse, Recover, AssertReady, Project, journal, lock, local, history
<1> QED BY <1>1, <1>2, <1>3, <1>4, <1>5, <1>6, <1>7, <1>10, <1>11, <1>12, <1>13, <1>14 DEF Next, Step

LEMMA LedgerHolds == Spec => []LedgerInv
<1>1. PipelineInv /\ LedgerInv /\ [Next]_vars => LedgerInv'
  BY LedgerStep
<1> QED BY <1>1, LedgerInit, PipelineInvariant, PTL DEF Spec

\* The archive order of _archive_finished_unlocked, receipt, marker, record,
\* and the merge of list_unfinished: the receipt of the operation at hand is
\* there before its marker and record go, however full the ledger is, and until
\* it is full a closed operation has its record or its receipt, whatever fails
\* or crashes in between.
THEOREM OutcomesRemembered == Spec => []FinishedRemembered
<1>1. LedgerInv => FinishedRemembered
  BY DEF LedgerInv
<1> QED BY <1>1, LedgerHolds, PTL

-----------------------------------------------------------------------------
(* Required secrets *)

Value(i) == <<i, "value">>

\* Entry i has its secret in the vault, or an operation of S writes one.
Supplied(v, r, S, i) ==
  v.accts[Value(i)] # Absent \/ \E o \in S : Value(i) \in r[o].plan.accs

\* Every live entry on disk is supplied.
LiveSupplied(m, v, r, S) == \A i \in Live(m) \cap SecretIds : Supplied(v, r, S, i)

\* So is every entry that an operation of S has still to create without
\* writing its secret.
Adopts(q, i) == i \in q.ids /\ Value(i) \notin q.accs /\ q.mb.ent[i] = NoImage

NewSupplied(m, v, r, S) ==
  \A o \in S, i \in SecretIds :
    Adopts(r[o].plan, i) /\ m.ent[i] = NoImage => Supplied(v, r, S, i)

\* What validation leaves of a plan: it removes the secret only of an entry it
\* deletes, an entry whose secret it leaves alone is live or has one, and it
\* does not unmake an entry without a trace.
KeepsSecrets(q) ==
  \A i \in SecretIds :
    /\ Value(i) \in q.accs /\ q.aa[Value(i)] = Absent =>
         ~q.ma.ent[i].live /\ q.ma.ent[i] # NoImage
    /\ i \in q.ids /\ Value(i) \notin q.accs =>
         q.mb.ent[i].live \/ (q.mb.ent[i] = NoImage /\ q.ab[Value(i)] # Absent)
    /\ q.ma.ent[i] = NoImage => q.mb.ent[i] = NoImage

\* The mutation may still be given up, and then supplies nothing.
Revoking == \/ pc \in {"undo", "outerundo"}
            \/ pc \in {"apply", "publish"} /\ mode = "transact"
            \/ pc = "close" /\ goal = "failed"
            \/ pc = "outer" /\ Live(meta) \subseteq Live(plan.mb)

SecretInv ==
  /\ \A o \in Open : KeepsSecrets(recs[o].plan)
  /\ LiveSupplied(meta, vault, recs, Open) /\ NewSupplied(meta, vault, recs, Open)
  /\ pc \in Working \cup {"record"} \/ (pc = "outer" /\ cur \in Open) => KeepsSecrets(plan)
  /\ mode = "transact" /\ pc \in Working \cup {"outer"} => NewSupplied(meta, vault, recs, Others)
  /\ Revoking => LiveSupplied(meta, vault, recs, Others)

LEMMA ValueIn == \A i \in SecretIds : i \in Ids /\ Value(i) \in Accounts
BY VaultAssumption DEF Value, Accounts, Slots

-----------------------------------------------------------------------------
(* What validation leaves of a plan *)

LEMMA PlanForKeeps ==
  ASSUME NEW k, NEW img, NEW c, NEW w,
         \A i \in SecretIds :
           /\ Value(i) \in DOMAIN w /\ w[Value(i)] = Absent => i \in DOMAIN img /\ ~img[i].live
           /\ i \in DOMAIN img /\ Value(i) \notin DOMAIN w =>
                meta.ent[i].live \/ (meta.ent[i] = NoImage /\ accts[Value(i)] # Absent)
           /\ i \in DOMAIN img => img[i] # NoImage
  PROVE  KeepsSecrets(PlanFor(k, img, c, w))
<1> DEFINE q == PlanFor(k, img, c, w)
<1>1. /\ q.ids = DOMAIN img /\ q.accs = DOMAIN w /\ q.mb = meta /\ q.ab = accts
      /\ q.ma.ent = [i \in Ids |-> IF i \in DOMAIN img THEN img[i] ELSE meta.ent[i]]
      /\ q.aa = [a \in Accounts |-> IF a \in DOMAIN w THEN w[a] ELSE accts[a]]
  BY DEF PlanFor
<1> HIDE DEF q
<1>2. ASSUME NEW i \in SecretIds
      PROVE  /\ q.ma.ent[i] = IF i \in DOMAIN img THEN img[i] ELSE meta.ent[i]
             /\ Value(i) \in DOMAIN w => q.aa[Value(i)] = w[Value(i)]
  BY <1>1, <1>2, ValueIn
<1>3. KeepsSecrets(q)
  BY <1>1, <1>2 DEF KeepsSecrets
<1> QED BY <1>3 DEF q

\* _validate_required_secrets on a document: a secret that is written is not
\* empty, one that is not written is there.
LEMMA RequiredOf ==
  ASSUME NEW k \in {"create", "update", "replace_all"}, NEW img, NEW c, NEW w,
         HasRequiredSecrets(PlanFor(k, img, c, w)),
         NEW i \in SecretIds, i \in DOMAIN img, k = "replace_all" => img[i].live
  PROVE  IF Value(i) \in DOMAIN w THEN w[Value(i)] # Absent ELSE accts[Value(i)] # Absent
<1> DEFINE q == PlanFor(k, img, c, w)
<1>1. /\ q.kind = k /\ q.ids = DOMAIN img /\ q.accs = DOMAIN w
      /\ q.ma.ent = [j \in Ids |-> IF j \in DOMAIN img THEN img[j] ELSE meta.ent[j]]
      /\ q.aa = [a \in Accounts |-> IF a \in DOMAIN w THEN w[a] ELSE accts[a]]
  BY DEF PlanFor
<1>0. HasRequiredSecrets(q)
  OBVIOUS
<1> HIDE DEF q
<1>2. i \in NeedsSecret(q)
  <2>1. i \in Ids
    BY ValueIn
  <2>2. q.ma.ent[i] = img[i]
    BY <1>1, <2>1
  <2> QED BY <1>1, <2>1, <2>2 DEF NeedsSecret, Live
<1>3. IF Value(i) \in q.accs THEN q.aa[Value(i)] # Absent ELSE accts[Value(i)] # Absent
  BY <1>0, <1>2 DEF HasRequiredSecrets, Value
<1> QED BY <1>1, <1>3, ValueIn

\* Every mutation of the service keeps the secrets it needs.
LEMMA MutationKeeps ==
  ASSUME NEW p \in Procs, Mutate(p)
  PROVE  \E q : KeepsSecrets(q) /\ Transact(p, q)
<1> DEFINE t == tag + 1
<1>0. /\ LiveImage(t).live /\ LiveImage(t) # NoImage
      /\ \A s \in Stamps : Tombstone(s) # NoImage /\ ~Tombstone(s).live
  <2>1. LiveImage(t).live /\ ~NoImage.live
    BY DEF LiveImage, NoImage
  <2>2. \A s \in Stamps : Tombstone(s).tag = s /\ ~Tombstone(s).live /\ s # 0
    BY JournalAssumption, VaultAssumption DEF Tombstone, Tags
  <2>3. NoImage.tag = 0
    BY DEF NoImage
  <2> QED BY <2>1, <2>2, <2>3
<1>l. \A i \in Live(meta) : i \in Ids /\ meta.ent[i].live /\ meta.ent[i] # NoImage
  BY DEF Live, NoImage
<1>w. ASSUME NEW I, NEW input, NEW i, Value(i) \in DOMAIN WritesFor(t, I, input)
      PROVE  i \in I
  BY <1>w DEF WritesFor, Value
<1> HIDE DEF t
<1>1. CASE CreateEntry(p)
  <2>1. PICK i \in FreshIds, input \in SecretInputs :
          Transact(p, PlanFor("create", [x \in {i} |-> LiveImage(t)], meta.cat,
                              WritesFor(t, {i}, input)))
    BY <1>1 DEF CreateEntry, t
  <2> DEFINE img == [x \in {i} |-> LiveImage(t)]
             w == WritesFor(t, {i}, input)
             q == PlanFor("create", img, meta.cat, w)
  <2>2. Transact(p, q) /\ HasRequiredSecrets(q)
    BY <2>1 DEF Transact
  <2>3. DOMAIN img = {i} /\ img[i] = LiveImage(t) /\ meta.ent[i] = NoImage
    BY DEF FreshIds
  <2>4. \A j : Value(j) \in DOMAIN w => j = i
    BY <1>w
  <2> HIDE DEF img, w
  <2>5. i \in SecretIds => IF Value(i) \in DOMAIN w THEN w[Value(i)] # Absent ELSE accts[Value(i)] # Absent
    BY <2>2, <2>3, RequiredOf
  <2>6. KeepsSecrets(q)
    BY <1>0, <2>3, <2>4, <2>5, PlanForKeeps
  <2> QED BY <2>2, <2>6
<1>2. CASE UpdateEntry(p)
  <2>0. PICK i \in Live(meta), input \in SecretInputs :
          \E im \in UpdatedImages(i, t), c \in CatalogsAfter(t) :
            Transact(p, PlanFor("update", [x \in {i} |-> im], c, WritesFor(t, {i}, input)))
    BY <1>2 DEF UpdateEntry, t
  <2>1. PICK im \in UpdatedImages(i, t), c \in CatalogsAfter(t) :
          Transact(p, PlanFor("update", [x \in {i} |-> im], c, WritesFor(t, {i}, input)))
    BY <2>0
  <2> DEFINE img == [x \in {i} |-> im]
             w == WritesFor(t, {i}, input)
             q == PlanFor("update", img, c, w)
  <2>2. Transact(p, q) /\ HasRequiredSecrets(q)
    BY <2>1 DEF Transact
  <2>3. DOMAIN img = {i} /\ img[i] # NoImage /\ meta.ent[i].live
    BY <1>0, <1>l DEF UpdatedImages
  <2>4. \A j : Value(j) \in DOMAIN w => j = i
    BY <1>w
  <2> HIDE DEF img, w
  <2>5. i \in SecretIds => IF Value(i) \in DOMAIN w THEN w[Value(i)] # Absent ELSE accts[Value(i)] # Absent
    BY <2>2, <2>3, RequiredOf
  <2>6. KeepsSecrets(q)
    BY <2>3, <2>4, <2>5, PlanForKeeps
  <2> QED BY <2>2, <2>6
<1>3. CASE DeleteEntry(p)
  <2> DEFINE c == IF Schema = 3 THEN t ELSE meta.cat
  <2>0. PICK i \in Live(meta), s \in Stamps : \E deps \in SUBSET (Live(meta) \ {i}) :
          Transact(p, PlanFor("delete",
                     [x \in deps \cup {i} |-> IF x = i THEN Tombstone(s) ELSE LiveImage(t)],
                     c, [a \in {i} \X Slots |-> Absent]))
    BY <1>3 DEF DeleteEntry, t
  <2>1. PICK deps \in SUBSET (Live(meta) \ {i}) :
          Transact(p, PlanFor("delete",
                     [x \in deps \cup {i} |-> IF x = i THEN Tombstone(s) ELSE LiveImage(t)],
                     c, [a \in {i} \X Slots |-> Absent]))
    BY <2>0
  <2> DEFINE img == [x \in deps \cup {i} |-> IF x = i THEN Tombstone(s) ELSE LiveImage(t)]
             w == [a \in {i} \X Slots |-> Absent]
             q == PlanFor("delete", img, c, w)
  <2>2. Transact(p, q)
    BY <2>1
  <2>3. /\ DOMAIN img = deps \cup {i} /\ img[i] = Tombstone(s)
        /\ \A x \in DOMAIN img : img[x] # NoImage /\ meta.ent[x].live
    BY <1>0, <1>l
  <2>4. \A j : Value(j) \in DOMAIN w => j = i
    BY DEF Value
  <2> HIDE DEF img, w
  <2>5. KeepsSecrets(q)
    BY <1>0, <2>3, <2>4, PlanForKeeps
  <2> QED BY <2>2, <2>5
<1>4. CASE BulkCreate(p)
  <2>1. PICK new \in (SUBSET FreshIds) \ {{}}, input \in SecretInputs :
          Transact(p, PlanFor("replace_all", [x \in new |-> LiveImage(t)], meta.cat,
                              WritesFor(t, new, input)))
    BY <1>4 DEF BulkCreate, t
  <2> DEFINE img == [x \in new |-> LiveImage(t)]
             w == WritesFor(t, new, input)
             q == PlanFor("replace_all", img, meta.cat, w)
  <2>2. Transact(p, q) /\ HasRequiredSecrets(q)
    BY <2>1 DEF Transact
  <2>3. DOMAIN img = new /\ \A i \in new : img[i] = LiveImage(t) /\ meta.ent[i] = NoImage
    BY DEF FreshIds
  <2>4. \A j : Value(j) \in DOMAIN w => j \in new
    BY <1>w
  <2> HIDE DEF img, w
  <2>5. \A i \in SecretIds : i \in new =>
          IF Value(i) \in DOMAIN w THEN w[Value(i)] # Absent ELSE accts[Value(i)] # Absent
    BY <1>0, <2>2, <2>3, RequiredOf
  <2>6. KeepsSecrets(q)
    BY <1>0, <2>3, <2>4, <2>5, PlanForKeeps
  <2> QED BY <2>2, <2>6
<1>5. CASE ApplySnapshot(p)
  <2> DEFINE writes(win, del, input) ==
               [a \in (win \cup del) \X Slots |->
                  IF a[1] \in win /\ input[a[2]] = "set" THEN t ELSE Absent]
  <2>1. PICK win \in SUBSET Ids, del \in SUBSET Live(meta),
             input \in [Slots -> {"set", "remove"}], s \in Stamps :
          /\ win \cap del = {} /\ win \cup del # {}
          /\ \A a \in DOMAIN writes(win, del, input) : views[p].accts[a] = accts[a]
          /\ Transact(p, PlanFor("replace_all",
                     [x \in win \cup del |-> IF x \in win THEN LiveImage(t) ELSE Tombstone(s)],
                     meta.cat, writes(win, del, input)))
    BY <1>5, Zenon DEF ApplySnapshot, t
  <2> DEFINE img == [x \in win \cup del |-> IF x \in win THEN LiveImage(t) ELSE Tombstone(s)]
             w == writes(win, del, input)
             q == PlanFor("replace_all", img, meta.cat, w)
  <2>2. Transact(p, q) /\ HasRequiredSecrets(q)
    BY <2>1 DEF Transact
  <2>3. /\ DOMAIN img = win \cup del
        /\ \A i \in win : img[i] = LiveImage(t)
        /\ \A i \in del : img[i] = Tombstone(s)
    BY <2>1
  <2>4. \A j : Value(j) \in DOMAIN w <=> j \in win \cup del
    BY DEF Value, Slots
  <2> HIDE DEF img, w
  <2>5. \A i \in SecretIds : i \in win => w[Value(i)] # Absent
    BY <1>0, <2>2, <2>3, <2>4, RequiredOf
  <2>6. KeepsSecrets(q)
    BY <1>0, <2>3, <2>4, <2>5, PlanForKeeps
  <2> QED BY <2>2, <2>6
<1> QED
  BY <1>1, <1>2, <1>3, <1>4, <1>5 DEF Mutate

\* So does a delete that recovery replays.
LEMMA RestampKeeps ==
  ASSUME NEW q \in Plan, NEW s \in Stamps, KeepsSecrets(q)
  PROVE  KeepsSecrets(Restamp(q, s))
<1> DEFINE r == Restamp(q, s)
           ent == [i \in Ids |-> IF i \in q.ids /\ ~q.ma.ent[i].live THEN Tombstone(s) ELSE q.ma.ent[i]]
<1>0. Tombstone(s) # NoImage /\ ~Tombstone(s).live
  <2>1. Tombstone(s).tag = s /\ ~Tombstone(s).live /\ s # 0 /\ NoImage.tag = 0
    BY JournalAssumption, VaultAssumption DEF Tombstone, Tags, NoImage
  <2> QED BY <2>1
<1>1. CASE q.kind # "delete"
  BY <1>1 DEF Restamp
<1>2. CASE q.kind = "delete"
  <2>1. r = [q EXCEPT !.ma.ent = ent]
    BY <1>2 DEF Restamp
  <2>2. /\ r.ids = q.ids /\ r.accs = q.accs /\ r.mb = q.mb /\ r.ab = q.ab /\ r.aa = q.aa
        /\ r.ma.ent = ent
    BY <2>1 DEF Plan, Meta
  <2> HIDE DEF r
  <2>3. \A i \in SecretIds : r.ma.ent[i] = IF i \in q.ids /\ ~q.ma.ent[i].live THEN Tombstone(s) ELSE q.ma.ent[i]
    BY <2>2, ValueIn
  <2>4. KeepsSecrets(r)
    BY <1>0, <2>2, <2>3 DEF KeepsSecrets
  <2> QED BY <2>4 DEF r
<1> QED BY <1>1, <1>2

-----------------------------------------------------------------------------
(* The steps *)

\* What SecretInv says of the disk.
Supplies ==
  /\ \A o \in Open : KeepsSecrets(recs[o].plan)
  /\ LiveSupplied(meta, vault, recs, Open) /\ NewSupplied(meta, vault, recs, Open)

\* More operations supply no less.
LEMMA MoreSupply ==
  ASSUME NEW m, NEW v, NEW r, NEW S, NEW n, NEW w, NEW t, NEW T,
         S \subseteq T, v.accts = w.accts, \A o \in S : t[o].plan = r[o].plan,
         Live(n) \subseteq Live(m)
  PROVE  /\ \A i : Supplied(v, r, S, i) => Supplied(w, t, T, i)
         /\ LiveSupplied(m, v, r, S) => LiveSupplied(n, w, t, T)
<1>1. \A i : Supplied(v, r, S, i) => Supplied(w, t, T, i)
  BY DEF Supplied
<1> QED BY <1>1 DEF LiveSupplied

LEMMA SameNew ==
  ASSUME NEW m, NEW v, NEW r, NEW S, NEW n, NEW w, NEW t,
         v.accts = w.accts, \A o \in S : t[o].plan = r[o].plan,
         \A i \in SecretIds : n.ent[i] = NoImage => m.ent[i] = NoImage
  PROVE  NewSupplied(m, v, r, S) => NewSupplied(n, w, t, S)
BY DEF NewSupplied, Supplied

\* A step that leaves the records, and of the metadata what lives and what
\* never did, leaves what is supplied.
LEMMA SupplyFrame ==
  ASSUME Supplies, Open' = Open, \A o \in Open : recs'[o].plan = recs[o].plan,
         vault'.accts = vault.accts, Live(meta') \subseteq Live(meta),
         \A i \in SecretIds : meta'.ent[i] = NoImage => meta.ent[i] = NoImage
  PROVE  /\ Supplies'
         /\ LiveSupplied(meta, vault, recs, Others) => LiveSupplied(meta', vault', recs', Others)
         /\ NewSupplied(meta, vault, recs, Others) => NewSupplied(meta', vault', recs', Others)
<1>1. Others \subseteq Open
  BY DEF Others
<1>2. LiveSupplied(meta', vault', recs', Open)
  BY MoreSupply DEF Supplies
<1>3. NewSupplied(meta', vault', recs', Open)
  BY SameNew DEF Supplies
<1>4. \A o \in Open : KeepsSecrets(recs'[o].plan)
  BY DEF Supplies
<1>5. Supplies'
  BY <1>2, <1>3, <1>4 DEF Supplies
<1>6. LiveSupplied(meta, vault, recs, Others) => LiveSupplied(meta', vault', recs', Others)
  BY <1>1, MoreSupply
<1>7. NewSupplied(meta, vault, recs, Others) => NewSupplied(meta', vault', recs', Others)
  BY <1>1, SameNew
<1> QED BY <1>5, <1>6, <1>7

LEMMA DiskKept ==
  ASSUME SecretInv, UNCHANGED <<meta, recs, vault>>
  PROVE  /\ Supplies' /\ Open' = Open
         /\ LiveSupplied(meta, vault, recs, Others) => LiveSupplied(meta', vault', recs', Others)
         /\ NewSupplied(meta, vault, recs, Others) => NewSupplied(meta', vault', recs', Others)
<1>1. Open' = Open
  BY DEF Open
<1> QED BY <1>1, SupplyFrame DEF SecretInv, Supplies

\* Once the mutation is over, what the disk says is all.
LEMMA OverKeeps ==
  ASSUME Supplies', pc' \notin Working \cup {"record", "outer"}
  PROVE  SecretInv'
BY DEF SecretInv, Supplies, Revoking, Working

LEMMA ReleaseKeeps ==
  ASSUME Supplies', NEW ph, Release(ph)
  PROVE  SecretInv'
BY OverKeeps DEF Release, Working

\* The same mutation goes on, with the same records.
LEMMA GoesOn ==
  ASSUME SecretInv, Supplies', Open' = Open, UNCHANGED <<cur, plan, mode>>,
         cur \in Open /\ pc \in Working \cup {"outer"} => pc' \in Working \cup {"outer"},
         pc' \in Working => cur \in Open /\ pc \in Working \cup {"outer"},
         pc' # "record",
         pc' = "outer" /\ cur \in Open => pc \in Working \cup {"outer"},
         mode = "transact" /\ pc' \in Working \cup {"outer"} => NewSupplied(meta', vault', recs', Others),
         Revoking' => LiveSupplied(meta', vault', recs', Others)
  PROVE  SecretInv'
<1>1. Others' = Others
  BY DEF Others
<1>2. pc' \in Working \cup {"record"} \/ (pc' = "outer" /\ cur' \in Open') => KeepsSecrets(plan')
  BY DEF SecretInv
<1> QED BY <1>1, <1>2 DEF SecretInv, Supplies

LEMMA SecretInit == Init => SecretInv
<1> SUFFICES ASSUME Init PROVE SecretInv
  OBVIOUS
<1>1. Open = {}
  BY DEF Init, Open, NoRecord
<1>2. Live(meta) = {}
  BY DEF Init, Live, EmptyMeta, NoImage
<1>3. pc = "idle"
  BY DEF Init
<1> QED BY <1>1, <1>2, <1>3 DEF SecretInv, LiveSupplied, NewSupplied, Revoking, Working

LEMMA TransactKeeps ==
  ASSUME PipelineInv, SecretInv, NEW p \in Procs, NEW q, KeepsSecrets(q), Transact(p, q)
  PROVE  SecretInv'
<1>1. UNCHANGED <<meta, recs, vault>> /\ pc = "idle"
  BY DEF Transact, disk, history, PipelineInv, Free
<1>2. Supplies'
  BY <1>1, DiskKept
<1>3. CASE pc' = "record" /\ plan' = q
  BY <1>2, <1>3 DEF SecretInv, Supplies, Revoking, Working
<1>4. CASE pc' = pc
  BY <1>1, <1>2, <1>4, OverKeeps DEF Working
<1> QED BY <1>3, <1>4 DEF Transact

LEMMA WriteRecordKeeps == ASSUME PipelineInv, SecretInv, WriteRecord PROVE SecretInv'
<1> DEFINE written == [recs EXCEPT ![cur] = [st |-> "pending", plan |-> plan]]
<1>0. /\ TypeOK /\ pc = "record" /\ cur \in Tags /\ recs[cur].st = "absent" /\ mode = "transact"
      /\ meta = plan.mb /\ accts = plan.ab /\ GoodPlan(plan) /\ SecretsCovered(accts, Open)
      /\ UNCHANGED <<meta, vault>> /\ KeepsSecrets(plan)
  BY DEF WriteRecord, PipelineInv, AtRecord, Covered, disk, history, SecretInv
<1>1. CASE recs' = recs
  <2>1. Supplies'
    BY <1>0, <1>1, DiskKept
  <2>2. recs # written
    BY <1>0 DEF TypeOK
  <2>3. \E ph : Release(ph)
    BY <1>1, <2>2 DEF WriteRecord
  <2> QED BY <2>1, <2>3, ReleaseKeeps
<1>2. CASE recs' = written
  <2>1. /\ cur \notin Open /\ Open' = Open \cup {cur}
        /\ recs'[cur].plan = plan /\ \A o \in Open : recs'[o].plan = recs[o].plan
    BY <1>0, <1>2 DEF Open, TypeOK
  <2>2. LiveSupplied(meta', vault', recs', Open) /\ LiveSupplied(meta', vault', recs', Open')
    BY <1>0, <2>1, MoreSupply DEF SecretInv
  <2>3. NewSupplied(meta', vault', recs', Open)
    BY <1>0, <2>1, SameNew DEF SecretInv
  <2>4. \A i \in SecretIds : Supplied(vault', recs', Open, i) => Supplied(vault', recs', Open', i)
    BY <2>1 DEF Supplied
  <2>5. ASSUME NEW i \in SecretIds, Adopts(plan, i)
        PROVE  Supplied(vault', recs', Open, i)
    <3>1. accts[Value(i)] # Absent
      <4>1. ~NoImage.live
        BY DEF NoImage
      <4> QED BY <1>0, <2>5, <4>1 DEF KeepsSecrets, Adopts
    <3>2. vault.accts[Value(i)] # Absent \/ \E o \in Open : Value(i) \in recs[o].plan.accs
      BY <1>0, <3>1, ValueIn DEF SecretsCovered
    <3> QED BY <1>0, <2>1, <3>2 DEF Supplied
  <2>6. NewSupplied(meta', vault', recs', Open')
    BY <2>1, <2>3, <2>4, <2>5 DEF NewSupplied
  <2>7. Supplies'
    BY <1>0, <2>1, <2>2, <2>6 DEF Supplies, SecretInv
  <2>8. CASE \E ph : Release(ph)
    BY <2>7, <2>8, ReleaseKeeps
  <2>9. CASE pc' = "apply" /\ UNCHANGED <<plan, mode, cur, goal>>
    <3>1. Others' = Open
      BY <2>1, <2>9 DEF Others
    <3> QED BY <1>0, <2>2, <2>3, <2>7, <2>9, <3>1 DEF SecretInv, Supplies
  <2> QED BY <2>8, <2>9 DEF WriteRecord, Goto
<1> QED BY <1>1, <1>2 DEF WriteRecord

\* The steps between two writes of the metadata or the records.
LEMMA QuietKeeps ==
  ASSUME PipelineInv, SecretInv,
         ApplyAccount \/ RestoreAccount \/ RestoreDone \/ OuterHandler \/ Verify
  PROVE  SecretInv'
<1>0. UNCHANGED <<meta, recs, vault>>
  BY DEF ApplyAccount, RestoreAccount, RestoreDone, OuterHandler, Verify, disk, journal, history
<1>1. /\ Supplies' /\ Open' = Open
      /\ LiveSupplied(meta, vault, recs, Others) => LiveSupplied(meta', vault', recs', Others)
      /\ NewSupplied(meta, vault, recs, Others) => NewSupplied(meta', vault', recs', Others)
  BY <1>0, DiskKept
<1>2. TypeOK /\ AtWork /\ AtApply /\ AtUndo /\ AtOuter /\ AtVerify
  BY DEF PipelineInv
<1>3. CASE \E ph : Release(ph)
  BY <1>1, <1>3, ReleaseKeeps
<1>4. CASE ApplyAccount /\ pc' = pc /\ UNCHANGED <<mode, goal, cur, plan>>
  BY <1>1, <1>2, <1>4, GoesOn DEF ApplyAccount, AtWork, Working, Revoking, SecretInv
<1>5. CASE ApplyAccount /\ mode = "transact" /\ pc' = "undo" /\ UNCHANGED <<mode, goal, cur, plan>>
  BY <1>1, <1>2, <1>5, GoesOn DEF ApplyAccount, AtWork, Working, Revoking, SecretInv
<1>6. CASE RestoreAccount
  <2>1. pc \in {"undo", "outerundo"} /\ pc' = pc /\ UNCHANGED <<mode, goal, cur, plan>>
    BY <1>6 DEF RestoreAccount, lock
  <2> QED BY <1>1, <1>2, <2>1, GoesOn DEF AtWork, AtUndo, Working, Revoking, SecretInv
<1>7. CASE RestoreDone /\ pc' \in {"close", "outer"} /\ UNCHANGED <<mode, cur, plan>>
  <2>1. pc \in {"undo", "outerundo"}
    BY <1>7 DEF RestoreDone
  <2> QED BY <1>1, <1>2, <1>7, <2>1, GoesOn DEF AtWork, AtUndo, Working, Revoking, SecretInv
<1>8. CASE OuterHandler /\ cur \in Open /\ meta = plan.mb /\ pc' = "outerundo" /\ UNCHANGED <<mode, goal, cur, plan>>
  <2>1. pc = "outer"
    BY <1>8 DEF OuterHandler
  <2> QED BY <1>1, <1>2, <1>8, <2>1, GoesOn DEF AtOuter, Working, Revoking, SecretInv
<1>9. CASE Verify /\ goal' = "completed" /\ pc' = "close" /\ UNCHANGED <<mode, cur, plan>>
  <2>1. pc = "verify"
    BY <1>9 DEF Verify
  <2> QED BY <1>1, <1>2, <1>9, <2>1, GoesOn DEF AtWork, Working, Revoking, SecretInv
<1>10. CASE ApplyAccount
  BY <1>3, <1>4, <1>5, <1>10 DEF ApplyAccount, GiveUpApplying, Goto, lock
<1>11. CASE RestoreDone
  BY <1>3, <1>7, <1>11 DEF RestoreDone, Goto, local
<1>12. CASE OuterHandler
  BY <1>3, <1>8, <1>12 DEF OuterHandler, Goto
<1>13. CASE Verify
  BY <1>3, <1>9, <1>13 DEF Verify, Goto
<1> QED BY <1>6, <1>10, <1>11, <1>12, <1>13

\* stage() may change the document of the operation, but no account in it.
LEMMA StageAppliedKeeps == ASSUME PipelineInv, SecretInv, StageApplied PROVE SecretInv'
<1> DEFINE staged == [recs EXCEPT ![cur].plan = plan]
<1>0. /\ TypeOK /\ pc = "apply" /\ cur \in Open /\ cur \in Tags /\ SameDocument(recs[cur].plan, plan)
      /\ (mode = "transact" => plan = recs[cur].plan) /\ KeepsSecrets(plan)
      /\ UNCHANGED <<meta, vault>> /\ recs' \in {recs, staged}
  BY DEF StageApplied, PipelineInv, AtWork, AtApply, Working, disk, history, SecretInv, Open
<1>1. /\ Open' = Open /\ \A o \in Open : o # cur => recs'[o].plan = recs[o].plan
      /\ recs'[cur].plan \in {recs[cur].plan, plan}
  BY <1>0 DEF Open, TypeOK, Record
<1>2. \A o \in Open : /\ recs'[o].plan.accs = recs[o].plan.accs
                      /\ \A i : Adopts(recs'[o].plan, i) => Adopts(recs[o].plan, i)
  BY <1>0, <1>1 DEF SameDocument, Adopts
<1>3. \A i : /\ Supplied(vault, recs, Open, i) => Supplied(vault', recs', Open, i)
             /\ Supplied(vault, recs, Others, i) => Supplied(vault', recs', Others, i)
  BY <1>0, <1>2 DEF Supplied, Others
<1>4. LiveSupplied(meta', vault', recs', Open) /\ NewSupplied(meta', vault', recs', Open)
  BY <1>0, <1>2, <1>3 DEF SecretInv, LiveSupplied, NewSupplied
<1>5. Supplies'
  BY <1>0, <1>1, <1>4 DEF SecretInv, Supplies
<1>6. /\ LiveSupplied(meta, vault, recs, Others) => LiveSupplied(meta', vault', recs', Others)
      /\ NewSupplied(meta, vault, recs, Others) => NewSupplied(meta', vault', recs', Others)
  BY <1>0, <1>2, <1>3 DEF LiveSupplied, NewSupplied, Others
<1>7. CASE \E ph : Release(ph)
  BY <1>5, <1>7, ReleaseKeeps
<1>8. CASE pc' = "verify" /\ UNCHANGED <<mode, goal, cur, plan>>
  BY <1>0, <1>1, <1>5, <1>6, <1>8, GoesOn DEF Working, Revoking, SecretInv
<1>9. CASE pc' = "publish" /\ UNCHANGED <<mode, goal, cur, plan>>
  BY <1>0, <1>1, <1>5, <1>6, <1>9, GoesOn DEF Working, Revoking, SecretInv
<1>10. CASE mode = "transact" /\ pc' = "undo" /\ UNCHANGED <<mode, goal, cur, plan>>
  BY <1>0, <1>1, <1>5, <1>6, <1>10, GoesOn DEF Working, Revoking, SecretInv
<1> QED BY <1>7, <1>8, <1>9, <1>10 DEF StageApplied, Goto, GiveUpApplying, local

\* What becomes visible has its secret: it was live, or the plan writes it, or
\* the plan found it there.
LEMMA PublishKeeps == ASSUME PipelineInv, SecretInv, Publish PROVE SecretInv'
<1>0. /\ TypeOK /\ pc = "publish" /\ cur \in Open /\ plan = recs[cur].plan /\ meta = plan.mb
      /\ GoodPlan(plan) /\ KeepsSecrets(plan) /\ UNCHANGED <<recs, vault>> /\ meta' \in {meta, plan.ma}
      /\ mode \in {"transact", "forward"}
  BY DEF Publish, PipelineInv, AtWork, AtApply, Working, journal, SecretInv
<1>1. Open' = Open
  BY <1>0 DEF Open
<1>2. \A i \in SecretIds : meta'.ent[i] = NoImage => meta.ent[i] = NoImage
  BY <1>0 DEF KeepsSecrets
<1>3. NewSupplied(meta', vault', recs', Open)
  BY <1>0, <1>2, SameNew DEF SecretInv
<1>4. ASSUME NEW i \in Live(meta') \cap SecretIds
      PROVE  Supplied(vault', recs', Open, i)
  <2>1. CASE i \in Live(meta)
    BY <1>0, <2>1 DEF SecretInv, LiveSupplied, Supplied
  <2>2. CASE i \notin Live(meta)
    <3>1. i \in Ids /\ plan.ma.ent[i].live /\ ~plan.mb.ent[i].live
      BY <1>0, <1>4, <2>2 DEF Live
    <3>2. i \in plan.ids
      BY <1>0, <3>1 DEF GoodPlan
    <3>3. CASE Value(i) \in plan.accs
      BY <1>0, <3>3 DEF Supplied
    <3>4. CASE Value(i) \notin plan.accs
      <4>1. plan.mb.ent[i] = NoImage
        BY <1>0, <1>4, <3>1, <3>2, <3>4 DEF KeepsSecrets
      <4> QED BY <1>0, <1>4, <3>2, <3>4, <4>1 DEF SecretInv, NewSupplied, Adopts, Supplied
    <3> QED BY <3>3, <3>4
  <2> QED BY <2>1, <2>2
<1>5. Supplies'
  BY <1>0, <1>1, <1>3, <1>4 DEF Supplies, LiveSupplied, SecretInv
<1>6. NewSupplied(meta, vault, recs, Others) => NewSupplied(meta', vault', recs', Others)
  BY <1>0, <1>2, SameNew
<1>7. CASE \E ph : Release(ph)
  BY <1>5, <1>7, ReleaseKeeps
<1>8. CASE pc' = "verify" /\ UNCHANGED <<mode, goal, cur, plan>>
  BY <1>0, <1>1, <1>5, <1>6, <1>8, GoesOn DEF Working, Revoking, SecretInv
<1>9. CASE mode = "transact" /\ pc' = "outer" /\ UNCHANGED <<mode, goal, cur, plan>>
  <2>1. LiveSupplied(meta, vault, recs, Others)
    BY <1>0, <1>9 DEF SecretInv, Revoking
  <2>2. Live(meta') \subseteq Live(meta) => LiveSupplied(meta', vault', recs', Others)
    BY <1>0, <2>1, MoreSupply
  <2>3. Revoking' => LiveSupplied(meta', vault', recs', Others)
    BY <1>0, <1>9, <2>2 DEF Revoking
  <2>4. NewSupplied(meta', vault', recs', Others)
    BY <1>0, <1>6, <1>9 DEF SecretInv, Working
  <2> QED BY <1>0, <1>1, <1>5, <1>9, <2>3, <2>4, GoesOn DEF Working
<1> QED BY <1>7, <1>8, <1>9 DEF Publish, Goto, local

\* A close that fails leaves the lock or goes to the outer handler.
LEMMA CloseErrorKeeps ==
  ASSUME SecretInv, Supplies', CloseError, Others' \subseteq Others, Open' \subseteq Open,
         cur \in Open' => pc = "close",
         LiveSupplied(meta', vault', recs', Others') \/ goal # "failed",
         NewSupplied(meta', vault', recs', Others') \/ mode # "transact"
  PROVE  SecretInv'
<1>1. CASE \E ph : Release(ph)
  BY <1>1, ReleaseKeeps
<1>2. CASE mode = "transact" /\ goal = "failed" /\ pc' = "outer" /\ UNCHANGED <<mode, goal, cur, plan>>
  <2>1. cur' \in Open' => KeepsSecrets(plan')
    BY <1>2 DEF SecretInv, Working
  <2> QED BY <1>2, <2>1 DEF SecretInv, Supplies, Working
<1> QED BY <1>1, <1>2 DEF CloseError, Goto, local

LEMMA CloseRecordKeeps == ASSUME PipelineInv, SecretInv, CloseRecord PROVE SecretInv'
<1> DEFINE closed == [recs EXCEPT ![cur].st = goal]
<1>0. /\ TypeOK /\ pc = "close" /\ cur \in Open /\ cur \in Tags /\ KeepsSecrets(plan)
      /\ mode \in {"transact", "forward", "confirm"} /\ UNCHANGED meta
      /\ (goal = "completed" => meta = plan.ma /\ plan = recs[cur].plan)
      /\ (goal = "failed" => mode = "transact") /\ goal \in {"completed", "failed"}
  BY DEF CloseRecord, PipelineInv, AtWork, AtClose, Working, disk, SecretInv, Open, TypeOK
<1>n. mode = "transact" => NewSupplied(meta, vault, recs, Others)
  BY <1>0 DEF SecretInv, Working
<1>l. goal = "failed" => LiveSupplied(meta, vault, recs, Others)
  BY <1>0 DEF SecretInv, Revoking
<1>1. CASE UNCHANGED <<recs, vault>> /\ CloseError
  <2>1. /\ Supplies' /\ Open' = Open
        /\ LiveSupplied(meta, vault, recs, Others) => LiveSupplied(meta', vault', recs', Others)
        /\ NewSupplied(meta, vault, recs, Others) => NewSupplied(meta', vault', recs', Others)
    BY <1>0, <1>1, DiskKept
  <2>2. CASE \E ph : Release(ph)
    BY <2>1, <2>2, ReleaseKeeps
  <2>3. CASE cur' = cur
    <3>1. Others' = Others
      BY <2>1, <2>3 DEF Others
    <3> QED BY <1>0, <1>1, <1>n, <1>l, <2>1, <3>1, CloseErrorKeeps
  <2> QED BY <1>1, <2>2, <2>3 DEF CloseError, local
<1>2. CASE /\ recs' = closed
           /\ vault' = IF goal = "completed" THEN Effect(recs[cur].plan, vault) ELSE vault
           /\ CloseError \/ (pc' = "archive" /\ UNCHANGED local)
  <2>1. Open' = Others /\ \A o \in Others : recs'[o].plan = recs[o].plan
    BY <1>0, <1>2 DEF Open, Others, TypeOK, Record
  <2>2. LiveSupplied(meta', vault', recs', Others) /\ NewSupplied(meta', vault', recs', Others)
    <3>1. CASE goal = "failed"
      <4>1. vault' = vault /\ meta' = meta
        BY <1>0, <1>2, <3>1
      <4>2. LiveSupplied(meta, vault, recs, Others) /\ NewSupplied(meta, vault, recs, Others)
        BY <1>0, <1>n, <1>l, <3>1
      <4> QED BY <2>1, <4>1, <4>2, MoreSupply, SameNew
    <3>2. CASE goal = "completed"
      <4>1. \A i \in SecretIds : vault'.accts[Value(i)] = IF Value(i) \in plan.accs THEN plan.aa[Value(i)]
                                                                             ELSE vault.accts[Value(i)]
        BY <1>0, <1>2, <3>2, ValueIn DEF Effect
      <4>2. ASSUME NEW i \in SecretIds, Supplied(vault, recs, Open, i),
                   meta.ent[i].live \/ meta.ent[i] = NoImage
            PROVE  Supplied(vault', recs', Others, i)
        <5>1. CASE Value(i) \in plan.accs
          BY <1>0, <3>2, <4>1, <4>2, <5>1 DEF KeepsSecrets, Supplied
        <5>2. CASE Value(i) \notin plan.accs
          BY <1>0, <2>1, <3>2, <4>1, <4>2, <5>2 DEF Supplied, Others
        <5> QED BY <5>1, <5>2
      <4>3. LiveSupplied(meta', vault', recs', Others)
        BY <1>0, <4>2 DEF SecretInv, LiveSupplied, Live
      <4>4. NewSupplied(meta', vault', recs', Others)
        BY <1>0, <2>1, <4>2 DEF SecretInv, NewSupplied, Others
      <4> QED BY <4>3, <4>4
    <3> QED BY <1>0, <3>1, <3>2
  <2>3. Supplies'
    BY <2>1, <2>2 DEF Supplies, SecretInv, Others
  <2>4. CASE pc' = "archive"
    BY <2>3, <2>4, OverKeeps DEF Working
  <2>5. CASE \E ph : Release(ph)
    BY <2>3, <2>5, ReleaseKeeps
  <2>6. CASE CloseError /\ cur' = cur
    <3>1. Others' = Others
      BY <2>1, <2>6 DEF Others
    <3> QED BY <2>1, <2>2, <2>3, <2>6, <3>1, CloseErrorKeeps DEF Others
  <2> QED BY <1>2, <2>4, <2>5, <2>6 DEF CloseError, local
<1> QED BY <1>1, <1>2 DEF CloseRecord, Goto

\* The archive touches closed records only.
LEMMA ArchiveKeeps ==
  ASSUME PipelineInv, SecretInv, ArchiveReceipt \/ RemoveMarker \/ UnlinkRecord
  PROVE  SecretInv'
<1>0. /\ TypeOK /\ pc \in {"archive", "unmark", "unlink"} /\ cur \in Tags /\ cur \notin Open
      /\ UNCHANGED <<meta, vault>> /\ recs' \in {recs, [recs EXCEPT ![cur] = NoRecord]}
  BY DEF ArchiveReceipt, RemoveMarker, UnlinkRecord, PipelineInv, AtArchive, disk, history
<1>1. Open' = Open /\ \A o \in Open : recs'[o].plan = recs[o].plan
  <2>1. \A o \in Tags : recs'[o] = recs[o] \/ (o = cur /\ recs'[o] = NoRecord)
    BY <1>0 DEF TypeOK
  <2>2. NoRecord.st # "pending"
    BY DEF NoRecord
  <2> QED BY <1>0, <2>1, <2>2 DEF Open
<1>2. Supplies'
  BY <1>0, <1>1, SupplyFrame DEF SecretInv, Supplies
<1>3. CASE pc' \in {"unmark", "unlink", "scan"}
  BY <1>2, <1>3, OverKeeps DEF Working
<1>4. CASE \E ph : Release(ph)
  BY <1>2, <1>4, ReleaseKeeps
<1>5. CASE CloseError /\ cur' = cur
  <2>1. Others' = Open' /\ Others = Open
    BY <1>0, <1>1, <1>5 DEF Others
  <2> QED BY <1>0, <1>1, <1>2, <1>5, <2>1, CloseErrorKeeps DEF Supplies
<1> QED BY <1>3, <1>4, <1>5 DEF ArchiveReceipt, RemoveMarker, UnlinkRecord, CloseError, Goto, local

\* Recovery takes up the document of an open record.
LEMMA ScanKeeps ==
  ASSUME PipelineInv, SecretInv, ScanMissing \/ ScanFinished \/ ScanOpen
  PROVE  SecretInv'
<1>0. UNCHANGED <<meta, recs, vault>> /\ pc = "scan"
  BY DEF ScanMissing, ScanFinished, ScanOpen, disk, journal, history
<1>1. Supplies' /\ Open' = Open
  BY <1>0, DiskKept
<1>2. CASE pc' \in {"scan", "archive", "idle"}
  BY <1>1, <1>2, OverKeeps DEF Working
<1>3. CASE NextRef \in Open /\ pc' = "apply" /\ mode' \in {"confirm", "forward"} /\ KeepsSecrets(plan')
  BY <1>1, <1>3 DEF SecretInv, Supplies, Revoking, Working
<1>4. CASE ScanOpen
  <2> DEFINE q == recs[NextRef].plan
  <2>1. q \in Plan /\ KeepsSecrets(q) /\ NextRef \in Open
    BY <1>4 DEF ScanOpen, Open, PipelineInv, TypeOK, Record, SecretInv
  <2>2. CASE pc' = "apply" /\ mode' = "confirm" /\ plan' = q
    BY <1>3, <2>1, <2>2
  <2>3. CASE \E s \in Stamps : pc' = "apply" /\ mode' = "forward" /\ plan' = Restamp(q, s)
    BY <1>3, <2>1, <2>3, RestampKeeps
  <2>4. CASE Release("idle")
    BY <1>2, <2>4 DEF Release
  <2> QED BY <1>4, <2>2, <2>3, <2>4 DEF ScanOpen, Goto
<1> QED BY <1>0, <1>2, <1>4 DEF ScanMissing, ScanFinished, Goto, Release, lock

LEMMA CompactKeeps == ASSUME PipelineInv, SecretInv, Compact PROVE SecretInv'
<1>1. /\ UNCHANGED <<meta, vault>> /\ \E ph : Release(ph)
      /\ \A o \in Open : recs'[o] = recs[o]
      /\ Open' = Open
  <2>1. TypeOK
    BY DEF PipelineInv
  <2>2. \E gone : /\ \A o \in gone : Finished(o)
                  /\ recs' = [o \in Tags |-> IF o \in gone THEN NoRecord ELSE recs[o]]
    <3>1. CASE recs' = recs
      <4> DEFINE none == {o \in Tags : FALSE}
      <4>1. recs' = [o \in Tags |-> IF o \in none THEN NoRecord ELSE recs[o]]
        BY <2>1, <3>1 DEF TypeOK
      <4>2. \A o \in none : Finished(o)
        OBVIOUS
      <4> HIDE DEF none
      <4> QED BY <4>1, <4>2
    <3>2. CASE recs' # recs
      BY <3>2 DEF Compact
    <3> QED BY <3>1, <3>2
  <2>3. PICK gone : /\ \A o \in gone : Finished(o)
                    /\ recs' = [o \in Tags |-> IF o \in gone THEN NoRecord ELSE recs[o]]
    BY <2>2
  <2>4. \A o \in Tags : recs'[o] = IF o \in gone THEN NoRecord ELSE recs[o]
    BY <2>3
  <2>5. \A o \in Tags : o \in gone => recs[o].st # "pending"
    BY <2>3 DEF Finished
  <2> QED BY <2>4, <2>5 DEF Compact, Open, NoRecord, disk, history
<1>2. Supplies'
  BY <1>1, SupplyFrame DEF SecretInv, Supplies
<1> QED BY <1>1, <1>2, ReleaseKeeps

\* A catalog edit moves live entries: none is made, none is lost.
LEMMA EditKeeps == ASSUME PipelineInv, SecretInv, EditCatalog PROVE SecretInv'
<1>0. /\ TypeOK /\ UNCHANGED <<recs, pc, mode, goal, cur, plan>> /\ vault'.accts = vault.accts
      /\ \E moved \in SUBSET Live(meta) : \E c : meta' = Edited(meta, moved, c)
  <2>1. PICK moved \in SUBSET Live(meta), new \in BOOLEAN :
           /\ meta' = Edited(meta, moved, IF new THEN tag + 1 ELSE meta.cat)
           /\ vault' = [vault EXCEPT !.meta =
                          Edited(@, moved \cap Live(@), IF new THEN tag + 1 ELSE @.cat)]
    BY DEF EditCatalog
  <2>2. TypeOK /\ vault \in Vault
    BY DEF PipelineInv, TypeOK
  <2> QED BY <2>1, <2>2 DEF EditCatalog, Vault, journal, local, lock
<1>1. PICK moved \in SUBSET Live(meta) : \E c : meta' = Edited(meta, moved, c)
  BY <1>0
<1>2. \A i \in Ids : meta'.ent[i] = IF i \in moved THEN LiveImage(tag + 1) ELSE meta.ent[i]
  BY <1>1 DEF Edited
<1>3. LiveImage(tag + 1).live /\ ~NoImage.live
  BY DEF LiveImage, NoImage
<1>4. Live(meta') = Live(meta)
  BY <1>2, <1>3 DEF Live
<1>5. \A i \in SecretIds : meta'.ent[i] = NoImage => meta.ent[i] = NoImage
  BY <1>2, <1>3, ValueIn
<1>6. Open' = Open /\ Others' = Others
  BY <1>0 DEF Open, Others
<1>7. /\ Supplies'
      /\ LiveSupplied(meta, vault, recs, Others) => LiveSupplied(meta', vault', recs', Others)
      /\ NewSupplied(meta, vault, recs, Others) => NewSupplied(meta', vault', recs', Others)
  BY <1>0, <1>4, <1>5, <1>6, SupplyFrame DEF SecretInv, Supplies
<1>8. Revoking' <=> Revoking
  BY <1>0, <1>4 DEF Revoking
<1> QED BY <1>0, <1>6, <1>7, <1>8 DEF SecretInv, Supplies

LEMMA StillKeeps ==
  ASSUME SecretInv, UNCHANGED <<meta, recs, vault, pc, mode, goal, cur, plan>>
  PROVE  SecretInv'
BY DEF SecretInv, Open, Others, Revoking

LEMMA SecretStep == PipelineInv /\ SecretInv /\ [Next]_vars => SecretInv'
<1> SUFFICES ASSUME PipelineInv, SecretInv, [Next]_vars PROVE SecretInv'
  OBVIOUS
<1>1. CASE Step
  BY <1>1, WriteRecordKeeps, QuietKeeps, StageAppliedKeeps, PublishKeeps, CloseRecordKeeps,
     ArchiveKeeps, ScanKeeps, CompactKeeps DEF Step
<1>2. CASE Crash
  <2>1. UNCHANGED <<meta, recs, vault>>
    BY <1>2 DEF Crash, disk, journal, history
  <2> QED BY <1>2, <2>1, DiskKept, ReleaseKeeps DEF Crash
<1>3. CASE EditCatalog
  BY <1>3, EditKeeps
<1>4. CASE \E p \in Procs : Mutate(p)
  BY <1>4, MutationKeeps, TransactKeeps
<1>5. CASE \E p \in Procs : Recover(p)
  <2>1. UNCHANGED <<meta, recs, vault>> /\ pc' = "scan"
    BY <1>5 DEF Recover, disk, journal, history
  <2> QED BY <2>1, DiskKept, OverKeeps DEF Working
<1>6. CASE UNCHANGED vars \/ \E p \in Procs : Refuse(p) \/ AssertReady(p) \/ Project(p)
  BY <1>6, StillKeeps DEF vars, Refuse, AssertReady, Project, disk, journal, local, lock, history
<1> QED BY <1>1, <1>2, <1>3, <1>4, <1>5, <1>6 DEF Next

LEMMA SecretsHold == Spec => []SecretInv
<1>1. PipelineInv /\ SecretInv /\ [Next]_vars => SecretInv'
  BY SecretStep
<1> QED BY <1>1, SecretInit, PipelineInvariant, PTL DEF Spec

LEMMA NoneMissing == PipelineInv /\ SecretInv => ProjectedSecretsComplete
<1> SUFFICES ASSUME PipelineInv, SecretInv, holder = NoProc, pend = {}
             PROVE  Complete([meta |-> meta, accts |-> accts])
  BY DEF ProjectedSecretsComplete
<1>1. accts = vault.accts
  BY NothingPending DEF ProjectedVaultWhole
<1>2. Open = {}
  BY DEF PipelineInv, Records
<1> QED BY <1>1, <1>2, ValueIn DEF SecretInv, LiveSupplied, Supplied, Live, Complete, Value

\* Mutations that are cut off, replayed, rolled back or overtaken by those of
\* another process never leave a live entry without the secret its type
\* requires where a projection may look.
THEOREM SecretsComplete == Spec => []ProjectedSecretsComplete
<1> QED BY SecretsHold, PipelineInvariant, NoneMissing, PTL

-----------------------------------------------------------------------------
(* Recovery in a profile that one process uses *)

\* There is one open operation at a time, and the metadata is one of its two
\* images; a process that may mutate has seen that nothing is pending.
SoleInv ==
  /\ \A o \in Open : meta \in {recs[o].plan.mb, recs[o].plan.ma}
  /\ \A o, x \in Open : o = x
  /\ pc = "record" => Open = {}
  /\ \A p \in Procs : holder = NoProc /\ phase[p] = "ready" => pend = {}

\* What SoleInv says of the records.
SoleRecord ==
  /\ \A o \in Open : meta \in {recs[o].plan.mb, recs[o].plan.ma}
  /\ \A o, x \in Open : o = x

LEMMA SoleInit == Init => SoleInv
BY DEF Init, SoleInv, Open, NoRecord

LEMMA RecordKept ==
  ASSUME SoleInv, UNCHANGED meta, Open' \subseteq Open, \A o \in Open' : recs'[o].plan = recs[o].plan
  PROVE  SoleRecord'
BY DEF SoleInv, SoleRecord

\* The only process is inside, or it has just left.
LEMMA HeldKeeps ==
  ASSUME SoleRecord', holder' # NoProc, pc' # "record"
  PROVE  SoleInv'
BY DEF SoleRecord, SoleInv

LEMMA LeftKeeps ==
  ASSUME NEW p, Procs = {p}, PipelineInv, holder # NoProc, SoleRecord',
         NEW ph \in {"idle", "recovered"}, Release(ph)
  PROVE  SoleInv'
<1>1. holder = p /\ phase \in [Procs -> Phases]
  BY DEF PipelineInv, TypeOK
<1>2. phase'[p] = ph /\ pc' = "idle"
  BY <1>1 DEF Release
<1> QED BY <1>2 DEF SoleRecord, SoleInv

LEMMA SoleStep ==
  ASSUME NEW p, Procs = {p}, Editors = FALSE, PipelineInv, SoleInv, [Next]_vars
  PROVE  SoleInv'
<1>0. TypeOK /\ Free /\ Records
  BY DEF PipelineInv
<1>h. pc # "idle" => holder # NoProc
  BY <1>0 DEF Free
<1>m. ASSUME holder # NoProc, SoleRecord', pc' # "record",
             holder' = holder \/ Release("idle") \/ Release("recovered")
      PROVE  SoleInv'
  BY <1>m, HeldKeeps, LeftKeeps
<1>1. CASE WriteRecord
  <2>1. /\ pc = "record" /\ cur \in Tags /\ recs[cur].st = "absent" /\ meta = plan.mb /\ Open = {}
        /\ meta' = meta /\ recs' \in {recs, [recs EXCEPT ![cur] = [st |-> "pending", plan |-> plan]]}
    BY <1>1 DEF WriteRecord, PipelineInv, AtRecord, SoleInv, disk
  <2>2. \A o \in Tags : recs'[o] = recs[o] \/ (o = cur /\ recs'[o].plan = plan)
    BY <1>0, <2>1 DEF TypeOK
  <2>3. Open' \subseteq {cur} /\ \A o \in Open' : recs'[o].plan = plan
    BY <2>1, <2>2 DEF Open
  <2>4. SoleRecord'
    BY <2>1, <2>3 DEF SoleRecord
  <2> QED BY <1>1, <1>h, <1>m, <2>1, <2>4 DEF WriteRecord, Goto, Release
<1>2. CASE ApplyAccount \/ RestoreAccount \/ RestoreDone \/ OuterHandler \/ Verify \/ ArchiveReceipt
           \/ RemoveMarker \/ ScanMissing \/ ScanFinished \/ ScanOpen \/ Crash
  <2>1. UNCHANGED <<meta, recs>> /\ holder # NoProc /\ pc' # "record"
        /\ (holder' = holder \/ Release("idle"))
    BY <1>2, <1>h DEF ApplyAccount, RestoreAccount, RestoreDone, OuterHandler, Verify, ArchiveReceipt,
       RemoveMarker, ScanMissing, ScanFinished, ScanOpen, Crash, GiveUpApplying, CloseError, Goto, Release,
       disk, journal, lock
  <2>2. SoleRecord'
    BY <2>1, RecordKept DEF Open
  <2> QED BY <1>m, <2>1, <2>2
<1>3. CASE StageApplied
  <2>1. /\ cur \in Open /\ cur \in Tags /\ pc = "apply" /\ meta' = meta
        /\ \/ recs' = recs
           \/ recs' = [recs EXCEPT ![cur].plan = plan] /\ meta = plan.mb
        /\ pc' # "record" /\ (holder' = holder \/ Release("idle"))
    BY <1>3 DEF StageApplied, PipelineInv, AtWork, AtApply, Working, Open, disk, GiveUpApplying, Goto, Release
  <2>2. Open' = Open /\ \A o \in Open : o # cur => recs'[o].plan = recs[o].plan
    BY <1>0, <2>1 DEF Open, TypeOK, Record
  <2>3. recs'[cur].plan = recs[cur].plan \/ (recs'[cur].plan = plan /\ meta = plan.mb)
    BY <1>0, <2>1 DEF TypeOK, Record
  <2>4. SoleRecord'
    BY <2>1, <2>2, <2>3 DEF SoleInv, SoleRecord
  <2> QED BY <1>h, <1>m, <2>1, <2>4
<1>4. CASE Publish
  <2>1. /\ cur \in Open /\ pc = "publish" /\ recs' = recs /\ meta' \in {meta, plan.ma}
        /\ plan = recs[cur].plan /\ meta = plan.mb /\ Open' = Open
        /\ pc' # "record" /\ (holder' = holder \/ Release("idle"))
    BY <1>4 DEF Publish, PipelineInv, AtWork, AtApply, Working, Open, journal, Goto, Release
  <2>2. SoleRecord'
    BY <2>1 DEF SoleInv, SoleRecord
  <2> QED BY <1>h, <1>m, <2>1, <2>2
<1>5. CASE CloseRecord
  <2>1. /\ cur \in Tags /\ meta' = meta /\ recs' \in {recs, [recs EXCEPT ![cur].st = goal]}
        /\ pc' # "record" /\ (holder' = holder \/ Release("idle")) /\ holder # NoProc
        /\ goal # "none"
    BY <1>5, <1>h DEF CloseRecord, PipelineInv, AtWork, AtClose, Working, Open, disk, CloseError, Goto, Release
  <2>2. Open' \subseteq Open /\ \A o \in Open' : recs'[o].plan = recs[o].plan
    BY <1>0, <2>1 DEF Open, TypeOK, Record
  <2> QED BY <1>m, <2>1, <2>2, RecordKept
<1>6. CASE UnlinkRecord
  <2>1. /\ cur \in Tags /\ meta' = meta /\ recs' \in {recs, [recs EXCEPT ![cur] = NoRecord]}
        /\ pc' # "record" /\ (holder' = holder \/ Release("idle")) /\ holder # NoProc
    BY <1>6, <1>h DEF UnlinkRecord, PipelineInv, AtArchive, disk, CloseError, Goto, Release
  <2>2. \A o \in Tags : recs'[o] = recs[o] \/ recs'[o] = NoRecord
    BY <1>0, <2>1 DEF TypeOK
  <2>3. Open' \subseteq Open /\ \A o \in Open' : recs'[o].plan = recs[o].plan
    BY <2>2 DEF Open, NoRecord
  <2> QED BY <1>m, <2>1, <2>3, RecordKept
<1>7. CASE Compact
  <2>1. /\ meta' = meta /\ pc' = "idle" /\ (Release("recovered") \/ Release("idle")) /\ holder # NoProc
        /\ \A o \in Tags : recs'[o] = recs[o] \/ recs'[o] = NoRecord
    BY <1>7, <1>h DEF Compact, disk, Release
  <2>2. Open' \subseteq Open /\ \A o \in Open' : recs'[o].plan = recs[o].plan
    BY <2>1 DEF Open, NoRecord
  <2> QED BY <1>m, <2>1, <2>2, RecordKept
<1>8. CASE \E x \in Procs : Mutate(x)
  <2>0. PICK x \in Procs : \E q : Transact(x, q)
    BY <1>8, MutationIsTransact DEF PipelineInv
  <2>1. PICK q : Transact(x, q)
    BY <2>0
  <2>2. holder = NoProc /\ phase[x] = "ready" /\ UNCHANGED <<meta, recs>> /\ x = p /\ pc = "idle"
    BY <1>0, <2>1 DEF Transact, disk, Free
  <2>3. Open = {} /\ Open' = Open
    BY <1>0, <2>2 DEF SoleInv, Records, Open
  <2>4. SoleRecord'
    BY <2>3 DEF SoleRecord
  <2>5. CASE holder' = x
    BY <1>0, <2>3, <2>4, <2>5, JournalAssumption DEF SoleInv, SoleRecord
  <2>6. CASE phase' = [phase EXCEPT ![x] = "idle"] /\ pc' = pc
    BY <1>0, <2>2, <2>3, <2>4, <2>6 DEF SoleInv, SoleRecord, TypeOK
  <2> QED BY <2>1, <2>5, <2>6 DEF Transact
<1>9. CASE \E x \in Procs : Recover(x)
  <2>1. UNCHANGED <<meta, recs>> /\ holder' # NoProc /\ pc' = "scan"
    BY <1>9, JournalAssumption DEF Recover, disk, journal
  <2>2. SoleRecord'
    BY <2>1, RecordKept DEF Open
  <2> QED BY <2>1, <2>2, HeldKeeps
<1>10. CASE \E x \in Procs : Refuse(x) \/ AssertReady(x)
  <2>1. UNCHANGED <<meta, recs, pend, pc, holder>>
    BY <1>10 DEF Refuse, AssertReady, disk, journal
  <2>2. SoleRecord' /\ Open' = Open
    BY <2>1, RecordKept DEF Open
  <2>3. phase'[p] # "ready" \/ pend = {}
    BY <1>0, <1>10 DEF Refuse, AssertReady, TypeOK
  <2> QED BY <2>1, <2>2, <2>3 DEF SoleInv, SoleRecord
<1>11. CASE UNCHANGED vars \/ \E x \in Procs : Project(x)
  <2>1. UNCHANGED <<meta, recs, pend, pc, holder, phase>>
    BY <1>11 DEF vars, Project, disk, journal, lock
  <2> QED BY <2>1 DEF SoleInv, Open
<1> QED BY <1>1, <1>2, <1>3, <1>4, <1>5, <1>6, <1>7, <1>8, <1>9, <1>10, <1>11 DEF Next, Step, EditCatalog

\* A profile that one process uses, without catalog edits: recovery meets no
\* record that it could neither replay nor confirm, whatever crashes.
THEOREM AloneDecidable ==
  ASSUME NEW p, Procs = {p}, Editors = FALSE
  PROVE  Spec => []OpenRecordsDecidable
<1>1. PipelineInv /\ SoleInv /\ [Next]_vars => SoleInv'
  BY SoleStep
<1>2. SoleInv => OpenRecordsDecidable
  BY DEF SoleInv, OpenRecordsDecidable
<1> QED BY <1>1, <1>2, SoleInit, PipelineInvariant, PTL DEF Spec
=============================================================================

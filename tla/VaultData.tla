------------------------------ MODULE VaultData ------------------------------
(***************************************************************************)
(* The data of a keys-keeper master vault, as far as its mutation pipeline *)
(* can tell two vaults apart.                                              *)
(*                                                                         *)
(* A vault is two stores that no single write can change together: the     *)
(* metadata file data.json (store.py) and the secret backend (backend.py). *)
(* Contents are abstracted to tags.  Whoever writes new content takes a    *)
(* fresh tag, as content_revision and operation_id are fresh uuids, so the *)
(* revision of a metadata file (a hash of its content) is the file itself. *)
(***************************************************************************)
EXTENDS Integers, FiniteSets

CONSTANTS
  Ids,        \* entry identities
  SecretIds,  \* the entries whose type requires a secret value
  MaxTag      \* bound on the fresh tags (operations and catalog edits)

ASSUME VaultAssumption ==
  /\ SecretIds \subseteq Ids
  /\ MaxTag \in Nat

Slots == {"value", "passphrase"}

\* Backend accounts: entry.id and entry.id + ":passphrase".
Accounts == Ids \X Slots

Tags == 1..MaxTag

\* The value of an account: the tag of the writer, or Absent.
Absent == 0

Secrets == [Accounts -> 0..MaxTag]

\* What the metadata holds for one entry: a live record with its content tag,
\* a tombstone with its deleted_at stamp, or (tag 0) nothing at all.
Image == [live : BOOLEAN, tag : 0..MaxTag]

NoImage == [live |-> FALSE, tag |-> 0]

\* data.json: the entries with their tombstones, and the catalog section.
Meta == [ent : [Ids -> Image], cat : 0..MaxTag]

Vault == [meta : Meta, accts : Secrets]

EmptyMeta == [ent |-> [i \in Ids |-> NoImage], cat |-> 0]

EmptySecrets == [a \in Accounts |-> Absent]

EmptyVault == [meta |-> EmptyMeta, accts |-> EmptySecrets]

\* The entries a reader of metadata m finds.
Live(m) == {i \in Ids : m.ent[i].live}

\* No live entry lacks the secret its type requires.
Complete(v) == \A i \in SecretIds : v.meta.ent[i].live => v.accts[<<i, "value">>] # Absent

(***************************************************************************)
(* A plan is the state document of one mutation: which entries and which   *)
(* accounts it changes, and their images before and after.                 *)
(***************************************************************************)
Kinds == {"none", "create", "update", "delete", "replace_all"}

Plan == [kind : Kinds, ids : SUBSET Ids, accs : SUBSET Accounts,
         mb : Meta, ma : Meta, ab : Secrets, aa : Secrets]

NoPlan == [kind |-> "none", ids |-> {}, accs |-> {},
           mb |-> EmptyMeta, ma |-> EmptyMeta,
           ab |-> EmptySecrets, aa |-> EmptySecrets]

SetsCatalog(q) == q.ma.cat # q.mb.cat

\* The whole effect of plan q on a vault v.
Effect(q, v) ==
  [meta  |-> [ent |-> [i \in Ids |-> IF i \in q.ids THEN q.ma.ent[i]
                                                    ELSE v.meta.ent[i]],
              cat |-> IF SetsCatalog(q) THEN q.ma.cat ELSE v.meta.cat],
   accts |-> [a \in Accounts |-> IF a \in q.accs THEN q.aa[a] ELSE v.accts[a]]]
=============================================================================

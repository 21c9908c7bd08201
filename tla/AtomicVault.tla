---------------------------- MODULE AtomicVault ----------------------------
(***************************************************************************)
(* What the mutation boundary of the master vault promises: each mutation  *)
(* changes metadata and secrets together, once, or not at all, and a       *)
(* projection (a snapshot or a project payload) is a copy of a vault no    *)
(* mutation is in the middle of.  There is no journal, no lock, no crash.  *)
(***************************************************************************)
EXTENDS VaultData

CONSTANT Procs

VARIABLES
  vault,    \* metadata and secrets, changed together
  outcome,  \* how each mutation ended
  views     \* the last projection each process took

vars == <<vault, outcome, views>>

Init ==
  /\ vault = EmptyVault
  /\ outcome = [o \in Tags |-> "none"]
  /\ views = [p \in Procs |-> EmptyVault]

\* Mutation o takes effect, once: metadata and secrets in one step.
Commit(o) ==
  /\ outcome[o] = "none"
  /\ vault' \in Vault
  /\ outcome' = [outcome EXCEPT ![o] = "completed"]
  /\ UNCHANGED views

\* Mutation o is given up: no trace of it is left.
Abort(o) ==
  /\ outcome[o] = "none"
  /\ outcome' = [outcome EXCEPT ![o] = "failed"]
  /\ UNCHANGED <<vault, views>>

\* A catalog-only edit: folders, projects, scopes; never a secret.
Edit ==
  /\ vault' \in Vault
  /\ vault'.accts = vault.accts
  /\ Live(vault'.meta) = Live(vault.meta)
  /\ UNCHANGED <<outcome, views>>

Project(p) ==
  /\ views' = [views EXCEPT ![p] = vault]
  /\ UNCHANGED <<vault, outcome>>

Next ==
  \/ \E o \in Tags : Commit(o) \/ Abort(o)
  \/ Edit
  \/ \E p \in Procs : Project(p)

Spec == Init /\ [][Next]_vars
=============================================================================

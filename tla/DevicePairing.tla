---------------------------- MODULE DevicePairing ----------------------------
(***************************************************************************)
(* Connecting another computer to the main one: the ceremony of invite,    *)
(* join, approve and finish (project_runtime.py), carried by mailboxes on  *)
(* the relay (pairing_server.py) and driven by personal_sync.py.           *)
(*                                                                         *)
(* The main computer runs one job at a time (approve, or the flush of a    *)
(* sync); invitations and revocations come at any moment.  A secondary     *)
(* computer holds its personal-setup lock in join, poll and cancel.  Each  *)
(* attempt of a computer has a root directory of its own, with its own     *)
(* device identity, so a device is named by its root.  The invitation and  *)
(* its mailbox expire together.                                            *)
(***************************************************************************)
EXTENDS Naturals, FiniteSets, Sequences

CONSTANTS
  MaxCodes,    \* bound on invitations
  Computers,   \* secondary computers
  MaxRoots,    \* bound on attempts to join
  PairLimit,   \* open connections per scope
  MaxMints,    \* bound on the grants the main computer allocates
  MaxVersion,  \* bound on publications
  MaxFaults    \* bound on failures of the main computer's and the devices' work

ASSUME PairingAssumption ==
  /\ MaxCodes \in Nat /\ MaxRoots \in Nat
  /\ PairLimit \in Nat \ {0} /\ MaxMints \in Nat /\ MaxVersion \in Nat \ {0} /\ MaxFaults \in Nat

VARIABLES
  published,  \* the publications so far: each is its set of grants
  planned,    \* the prepared publication that is not confirmed: <<grants>> or <<>>
  revoked,    \* ids of the grants with a local revocation
  minted,     \* grants allocated so far
  invites,    \* per code: the main computer's record of the invitation
  pairings,   \* per code: the main computer's record of the connection
  job,        \* the main computer's running job
  mailbox,    \* per code: the relay's mailbox
  expired,    \* codes whose ten minutes are over
  settings,   \* per computer: the root in personal-sync.json
  roots,      \* per root: what it holds
  worker,     \* per computer: the running join or poll
  faults

vars == <<published, planned, revoked, minted, invites, pairings, job, mailbox, expired,
          settings, roots, worker, faults>>

\* Codes and roots are random and fresh: numbered in the order of their use.
Codes == 1..MaxCodes   \* each is one invitation and one mailbox
Roots == 1..MaxRoots   \* each is one attempt to join
None == 0
Idle == [pc |-> "idle", code |-> None, root |-> None, answer |-> 0, todo |-> {}]
NoWork == [pc |-> "idle", answer |-> 0]
NoInvite == [known |-> FALSE, request |-> None, grant |-> 0, bundle |-> 0]
NoPairing == [known |-> FALSE, response |-> 0, device |-> None, sent |-> FALSE]
NoMailbox == [there |-> FALSE, request |-> None, response |-> 0]
NoRoot == [code |-> None, generation |-> 0, applied |-> 0, status |-> "none"]

Current == published[Len(published)]
Version == Len(published)
GrantOf(r, grants) == {g \in grants : g.device = r}

\* What both sides ask of an answer to the device r: the invitation is in time,
\* and the publication that the answer names grants the device its reading.
Answerable(r, c, grants) == c \notin expired /\ GrantOf(r, grants) # {}

-----------------------------------------------------------------------------
(* The relay's mailboxes *)

Open(c) == mailbox[c].there /\ c \notin expired

\* Creating a mailbox purges the expired ones; the same again is answered.
Created(c) ==
  [k \in Codes |-> IF k = c /\ ~mailbox[c].there THEN [NoMailbox EXCEPT !.there = TRUE]
                   ELSE IF k \in expired THEN NoMailbox ELSE mailbox[k]]
AcceptsCreate(c) ==
  /\ c \notin expired
  /\ mailbox[c].there \/ Cardinality({k \in Codes : Open(k)}) < PairLimit

\* A slot is written once.
AcceptsRequest(c, r) == Open(c) /\ mailbox[c].request \in {None, r}
AcceptsResponse(c, v) == Open(c) /\ mailbox[c].request # None /\ mailbox[c].response \in {0, v}

-----------------------------------------------------------------------------
(* The main computer *)

UnchangedDevices == UNCHANGED <<settings, roots, worker>>
UnchangedScope == UNCHANGED <<published, planned, revoked>>

\* PersonalSync.invite, first part: ProjectRuntime.invite stores the invitation.
Invite(c) ==
  /\ ~invites[c].known /\ \A k \in Codes : k < c => invites[k].known
  /\ invites' = [invites EXCEPT ![c].known = TRUE]
  /\ UNCHANGED <<minted, pairings, job, mailbox, expired, faults>> /\ UnchangedScope /\ UnchangedDevices

\* Second part, if the process lives and there is room: the connection is
\* stored, and the connections that have expired are forgotten.
RecordPairing(c) ==
  /\ invites[c].known /\ ~pairings[c].known /\ c \notin expired
  /\ Cardinality({k \in Codes : pairings[k].known /\ k \notin expired}) < PairLimit
  /\ pairings' = [k \in Codes |-> IF k = c THEN [NoPairing EXCEPT !.known = TRUE]
                                  ELSE IF k \in expired THEN NoPairing ELSE pairings[k]]
  /\ UNCHANGED <<minted, invites, job, mailbox, expired, faults>> /\ UnchangedScope /\ UnchangedDevices

\* The upload that ends invite, and that pending repeats.
UploadInvite(c) ==
  /\ pairings[c].known /\ pairings[c].response = 0
  /\ AcceptsCreate(c) /\ mailbox' = Created(c)
  /\ UNCHANGED <<invites, pairings, minted, job, expired, faults>> /\ UnchangedScope /\ UnchangedDevices

\* PersonalSync.approve up to runtime.approve: the request is in the mailbox.
StartApprove(c) ==
  /\ job = Idle
  /\ pairings[c].known /\ AcceptsCreate(c)
  /\ mailbox' = Created(c)
  /\ Created(c)[c].request # None
  /\ job' = [Idle EXCEPT !.pc = "check", !.code = c, !.root = Created(c)[c].request]
  /\ UNCHANGED <<invites, pairings, minted, expired, faults>> /\ UnchangedScope /\ UnchangedDevices

JobStep == UNCHANGED <<revoked, expired, faults>> /\ UnchangedDevices
Fail == job' = Idle

\* The grant of an invitation: in the current policy and not revoked locally.
Live(c) == invites[c].grant # 0 /\ invites[c].grant \notin revoked /\ \E g \in Current : g.id = invites[c].grant

\* Slip: the grant is allocated and only the publication will tell.
CheckUnsaved ==
  /\ job.pc = "check"
  /\ LET c == job.code
     IN  IF invites[c].bundle # 0
         THEN /\ IF Live(c) THEN job' = [job EXCEPT !.pc = "respond", !.answer = invites[c].bundle] ELSE Fail
              /\ UNCHANGED <<invites, minted>>
         ELSE /\ minted < MaxMints
              /\ minted' = minted + 1
              /\ job' = [job EXCEPT !.pc = "add", !.answer = minted + 1]
              /\ UNCHANGED invites
  /\ UNCHANGED <<published, planned, pairings, mailbox>> /\ JobStep

\* _approve_serialized, first part: a finished approval is given again while
\* its grant lives; otherwise the grant is allocated and stored before it is
\* published.
Check ==
  /\ job.pc = "check"
  /\ LET c == job.code
     IN  IF invites[c].request \notin {None, job.root} \/ c \in expired
         THEN Fail /\ UNCHANGED <<invites, minted>>
         ELSE IF invites[c].bundle # 0
         THEN /\ IF Live(c) THEN job' = [job EXCEPT !.pc = "respond", !.answer = invites[c].bundle] ELSE Fail
              /\ UNCHANGED <<invites, minted>>
         ELSE IF invites[c].grant # 0
         THEN job' = [job EXCEPT !.pc = "add", !.answer = invites[c].grant] /\ UNCHANGED <<invites, minted>>
         ELSE /\ minted < MaxMints
              /\ minted' = minted + 1
              /\ invites' = [invites EXCEPT ![c] = [@ EXCEPT !.request = job.root, !.grant = minted + 1]]
              /\ job' = [job EXCEPT !.pc = "add", !.answer = minted + 1]
  /\ UNCHANGED <<published, planned, pairings, mailbox>> /\ JobStep

\* add_grant prepares a publication with one more grant.
Add ==
  /\ job.pc = "add" /\ planned = <<>>
  /\ LET kept == {g \in Current : g.id \notin revoked}
         grant == [device |-> job.root, id |-> job.answer]
     IN  IF grant.id \in revoked \/ \E g \in kept : (g.device = grant.device \/ g.id = grant.id) /\ g # grant
         THEN Fail /\ UNCHANGED planned
         ELSE /\ planned' = IF kept \union {grant} = Current THEN <<>> ELSE <<kept \union {grant}>>
              /\ job' = [job EXCEPT !.pc = "wrap", !.answer = 0]
  /\ UNCHANGED <<published, invites, minted, pairings, mailbox>> /\ JobStep

\* The prepared publication takes effect, or a revocation has voided it.
Publish ==
  /\ planned # <<>>
  /\ IF \E g \in planned[1] : g.id \in revoked THEN UNCHANGED published
     ELSE Version < MaxVersion /\ published' = published \o planned
  /\ planned' = <<>>
  /\ UNCHANGED <<revoked, invites, minted, pairings, job, mailbox, expired, faults>> /\ UnchangedDevices

\* A sync of the main computer publishes changed entries and drops the
\* revoked grants.
Prepare ==
  /\ planned = <<>> /\ job.pc \in {"idle", "wrap", "save"}
  /\ Version < MaxVersion - 1 \/ \E g \in Current : g.id \in revoked
  /\ Version < MaxVersion
  /\ planned' = <<{g \in Current : g.id \notin revoked}>>
  /\ UNCHANGED <<published, revoked, invites, minted, pairings, job, mailbox, expired, faults>> /\ UnchangedDevices

\* The state is read again; the answer names the policy and the snapshot.
Wrap ==
  /\ job.pc = "wrap" /\ planned = <<>>
  /\ IF Answerable(job.root, job.code, Current)
     THEN job' = [job EXCEPT !.pc = "save", !.answer = Version]
     ELSE Fail
  /\ UNCHANGED <<published, planned, invites, minted, pairings, mailbox>> /\ JobStep

\* The state is read a third time, under its lock.
Save ==
  /\ job.pc = "save"
  /\ IF Live(job.code) /\ Version = job.answer
     THEN /\ invites' = [invites EXCEPT ![job.code].bundle = job.answer]
          /\ job' = [job EXCEPT !.pc = "respond"]
     ELSE Fail /\ UNCHANGED invites
  /\ UNCHANGED <<published, planned, minted, pairings, mailbox>> /\ JobStep

\* The sealed answer is stored once; a connection that has been forgotten
\* meanwhile is an error.
Respond ==
  /\ job.pc = "respond"
  /\ LET c == job.code
     IN  IF pairings[c].known
         THEN /\ pairings' = [pairings EXCEPT
                   ![c].response = IF @ = 0 THEN job.answer ELSE @, ![c].device = job.root]
              /\ job' = [Idle EXCEPT !.pc = "flush"]
         ELSE Fail /\ UNCHANGED pairings
  /\ UNCHANGED <<published, planned, invites, minted, mailbox>> /\ JobStep

\* Slip: a revoked device still gets its answer.
DueAnyDevice(c) ==
  /\ pairings[c].known /\ pairings[c].response # 0 /\ ~pairings[c].sent /\ c \notin expired

Due(c) ==
  /\ pairings[c].known /\ pairings[c].response # 0 /\ ~pairings[c].sent /\ c \notin expired
  /\ \E g \in GrantOf(pairings[c].device, Current) : g.id \notin revoked

\* A sync starts with the answers that are still to be sent.
StartFlush ==
  /\ job = Idle
  /\ \E c \in Codes : Due(c)
  /\ job' = [Idle EXCEPT !.pc = "flush"]
  /\ UNCHANGED <<published, planned, invites, minted, pairings, mailbox>> /\ JobStep

Flush ==
  /\ job.pc = "flush"
  /\ job' = [Idle EXCEPT !.pc = "post", !.todo = {c \in Codes : Due(c)}]
  /\ UNCHANGED <<published, planned, invites, minted, pairings, mailbox>> /\ JobStep

\* _flush_responses: posted, then marked; the codes were chosen before.
Post ==
  /\ job.pc = "post"
  /\ \/ /\ job.todo = {}
        /\ Fail /\ UNCHANGED <<mailbox, pairings>>
     \/ \E c \in job.todo :
          IF AcceptsResponse(c, pairings[c].response)
          THEN /\ mailbox' = [mailbox EXCEPT ![c].response = pairings[c].response]
               /\ job' = [job EXCEPT !.pc = "mark", !.code = c, !.todo = @ \ {c}]
               /\ UNCHANGED pairings
          ELSE Fail /\ UNCHANGED <<mailbox, pairings>>
  /\ UNCHANGED <<published, planned, invites, minted>> /\ JobStep

Mark ==
  /\ job.pc = "mark"
  /\ IF pairings[job.code].known
     THEN /\ pairings' = [pairings EXCEPT ![job.code].sent = TRUE]
          /\ job' = [job EXCEPT !.pc = "post", !.code = None]
     ELSE Fail /\ UNCHANGED pairings
  /\ UNCHANGED <<published, planned, invites, minted, mailbox>> /\ JobStep

\* PersonalSync.revoke: recorded locally before anything else.
Revoke ==
  /\ \E g \in Current : g.id \notin revoked /\ revoked' = revoked \union {g.id}
  /\ UNCHANGED <<published, planned, invites, minted, pairings, job, mailbox, expired, faults>> /\ UnchangedDevices

-----------------------------------------------------------------------------
(* A secondary computer *)

UnchangedMain == UNCHANGED <<published, planned, revoked, minted, invites, pairings, job>>

\* join without settings: a fresh root.  What a join that dies before it
\* writes the settings leaves behind is never looked at again.
Join(m, c) ==
  /\ worker[m] = NoWork
  /\ settings[m] = None /\ Open(c)
  /\ \E r \in Roots :
       /\ roots[r] = NoRoot /\ \A q \in Roots : q < r => roots[q] # NoRoot
       /\ roots' = [roots EXCEPT ![r] = [NoRoot EXCEPT !.code = c, !.status = "pending"]]
       /\ settings' = [settings EXCEPT ![m] = r]
  /\ worker' = [worker EXCEPT ![m].pc = "upload"]
  /\ UNCHANGED <<mailbox, expired, faults>> /\ UnchangedMain

\* join again with the same code: the reservation and the stored request are
\* taken up.  Any other code conflicts with the reservation.
Rejoin(m) ==
  /\ worker[m] = NoWork
  /\ settings[m] # None
  /\ roots[settings[m]].status = "pending" /\ Open(roots[settings[m]].code)
  /\ worker' = [worker EXCEPT ![m].pc = "upload"]
  /\ UNCHANGED <<mailbox, expired, faults, settings, roots>> /\ UnchangedMain

Stop(m) == worker' = [worker EXCEPT ![m] = NoWork]
RootOf(m) == roots[settings[m]]

\* The expired invitation ends a poll before it asks the relay.
StartPoll(m) ==
  /\ worker[m] = NoWork
  /\ settings[m] # None /\ RootOf(m).status = "pending" /\ RootOf(m).code \notin expired
  /\ worker' = [worker EXCEPT ![m].pc = "poll"]
  /\ UNCHANGED <<mailbox, expired, faults, settings, roots>> /\ UnchangedMain

\* Both a join and a poll upload the request.
Upload(m) ==
  /\ worker[m].pc \in {"upload", "poll"}
  /\ LET c == RootOf(m).code
     IN  IF AcceptsRequest(c, settings[m])
         THEN /\ mailbox' = [mailbox EXCEPT ![c].request = settings[m]]
              /\ worker' = [worker EXCEPT ![m].pc = IF @ = "poll" THEN "get" ELSE "idle"]
         ELSE Stop(m) /\ UNCHANGED mailbox
  /\ UNCHANGED <<expired, faults, settings, roots>> /\ UnchangedMain

Get(m) ==
  /\ worker[m].pc = "get"
  /\ LET c == RootOf(m).code
     IN  IF Open(c) /\ mailbox[c].response # 0
         THEN worker' = [worker EXCEPT ![m] = [pc |-> "install", answer |-> mailbox[c].response]]
         ELSE Stop(m)
  /\ UNCHANGED <<mailbox, expired, faults, settings, roots>> /\ UnchangedMain

\* Slip: an answer is only good once.
InstallOnce(m) ==
  /\ worker[m].pc = "install"
  /\ LET r == settings[m]
     IN  IF roots[r].applied = 0 /\ roots[r].code \notin expired
         THEN /\ roots' = [roots EXCEPT ![r].generation = worker[m].answer]
              /\ worker' = [worker EXCEPT ![m].pc = "apply"]
         ELSE Stop(m) /\ UNCHANGED roots
  /\ UNCHANGED <<mailbox, expired, faults, settings>> /\ UnchangedMain

\* finish: an answer that is already applied only has to be made active; a
\* new one is verified, and it expires with the invitation.
Install(m) ==
  /\ worker[m].pc = "install"
  /\ LET r == settings[m]
         v == worker[m].answer
     IN  IF roots[r].applied = v
         THEN worker' = [worker EXCEPT ![m].pc = "activate"] /\ UNCHANGED roots
         ELSE IF roots[r].applied = 0 /\ Answerable(r, roots[r].code, published[v])
         THEN /\ roots' = [roots EXCEPT ![r].generation = v]
              /\ worker' = [worker EXCEPT ![m].pc = "apply"]
         ELSE Stop(m) /\ UNCHANGED roots
  /\ UNCHANGED <<mailbox, expired, faults, settings>> /\ UnchangedMain

Apply(m) ==
  /\ worker[m].pc = "apply"
  /\ roots' = [roots EXCEPT ![settings[m]].applied = worker[m].answer]
  /\ worker' = [worker EXCEPT ![m].pc = "activate"]
  /\ UNCHANGED <<mailbox, expired, faults, settings>> /\ UnchangedMain

Activate(m) ==
  /\ worker[m].pc = "activate"
  /\ roots' = [roots EXCEPT ![settings[m]].status = "active"]
  /\ Stop(m)
  /\ UNCHANGED <<mailbox, expired, faults, settings>> /\ UnchangedMain

\* Slip: what the connection has received is not looked at.
CancellableIfPending(r) == roots[r].status = "pending"

\* An unfinished connection that has received nothing.
Cancellable(r) == roots[r].status = "pending" /\ roots[r].applied = 0

CancelPending(m) ==
  /\ worker[m] = NoWork
  /\ settings[m] # None /\ Cancellable(settings[m])
  /\ settings' = [settings EXCEPT ![m] = None]
  /\ UNCHANGED <<mailbox, expired, faults, roots, worker>> /\ UnchangedMain

-----------------------------------------------------------------------------
(* Time and failures *)

Expire(c) ==
  /\ invites[c].known /\ c \notin expired
  /\ expired' = expired \union {c}
  /\ UNCHANGED <<mailbox, faults>> /\ UnchangedMain /\ UnchangedDevices

\* The main computer's job dies, or a request of it is lost.
JobFails ==
  /\ job # Idle /\ faults < MaxFaults
  /\ Fail /\ faults' = faults + 1
  /\ UNCHANGED <<minted, invites, pairings, mailbox, expired>> /\ UnchangedScope /\ UnchangedDevices

WorkerFails(m) ==
  /\ worker[m] # NoWork /\ faults < MaxFaults
  /\ Stop(m) /\ faults' = faults + 1
  /\ UNCHANGED <<mailbox, expired, settings, roots>> /\ UnchangedMain

-----------------------------------------------------------------------------
Init ==
  /\ published = <<{}>> /\ planned = <<>> /\ revoked = {} /\ minted = 0
  /\ invites = [c \in Codes |-> NoInvite]
  /\ pairings = [c \in Codes |-> NoPairing]
  /\ mailbox = [c \in Codes |-> NoMailbox]
  /\ job = Idle /\ expired = {}
  /\ settings = [m \in Computers |-> None]
  /\ roots = [r \in Roots |-> NoRoot]
  /\ worker = [m \in Computers |-> NoWork]
  /\ faults = 0

Approving == Check \/ Add \/ Wrap \/ Save \/ Respond
Flushing == Flush \/ Post \/ Mark
Connecting(m) == Upload(m) \/ Get(m) \/ Install(m) \/ Apply(m) \/ Activate(m)

Next ==
  \/ \E c \in Codes : Invite(c) \/ RecordPairing(c) \/ UploadInvite(c) \/ StartApprove(c) \/ Expire(c)
  \/ Approving \/ Publish \/ Prepare \/ StartFlush \/ Flushing \/ Revoke \/ JobFails
  \/ \E m \in Computers :
       \/ \E c \in Codes : Join(m, c)
       \/ Rejoin(m) \/ StartPoll(m) \/ Connecting(m) \/ CancelPending(m) \/ WorkerFails(m)

Spec == Init /\ [][Next]_vars

\* Jobs that have begun go on, a sync sends the answers, and a pending
\* computer polls: the settings page does so while it is open, and the
\* automatic sync every day.
Fairness ==
  /\ WF_vars(Approving \/ Publish) /\ WF_vars(StartFlush \/ Flushing)
  /\ \A m \in Computers : SF_vars(StartPoll(m)) /\ WF_vars(Connecting(m))
FairSpec == Spec /\ Fairness

-----------------------------------------------------------------------------
(* Properties *)

\* Types, and the bounds of the limits: the records of the main computer and
\* the mailboxes of the relay stay within PairLimit open connections.
TypeOK ==
  /\ Len(published) \in 1..MaxVersion
  /\ invites \in [Codes -> [known : BOOLEAN, request : Roots \union {None}, grant : 0..MaxMints, bundle : 0..MaxVersion]]
  /\ pairings \in [Codes -> [known : BOOLEAN, response : 0..MaxVersion, device : Roots \union {None}, sent : BOOLEAN]]
  /\ mailbox \in [Codes -> [there : BOOLEAN, request : Roots \union {None}, response : 0..MaxVersion]]
  /\ settings \in [Computers -> Roots \union {None}]
  /\ roots \in [Roots -> [code : Codes \union {None}, generation : 0..MaxVersion, applied : 0..MaxVersion,
                          status : {"none", "pending", "active"}]]
  /\ Cardinality({c \in Codes : Open(c)}) <= PairLimit
  /\ Cardinality({c \in Codes : pairings[c].known /\ c \notin expired}) <= PairLimit

\* Every grant of a publication is the one that some invitation of the main
\* computer records for that device, and a device has one grant: a retried
\* approval allocates no second identity and leaves none untracked
\* (project_runtime.approve stores the grant before it publishes it).
GrantsTracked ==
  \A n \in 1..Version : \A g \in published[n] :
    /\ \E c \in Codes : invites[c].request = g.device /\ invites[c].grant = g.id
    /\ \A h \in published[n] : h.device = g.device => h = g

\* A computer that is connected, and every answer waiting for one, has a
\* grant in the very publication whose key and snapshot the answer carries,
\* and a code connects only the device that asked first.
AnswersMatch ==
  /\ \A c \in Codes : invites[c].bundle # 0 =>
       [device |-> invites[c].request, id |-> invites[c].grant] \in published[invites[c].bundle]
  /\ \A c \in Codes : mailbox[c].response # 0 =>
       mailbox[c].response = invites[c].bundle /\ mailbox[c].request = invites[c].request
  /\ \A r \in Roots : roots[r].generation # 0 =>
       invites[roots[r].code].request = r /\ invites[roots[r].code].bundle = roots[r].generation

\* A code is worth one grant and one connection, on both sides and at the relay.
PairingSound == TypeOK /\ GrantsTracked /\ AnswersMatch

\* A device whose grant is revoked before its answer is on its way never
\* receives anything, however the approval, later syncs and the device go on
\* (_flush_responses looks at the revocations; what it has chosen to send
\* before the revocation is on its way).
RevokedStaysOut ==
  \A c \in Codes :
    [](invites[c].grant \in revoked /\ Open(c) /\ mailbox[c].response = 0 /\ c \notin job.todo
         => [](\A r \in Roots : roots[r].code = c => roots[r].generation = 0))

\* A connection whose state says that it has received entries stays the
\* computer's connection: cancel_pending does not reset it.
ReceivedIsKept ==
  \A r \in Roots : roots[r].applied # 0 => \E m \in Computers : settings[m] = r

\* An approved computer gets connected, unless the code expires, the grant is
\* revoked or the computer cancels: a crash of either side at any point of
\* finish, or a lost upload, only delays it.
ApprovedConnects ==
  \A c \in Codes :
    pairings[c].response # 0 ~>
      \/ c \in expired \/ invites[c].grant \in revoked
      \/ \E r \in Roots : roots[r].code = c /\ roots[r].status = "active"
      \/ \A m \in Computers : settings[m] # invites[c].request

=============================================================================

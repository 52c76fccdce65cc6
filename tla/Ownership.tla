----------------------------- MODULE Ownership -----------------------------
(***************************************************************************)
(* Who may use a device, who owns it, and whose list it is on.             *)
(*                                                                         *)
(* A device has an authority record, which the first access check creates; *)
(* a user has a document with the devices of that user's list and a        *)
(* snapshot of their names.  Web requests check the access of a user and   *)
(* queue jobs; a job does not ask again, except a claim.  Jobs and the     *)
(* unregister request read a document, compute, and write it back, and     *)
(* nothing keeps others from writing in between.                           *)
(*                                                                         *)
(* The job list is the one of JobQueue, here only a FIFO list.             *)
(***************************************************************************)
EXTENDS Naturals, Sequences

CONSTANTS
    Users,
    Devices,
    Names,       \* nicknames users give
    NoName,      \* a device without a nickname
    Absent,      \* a device that was never seen, or is not on a list
    NoUser,
    NoRequest,
    Requests,    \* what users will ask for, each once
    Workers      \* the registrar processes

Kinds == {"claim", "look", "public", "private", "rename", "unregister"}
Checked == {"look", "public", "private", "rename"}

ASSUME OwnershipAssumption ==
    /\ Requests \subseteq
         [what : Kinds, user : Users, device : Devices, name : Names \cup {NoName}]
    /\ \A r \in Requests : r.what = "rename" => r.name \in Names
    /\ NoRequest \notin Requests
    /\ NoUser \notin Users
    /\ NoName \notin Names
    /\ Absent \notin Names \cup {NoName}

VARIABLES
    account,     \* account[u]: no document, one without a list, or one with a list
    list,        \* list[u][d]: the name under which d is on the list of u
    authority,   \* authority[d]: the authority record
    nickname,    \* nickname[d]: the name in the diagnostic of d
    claimant,    \* claimant[d]: the "original owner" in the diagnostic of d
    stage,       \* stage[r]: how far request r has come
    webRead,     \* webRead[r]: the list an unregister request read
    jobs,        \* the registrar job list, head first
    pc,          \* pc[w]: where worker w is in its job
    job,         \* job[w]: the request whose job w works on
    held,        \* held[w]: what w has read so far, or computed from it
    access,      \* history: the users and devices a check ever let through
    expected,    \* history: expected[u]: what the carried out requests say is listed
    overtaken,   \* history: users whose document was written from an outdated read
    missed       \* history: entries a rename has not reached

mongoVars == <<account, list, authority, nickname, claimant>>
webVars == <<stage, webRead>>
workerVars == <<pc, job, held>>
historyVars == <<access, expected, overtaken, missed>>
vars == <<mongoVars, webVars, jobs, workerVars, historyVars>>

Record(m, u, gs) == [model |-> m, owner |-> u, guests |-> gs]
NoRecord == Record("none", NoUser, {})
Records == [model : {"exclusive", "shared", "public"}, owner : Users, guests : SUBSET Users]

EmptyList == [d \in Devices |-> Absent]
Lists == [Devices -> Names \cup {NoName, Absent}]
Nothing == [list |-> EmptyList, name |-> Absent, record |-> NoRecord]
Holdings == [list : Lists, name : Names \cup {NoName, Absent}, record : Records \cup {NoRecord}]

TypeOK ==
    /\ account \in [Users -> {"none", "new", "listing"}]
    /\ list \in [Users -> Lists]
    /\ authority \in [Devices -> Records \cup {NoRecord}]
    /\ nickname \in [Devices -> Names \cup {NoName, Absent}]
    /\ claimant \in [Devices -> Users \cup {NoUser}]
    /\ stage \in [Requests -> {"new", "granted", "read", "done", "refused"}]
    /\ webRead \in [Requests -> Lists]
    /\ jobs \in Seq(Requests)
    /\ pc \in [Workers -> {"idle", "user", "device", "access", "write", "own",
                           "model", "replace", "rename", "spread"}]
    /\ job \in [Workers -> Requests \cup {NoRequest}]
    /\ held \in [Workers -> Holdings]
    /\ access \in SUBSET (Users \X Devices)
    /\ expected \in [Users -> SUBSET Devices]
    /\ overtaken \in SUBSET Users
    /\ missed \in SUBSET (Users \X Devices)
    /\ \A w \in Workers : pc[w] = "idle" <=> job[w] = NoRequest
    /\ \A u \in Users : account[u] # "listing" => list[u] = EmptyList

Init ==
    /\ account = [u \in Users |-> "none"]
    /\ list = [u \in Users |-> EmptyList]
    /\ authority = [d \in Devices |-> NoRecord]
    /\ nickname = [d \in Devices |-> Absent]
    /\ claimant = [d \in Devices |-> NoUser]
    /\ stage = [r \in Requests |-> "new"]
    /\ webRead = [r \in Requests |-> EmptyList]
    /\ jobs = <<>>
    /\ pc = [w \in Workers |-> "idle"]
    /\ job = [w \in Workers |-> NoRequest]
    /\ held = [w \in Workers |-> Nothing]
    /\ access = {}
    /\ expected = [u \in Users |-> {}]
    /\ overtaken = {}
    /\ missed = {}

-----------------------------------------------------------------------------
(* The access check                                                        *)

\* The record after the upsert of a check: whoever asks first about a device
\* without one becomes its owner.
Upsert(u, d) ==
    IF authority[d] = NoRecord THEN Record("exclusive", u, {}) ELSE authority[d]

\* Mutant: the owner of an exclusive record is not compared.
MayUseUnlessShared(u, a) ==
    \/ a.model \in {"public", "exclusive"}
    \/ a.owner = u
    \/ a.model = "shared" /\ u \in a.guests

MayUse(u, a) ==
    \/ a.model = "public"
    \/ a.owner = u
    \/ a.model = "shared" /\ u \in a.guests

\* user_access: the check, and the record it may leave behind.
UserAccess(u, d, allowed) ==
    LET a == Upsert(u, d) IN
      /\ allowed = MayUse(u, a)
      /\ authority' = [authority EXCEPT ![d] = a]
      /\ access' = IF allowed THEN access \cup {<<u, d>>} ELSE access

-----------------------------------------------------------------------------
(* Users, devices and web requests                                         *)

\* The login is complete: a document without a list, if there is none yet.
Login(u) ==
    /\ account[u] = "none"
    /\ account' = [account EXCEPT ![u] = "new"]
    /\ UNCHANGED <<list, authority, nickname, claimant, webVars, jobs, workerVars, historyVars>>

\* mark_active has heard of the device for the first time.
Seen(d) ==
    /\ nickname[d] = Absent
    /\ nickname' = [nickname EXCEPT ![d] = NoName]
    /\ UNCHANGED <<account, list, authority, claimant, webVars, jobs, workerVars, historyVars>>

Stage(r, s) == stage' = [stage EXCEPT ![r] = s]

\* register: a claim is queued without a look at the device.
Register(r) ==
    /\ r.what = "claim" /\ stage[r] = "new" /\ account[r.user] # "none"
    /\ Stage(r, "done")
    /\ jobs' = Append(jobs, r)
    /\ UNCHANGED <<mongoVars, webRead, workerVars, historyVars>>

\* queue, authority and info: the check comes first.  A look needs no more.
Check(r) ==
    /\ r.what \in Checked /\ stage[r] = "new" /\ account[r.user] # "none"
    /\ \E allowed \in BOOLEAN :
         /\ UserAccess(r.user, r.device, allowed)
         /\ Stage(r, CASE ~allowed -> "refused"
                       [] allowed /\ r.what = "look" -> "done"
                       [] OTHER -> "granted")
    /\ UNCHANGED <<account, list, nickname, claimant, webRead, jobs, workerVars,
                   expected, overtaken, missed>>

\* queue: the job says which device and what, not who asked.
Enqueue(r) ==
    /\ stage[r] = "granted"
    /\ Stage(r, "done")
    /\ jobs' = Append(jobs, r)
    /\ UNCHANGED <<mongoVars, webRead, workerVars, historyVars>>

\* unregister: the user is read with the list ...
ReadToUnregister(r) ==
    /\ r.what = "unregister" /\ stage[r] = "new" /\ account[r.user] # "none"
    /\ IF list[r.user][r.device] # Absent
       THEN Stage(r, "read") /\ webRead' = [webRead EXCEPT ![r] = list[r.user]]
       ELSE Stage(r, "refused") /\ UNCHANGED webRead
    /\ UNCHANGED <<mongoVars, jobs, workerVars, historyVars>>

\* ... and written back without the device.  The authority record stays.
Unregister(r) ==
    /\ stage[r] = "read"
    /\ list' = [list EXCEPT ![r.user] = [webRead[r] EXCEPT ![r.device] = Absent]]
    /\ Stage(r, "done")
    /\ webRead' = [webRead EXCEPT ![r] = EmptyList]
    /\ expected' = [expected EXCEPT ![r.user] = @ \ {r.device}]
    /\ overtaken' = IF list[r.user] = webRead[r] THEN overtaken ELSE overtaken \cup {r.user}
    /\ UNCHANGED <<account, authority, nickname, claimant, jobs, workerVars, access, missed>>

\* The database or redis fails, or the web server goes away.
RequestFails(r) ==
    /\ stage[r] \in {"granted", "read"}
    /\ Stage(r, "refused")
    /\ webRead' = [webRead EXCEPT ![r] = EmptyList]
    /\ UNCHANGED <<mongoVars, jobs, workerVars, historyVars>>

-----------------------------------------------------------------------------
(* Jobs                                                                    *)

To(w, place) == pc' = [pc EXCEPT ![w] = place]
EndJob(w) ==
    /\ To(w, "idle")
    /\ job' = [job EXCEPT ![w] = NoRequest]
    /\ held' = [held EXCEPT ![w] = Nothing]

Start(r) ==
    CASE r.what = "claim" -> "user"
      [] r.what = "rename" -> "rename"
      [] OTHER -> "model"

Pop(w) ==
    /\ pc[w] = "idle" /\ jobs # <<>>
    /\ jobs' = Tail(jobs)
    /\ job' = [job EXCEPT ![w] = Head(jobs)]
    /\ To(w, Start(Head(jobs)))
    /\ UNCHANGED <<mongoVars, webVars, held, historyVars>>

\* An error of the database ends the job where it is fatal, or the process
\* dies between any two steps; either way nothing more is done for this job.
Abandon(w) ==
    /\ pc[w] # "idle"
    /\ EndJob(w)
    /\ UNCHANGED <<mongoVars, webVars, jobs, historyVars>>

\* register_device: the user document, which is kept to be written back.
ReadUser(w) ==
    /\ pc[w] = "user"
    /\ held' = [held EXCEPT ![w].list = list[job[w].user]]
    /\ To(w, "device")
    /\ UNCHANGED <<mongoVars, webVars, jobs, job, historyVars>>

\* Mutant: the device is there, so the access check is skipped.
ReadDeviceOnly(w) ==
    /\ pc[w] = "device"
    /\ IF nickname[job[w].device] # Absent
       THEN /\ held' = [held EXCEPT ![w].name = nickname[job[w].device]]
            /\ To(w, "write")
            /\ UNCHANGED job
       ELSE EndJob(w)
    /\ UNCHANGED <<mongoVars, webVars, jobs, historyVars>>

\* register_device: the diagnostic; a device that was never seen is an error.
ReadDevice(w) ==
    /\ pc[w] = "device"
    /\ IF nickname[job[w].device] # Absent
       THEN /\ held' = [held EXCEPT ![w].name = nickname[job[w].device]]
            /\ To(w, "access")
            /\ UNCHANGED job
       ELSE EndJob(w)
    /\ UNCHANGED <<mongoVars, webVars, jobs, historyVars>>

\* register_device: the access check.
ClaimAccess(w) ==
    /\ pc[w] = "access"
    /\ \E allowed \in BOOLEAN :
         /\ UserAccess(job[w].user, job[w].device, allowed)
         /\ IF allowed THEN To(w, "write") /\ UNCHANGED <<job, held>> ELSE EndJob(w)
    /\ UNCHANGED <<account, list, nickname, claimant, webVars, jobs,
                   expected, overtaken, missed>>

\* register_device: the document as it was read, with the device added.
WriteUser(w) ==
    LET u == job[w].user
        d == job[w].device
        fresh == list[u] = held[w].list /\ nickname[d] = held[w].name IN
      /\ pc[w] = "write"
      /\ list' = [list EXCEPT ![u] = [held[w].list EXCEPT ![d] = held[w].name]]
      /\ account' = [account EXCEPT ![u] = "listing"]
      /\ expected' = [expected EXCEPT ![u] = @ \cup {d}]
      /\ overtaken' = IF fresh THEN overtaken ELSE overtaken \cup {u}
      /\ missed' = missed \ {<<u, d>>}
      /\ To(w, "own")
      /\ UNCHANGED <<authority, nickname, claimant, webVars, jobs, job, held, access>>

\* register_device: the diagnostic names the user as original owner, whoever
\* it named before; an error is logged.  The guest list of a public device is
\* not changed: the driver refuses that update, which has no operator.
Own(w) ==
    /\ pc[w] = "own"
    /\ \E u \in {job[w].user, claimant[job[w].device]} :
         claimant' = [claimant EXCEPT ![job[w].device] = u]
    /\ EndJob(w)
    /\ UNCHANGED <<account, list, authority, nickname, webVars, jobs, historyVars>>

\* process_change: the model that follows the one that was read.
Changed(a, what) ==
    CASE a.model = "exclusive" /\ what = "public" -> Record("public", a.owner, {})
      [] a.model = "public" /\ what = "private" -> Record("shared", a.owner, a.guests)
      [] a.model = "shared" /\ what = "private" -> Record("exclusive", a.owner, {})
      [] OTHER -> a

\* Mutant: whoever asks for the change becomes the owner.
ReadModelForUser(w) ==
    /\ pc[w] = "model"
    /\ LET a == authority[job[w].device]
           b == Changed(a, job[w].what) IN
         IF a # NoRecord /\ b # a
         THEN /\ held' = [held EXCEPT ![w].record = [b EXCEPT !.owner = job[w].user]]
              /\ To(w, "replace")
              /\ UNCHANGED job
         ELSE EndJob(w)
    /\ UNCHANGED <<mongoVars, webVars, jobs, historyVars>>

\* process_change: the record is read; nothing to change ends the job.
ReadModel(w) ==
    /\ pc[w] = "model"
    /\ LET a == authority[job[w].device]
           b == Changed(a, job[w].what) IN
         IF a # NoRecord /\ b # a
         THEN /\ held' = [held EXCEPT ![w].record = b]
              /\ To(w, "replace")
              /\ UNCHANGED job
         ELSE EndJob(w)
    /\ UNCHANGED <<mongoVars, webVars, jobs, historyVars>>

\* process_change: the whole record is replaced.
Replace(w) ==
    /\ pc[w] = "replace"
    /\ authority' = [authority EXCEPT ![job[w].device] = held[w].record]
    /\ EndJob(w)
    /\ UNCHANGED <<account, list, nickname, claimant, webVars, jobs, historyVars>>

\* Mutant: the document before the update is returned.
RenameReturnsBefore(w) ==
    LET d == job[w].device IN
      /\ pc[w] = "rename"
      /\ IF nickname[d] # Absent
         THEN /\ nickname' = [nickname EXCEPT ![d] = job[w].name]
              /\ held' = [held EXCEPT ![w].name = nickname[d]]
              /\ missed' = missed \cup {<<u, d>> : u \in {v \in Users : list[v][d] # Absent}}
              /\ To(w, "spread")
              /\ UNCHANGED job
         ELSE EndJob(w) /\ UNCHANGED <<nickname, missed>>
      /\ UNCHANGED <<account, list, authority, claimant, webVars, jobs,
                     access, expected, overtaken>>

\* rename: the diagnostic first, which is returned as updated.
Rename(w) ==
    LET d == job[w].device IN
      /\ pc[w] = "rename"
      /\ IF nickname[d] # Absent
         THEN /\ nickname' = [nickname EXCEPT ![d] = job[w].name]
              /\ held' = [held EXCEPT ![w].name = job[w].name]
              /\ missed' = missed \cup {<<u, d>> : u \in {v \in Users : list[v][d] # Absent}}
              /\ To(w, "spread")
              /\ UNCHANGED job
         ELSE EndJob(w) /\ UNCHANGED <<nickname, missed>>
      /\ UNCHANGED <<account, list, authority, claimant, webVars, jobs,
                     access, expected, overtaken>>

\* Mutant: users without a list are not left out.
SpreadToAll(w) ==
    LET d == job[w].device IN
      /\ pc[w] = "spread"
      /\ \E us \in SUBSET Users :
           /\ list' = [u \in Users |->
                        IF u \in us THEN [list[u] EXCEPT ![d] = held[w].name] ELSE list[u]]
           /\ expected' = [u \in Users |-> IF u \in us THEN expected[u] \cup {d} ELSE expected[u]]
           /\ missed' = missed \ {<<u, d>> : u \in us}
           /\ overtaken' = IF nickname[d] = job[w].name THEN overtaken ELSE overtaken \cup us
      /\ EndJob(w)
      /\ UNCHANGED <<account, authority, nickname, claimant, webVars, jobs, access>>

\* rename: then every list, those without the device included.  The update
\* stops at the first user that has no list (the field is there, but null),
\* or where the database fails, and the error is logged.
Spread(w) ==
    LET d == job[w].device IN
      /\ pc[w] = "spread"
      /\ \E us \in SUBSET {u \in Users : account[u] = "listing"} :
           /\ list' = [u \in Users |->
                        IF u \in us THEN [list[u] EXCEPT ![d] = held[w].name] ELSE list[u]]
           /\ expected' = [u \in Users |-> IF u \in us THEN expected[u] \cup {d} ELSE expected[u]]
           /\ missed' = missed \ {<<u, d>> : u \in us}
           /\ overtaken' = IF nickname[d] = job[w].name THEN overtaken ELSE overtaken \cup us
      /\ EndJob(w)
      /\ UNCHANGED <<account, authority, nickname, claimant, webVars, jobs, access>>

-----------------------------------------------------------------------------
(* The specification                                                       *)

Ask(r) ==
    \/ Register(r)
    \/ Check(r)
    \/ Enqueue(r)
    \/ ReadToUnregister(r)
    \/ Unregister(r)
    \/ RequestFails(r)

Work(w) ==
    \/ Pop(w)
    \/ ReadUser(w)
    \/ ReadDevice(w)
    \/ ClaimAccess(w)
    \/ WriteUser(w)
    \/ Own(w)
    \/ ReadModel(w)
    \/ Replace(w)
    \/ Rename(w)
    \/ Spread(w)
    \/ Abandon(w)

Next ==
    \/ \E u \in Users : Login(u)
    \/ \E d \in Devices : Seen(d)
    \/ \E r \in Requests : Ask(r)
    \/ \E w \in Workers : Work(w)

Spec == Init /\ [][Next]_vars

-----------------------------------------------------------------------------
(* What must be true                                                       *)

\* A device keeps the owner its first record named: neither another user's
\* check or claim nor two changes that overtake each other replace it.
OwnerIsForever ==
    [][\A d \in Devices : authority[d] # NoRecord => authority'[d].owner = authority[d].owner]_vars

\* Nobody but the owner is ever let through before the owner has asked for
\* the device to be public, whatever claims and checks come in which order,
\* and although a job does not know who asked for it.
OpenedByOwner ==
    \A d \in Devices : \A u \in Users :
        <<u, d>> \in access /\ authority[d].owner # u =>
            \E r \in Requests :
                /\ r.what = "public" /\ r.device = d /\ r.user = authority[d].owner
                /\ stage[r] = "done"

\* Nobody gets a device on a list, or is named its original owner, without
\* having been let through; a rename alone can put it on other lists.
ListedOnlyIfGranted ==
    \A u \in Users : \A d \in Devices :
        /\ list[u][d] # Absent => <<u, d>> \in access \/ nickname[d] \in Names
        /\ claimant[d] = u => <<u, d>> \in access

\* A list holds what the requests that were carried out say, and under the
\* device's name, unless its document was written back from an outdated read
\* or a rename did not reach it.
ListIsCurrent ==
    \A u \in Users \ overtaken :
        /\ {d \in Devices : list[u][d] # Absent} = expected[u]
        /\ \A d \in expected[u] : <<u, d>> \notin missed => list[u][d] = nickname[d]
=============================================================================

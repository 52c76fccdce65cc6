-------------------------- MODULE OwnershipProofs --------------------------
(***************************************************************************)
(* Who owns a device, who may use it and what is on a list, for every      *)
(* number of users, devices, requests and registrar workers.               *)
(*                                                                         *)
(* What a worker has read is outdated when it writes, so the invariant has *)
(* to say what every worker in the middle of a job, every request between  *)
(* its read and its write, and every queued job may rely on.               *)
(***************************************************************************)
EXTENDS Ownership, TLAPS

\* The devices whose owner has asked for them to be public.
Opened ==
    {d \in Devices :
        \E r \in Requests :
            /\ r.what = "public" /\ r.device = d /\ r.user = authority[d].owner
            /\ stage[r] = "done"}

\* Users with the devices that may be on their list: they were let through, or
\* the device was renamed, which lists it for others.
Listable ==
    {p \in Users \X Devices : p \in access \/ nickname[p[2]] \in Names}

\* What is behind a request or a job that is under way.
UnderWay ==
    /\ \A r \in Requests :
         stage[r] = "read" => r.what = "unregister" /\ account[r.user] = "listing"
    /\ \A k \in DOMAIN jobs : stage[jobs[k]] = "done"
    /\ \A w \in Workers : pc[w] # "idle" => stage[job[w]] = "done"

\* What a worker holds.
InHand ==
    \A w \in Workers :
        /\ pc[w] = "idle" => held[w] = Nothing
        /\ pc[w] \in {"access", "write"} => held[w].name # Absent
        /\ pc[w] \in {"rename", "spread"} => job[w].what = "rename"
        /\ pc[w] = "spread" =>
             held[w].name = job[w].name /\ nickname[job[w].device] \in Names
        /\ pc[w] = "replace" =>
             /\ authority[job[w].device] # NoRecord
             /\ held[w].record \in Records
             /\ held[w].record.owner = authority[job[w].device].owner

\* Nobody is let through to a device of another that was not opened.
Guarded ==
    /\ \A d \in Devices : authority[d].model \in {"public", "shared"} => d \in Opened
    /\ \A w \in Workers :
         pc[w] = "replace" /\ held[w].record.model \in {"public", "shared"} =>
             job[w].device \in Opened
    /\ \A r \in Requests :
         r.what = "public" /\ stage[r] \in {"granted", "done"} =>
             /\ authority[r.device] # NoRecord
             /\ authority[r.device].owner = r.user \/ r.device \in Opened
    /\ \A u \in Users : \A d \in Devices :
         <<u, d>> \in access =>
             /\ authority[d] # NoRecord
             /\ authority[d].owner = u \/ d \in Opened

\* Lists, and the copies of them that will be written back.
Vouched ==
    /\ \A u \in Users : \A d \in Devices :
         /\ list[u][d] # Absent => <<u, d>> \in Listable
         /\ claimant[d] = u => <<u, d>> \in access
    /\ \A r \in Requests : \A d \in Devices : webRead[r][d] # Absent => <<r.user, d>> \in Listable
    /\ \A w \in Workers :
         pc[w] # "idle" =>
             \A d \in Devices : held[w].list[d] # Absent => <<job[w].user, d>> \in Listable
    /\ \A w \in Workers :
         pc[w] \in {"write", "own"} => <<job[w].user, job[w].device>> \in access

IInv == TypeOK /\ UnderWay /\ InHand /\ Guarded /\ Vouched /\ ListIsCurrent

-----------------------------------------------------------------------------
(* Data                                                                    *)

\* The fields of a request.
LEMMA RequestFields ==
    ASSUME NEW r \in Requests
    PROVE  /\ r.what \in Kinds /\ r.user \in Users /\ r.device \in Devices
           /\ r.name \in Names \cup {NoName}
           /\ r.what = "rename" => r.name \in Names
           /\ r # NoRequest
  BY OwnershipAssumption

\* The fields of an authority record, and that of no record.
LEMMA RecordFields ==
    /\ \A a \in Records : /\ a.model \in {"exclusive", "shared", "public"}
                          /\ a.owner \in Users /\ a.guests \in SUBSET Users
                          /\ a # NoRecord
    /\ \A m \in {"exclusive", "shared", "public"} : \A u \in Users : \A gs \in SUBSET Users :
         /\ Record(m, u, gs) \in Records
         /\ Record(m, u, gs).model = m /\ Record(m, u, gs).owner = u
    /\ NoRecord.model = "none"
  BY OwnershipAssumption DEF Records, Record, NoRecord

\* The job list.
LEMMA JobList ==
    ASSUME NEW s \in Seq(Requests)
    PROVE  /\ s # <<>> => /\ Head(s) \in Requests /\ Tail(s) \in Seq(Requests)
                          /\ 1 \in DOMAIN s /\ Head(s) = s[1]
                          /\ \A k \in DOMAIN Tail(s) : k + 1 \in DOMAIN s /\ Tail(s)[k] = s[k + 1]
           /\ \A r \in Requests :
                /\ Append(s, r) \in Seq(Requests)
                /\ \A k \in DOMAIN Append(s, r) :
                     Append(s, r)[k] = r \/ (k \in DOMAIN s /\ Append(s, r)[k] = s[k])
  OBVIOUS

\* A check was made of whether u may use d.
Asked(u, d) == \E allowed \in BOOLEAN : UserAccess(u, d, allowed)

\* Whoever is let through is remembered.
LEMMA Granted ==
    ASSUME NEW u, NEW d, NEW allowed \in BOOLEAN, UserAccess(u, d, allowed)
    PROVE  Asked(u, d) /\ (allowed = TRUE => <<u, d>> \in access')
  BY DEF Asked, UserAccess

\* What a check does to a record, and whom it lets pass.
LEMMA AccessCheck ==
    ASSUME TypeOK, NEW u \in Users, NEW d \in Devices, Asked(u, d)
    PROVE  /\ authority' \in [Devices -> Records \cup {NoRecord}]
           /\ \A e \in Devices \ {d} : authority'[e] = authority[e]
           /\ authority'[d] \in Records /\ authority'[d] # NoRecord
           /\ authority[d] # NoRecord => authority'[d] = authority[d]
           /\ authority[d] = NoRecord =>
                authority'[d].model = "exclusive" /\ authority'[d].owner = u
           /\ access' \in SUBSET (Users \X Devices)
           /\ access \subseteq access' /\ access' \subseteq access \cup {<<u, d>>}
           /\ \/ access' = access
              \/ authority'[d].owner = u
              \/ authority'[d].model \in {"public", "shared"}
<1> DEFINE a == Upsert(u, d)
<1>1. /\ a \in Records
      /\ authority[d] # NoRecord => a = authority[d]
      /\ authority[d] = NoRecord => a = Record("exclusive", u, {})
  BY RecordFields DEF TypeOK, Upsert
<1>2. /\ authority' = [authority EXCEPT ![d] = a]
      /\ \/ access' = access
         \/ MayUse(u, a) /\ access' = access \cup {<<u, d>>}
  BY DEF Asked, UserAccess
<1>3. MayUse(u, a) => a.owner = u \/ a.model \in {"public", "shared"}
  BY DEF MayUse
<1> HIDE DEF a
<1> QED
  BY <1>1, <1>2, <1>3, RecordFields DEF TypeOK

-----------------------------------------------------------------------------
(* Types                                                                   *)

\* The steps of requests keep the types.
LEMMA AskTypes ==
    ASSUME TypeOK, UnderWay, NEW r \in Requests, Ask(r)
    PROVE  TypeOK'
<1> USE RequestFields
<1>0. \A q \in Requests : Append(jobs, q) \in Seq(Requests)
  BY JobList DEF TypeOK
<1>1. CASE Register(r)
  BY <1>0, <1>1 DEF TypeOK, Register, Stage, mongoVars, workerVars, historyVars
<1>2. CASE Check(r)
  <2>1. Asked(r.user, r.device)
    BY <1>2 DEF Check, Asked
  <2>2. /\ authority' \in [Devices -> Records \cup {NoRecord}]
        /\ access' \in SUBSET (Users \X Devices)
    BY <2>1, AccessCheck
  <2>3. stage' \in [Requests -> {"new", "granted", "read", "done", "refused"}]
    BY <1>2 DEF TypeOK, Check, Stage
  <2> QED
    BY <1>2, <2>2, <2>3 DEF TypeOK, Check, workerVars
<1>3. CASE Enqueue(r)
  BY <1>0, <1>3 DEF TypeOK, Enqueue, Stage, mongoVars, workerVars, historyVars
<1>4. CASE ReadToUnregister(r)
  <2>1. list[r.user] \in Lists
    BY RequestFields DEF TypeOK
  <2>2. webRead' \in [Requests -> Lists]
    BY <1>4, <2>1 DEF TypeOK, ReadToUnregister
  <2>3. stage' \in [Requests -> {"new", "granted", "read", "done", "refused"}]
    BY <1>4 DEF TypeOK, ReadToUnregister, Stage
  <2> QED
    BY <1>4, <2>2, <2>3 DEF TypeOK, ReadToUnregister, mongoVars, workerVars, historyVars
<1>5. CASE Unregister(r)
  <2>1. list' \in [Users -> Lists] /\ webRead' \in [Requests -> Lists]
    BY <1>5 DEF TypeOK, Unregister, Lists, EmptyList
  <2>2. account[r.user] = "listing"
    BY <1>5 DEF Unregister, UnderWay
  <2>3. \A u \in Users : account'[u] # "listing" => list'[u] = EmptyList
    BY <1>5, <2>2 DEF TypeOK, Unregister
  <2> QED
    BY <1>5, <2>1, <2>3 DEF TypeOK, Unregister, Stage, workerVars
<1>6. CASE RequestFails(r)
  BY <1>6 DEF TypeOK, RequestFails, Stage, Lists, EmptyList, mongoVars, workerVars, historyVars
<1> QED
  BY <1>1, <1>2, <1>3, <1>4, <1>5, <1>6 DEF Ask

\* What a job that ends leaves of its worker.
LEMMA EndTypes ==
    ASSUME TypeOK, NEW w \in Workers, EndJob(w)
    PROVE  /\ pc' \in [Workers -> {"idle", "user", "device", "access", "write", "own",
                                   "model", "replace", "rename", "spread"}]
           /\ job' \in [Workers -> Requests \cup {NoRequest}]
           /\ held' \in [Workers -> Holdings]
           /\ \A x \in Workers : pc'[x] = "idle" <=> job'[x] = NoRequest
<1>1. Nothing \in Holdings
  BY DEF Nothing, Holdings, Lists, EmptyList
<1> QED
  BY <1>1 DEF TypeOK, EndJob, To

\* What a worker holds when it has read something more.
LEMMA HeldTypes ==
    ASSUME NEW h \in [Workers -> Holdings], NEW w \in Workers
    PROVE  /\ \A l \in Lists : [h EXCEPT ![w].list = l] \in [Workers -> Holdings]
           /\ \A n \in Names \cup {NoName, Absent} :
                [h EXCEPT ![w].name = n] \in [Workers -> Holdings]
           /\ \A a \in Records : [h EXCEPT ![w].record = a] \in [Workers -> Holdings]
  BY DEF Holdings

\* The steps of a worker that claims a device keep the types ...
LEMMA ClaimTypes ==
    ASSUME TypeOK, NEW w \in Workers,
           \/ ReadUser(w)
           \/ ReadDevice(w)
           \/ ClaimAccess(w)
           \/ WriteUser(w)
           \/ Own(w)
    PROVE  TypeOK'
<1> USE RequestFields
<1>1. CASE ReadUser(w)
  <2>1. job[w].user \in Users
    BY <1>1 DEF TypeOK, ReadUser
  <2>2. held' \in [Workers -> Holdings]
    BY <1>1, <2>1, HeldTypes DEF TypeOK, ReadUser
  <2> QED
    BY <1>1, <2>2 DEF TypeOK, ReadUser, To, mongoVars, webVars, historyVars
<1>2. CASE ReadDevice(w)
  <2>1. CASE nickname[job[w].device] # Absent
    <3>1. nickname[job[w].device] \in Names \cup {NoName, Absent}
      BY <1>2 DEF TypeOK, ReadDevice
    <3>2. held' = [held EXCEPT ![w].name = nickname[job[w].device]]
      BY <1>2, <2>1, Zenon DEF ReadDevice
    <3>3. held \in [Workers -> Holdings]
      BY DEF TypeOK
    <3>4. held' \in [Workers -> Holdings]
      BY <3>1, <3>2, <3>3, HeldTypes, Zenon
    <3> QED
      BY <1>2, <2>1, <3>4 DEF TypeOK, ReadDevice, To, mongoVars, webVars, historyVars
  <2>2. CASE nickname[job[w].device] = Absent
    BY <1>2, <2>2, EndTypes DEF TypeOK, ReadDevice, mongoVars, webVars, historyVars
  <2> QED
    BY <2>1, <2>2
<1>3. CASE ClaimAccess(w)
  <2>1. job[w].user \in Users /\ job[w].device \in Devices
    BY <1>3 DEF TypeOK, ClaimAccess
  <2>2. Asked(job[w].user, job[w].device)
    BY <1>3 DEF ClaimAccess, Asked
  <2>3. /\ authority' \in [Devices -> Records \cup {NoRecord}]
        /\ access' \in SUBSET (Users \X Devices)
    BY <2>1, <2>2, AccessCheck
  <2>4. CASE To(w, "write") /\ UNCHANGED <<job, held>>
    BY <1>3, <2>3, <2>4 DEF TypeOK, ClaimAccess, To, webVars
  <2>5. CASE EndJob(w)
    BY <1>3, <2>3, <2>5, EndTypes DEF TypeOK, ClaimAccess, webVars
  <2> QED
    BY <1>3, <2>4, <2>5 DEF ClaimAccess
<1>4. CASE WriteUser(w)
  <2>1. /\ list' \in [Users -> Lists]
        /\ account' \in [Users -> {"none", "new", "listing"}]
        /\ expected' \in [Users -> SUBSET Devices]
        /\ overtaken' \in SUBSET Users /\ missed' \in SUBSET (Users \X Devices)
    BY <1>4 DEF TypeOK, WriteUser, Holdings, Lists
  <2>2. \A u \in Users : account'[u] # "listing" => list'[u] = EmptyList
    BY <1>4 DEF TypeOK, WriteUser
  <2> QED
    BY <1>4, <2>1, <2>2 DEF TypeOK, WriteUser, To, webVars
<1>5. CASE Own(w)
  BY <1>5, EndTypes DEF TypeOK, Own, webVars, historyVars
<1> QED
  BY <1>1, <1>2, <1>3, <1>4, <1>5

\* ... and so do those of one that changes a model or a name.
LEMMA ChangeTypes ==
    ASSUME TypeOK, InHand, NEW w \in Workers,
           \/ Pop(w)
           \/ ReadModel(w)
           \/ Replace(w)
           \/ Rename(w)
           \/ Spread(w)
           \/ Abandon(w)
    PROVE  TypeOK'
<1> USE RequestFields
<1>1. CASE Pop(w)
  <2>1. Head(jobs) \in Requests /\ Tail(jobs) \in Seq(Requests)
    BY <1>1, JobList DEF TypeOK, Pop
  <2> QED
    BY <1>1, <2>1 DEF TypeOK, Pop, To, Start, mongoVars, webVars, historyVars
<1>2. CASE ReadModel(w)
  <2>1. CASE /\ authority[job[w].device] # NoRecord
             /\ Changed(authority[job[w].device], job[w].what) # authority[job[w].device]
    <3>1. Changed(authority[job[w].device], job[w].what) \in Records
      BY <1>2, <2>1, RecordFields DEF TypeOK, ReadModel, Changed
    <3>2. held' = [held EXCEPT ![w].record = Changed(authority[job[w].device], job[w].what)]
      BY <1>2, <2>1, Zenon DEF ReadModel
    <3>3. held \in [Workers -> Holdings]
      BY DEF TypeOK
    <3>4. held' \in [Workers -> Holdings]
      BY <3>1, <3>2, <3>3, HeldTypes, Zenon
    <3> QED
      BY <1>2, <2>1, <3>4 DEF TypeOK, ReadModel, To, mongoVars, webVars, historyVars
  <2>2. CASE ~(/\ authority[job[w].device] # NoRecord
               /\ Changed(authority[job[w].device], job[w].what) # authority[job[w].device])
    BY <1>2, <2>2, EndTypes DEF TypeOK, ReadModel, mongoVars, webVars, historyVars
  <2> QED
    BY <2>1, <2>2
<1>3. CASE Replace(w)
  BY <1>3, EndTypes DEF TypeOK, InHand, Replace, webVars, historyVars
<1>4. CASE Rename(w)
  <2>1. missed' \in SUBSET (Users \X Devices)
    BY <1>4 DEF TypeOK, Rename
  <2>2. CASE nickname[job[w].device] # Absent
    <3>0. job[w].name \in Names \cup {NoName, Absent} /\ held \in [Workers -> Holdings]
      BY <1>4 DEF TypeOK, Rename
    <3>1. /\ held' = [held EXCEPT ![w].name = job[w].name]
          /\ nickname' = [nickname EXCEPT ![job[w].device] = job[w].name]
      BY <1>4, <2>2, Zenon DEF Rename
    <3>2. held' \in [Workers -> Holdings]
      BY <3>0, <3>1, HeldTypes, Zenon
    <3>3. nickname' \in [Devices -> Names \cup {NoName, Absent}]
      BY <3>0, <3>1 DEF TypeOK
    <3> QED
      BY <1>4, <2>1, <2>2, <3>2, <3>3 DEF TypeOK, Rename, To, webVars
  <2>3. CASE nickname[job[w].device] = Absent
    BY <1>4, <2>1, <2>3, EndTypes DEF TypeOK, Rename, webVars
  <2> QED
    BY <2>2, <2>3
<1>5. CASE Spread(w)
  <2>1. job[w] \in Requests
    BY <1>5 DEF TypeOK, Spread
  <2>2. /\ list' \in [Users -> Lists]
        /\ expected' \in [Users -> SUBSET Devices]
        /\ overtaken' \in SUBSET Users /\ missed' \in SUBSET (Users \X Devices)
        /\ \A u \in Users : account[u] # "listing" => list'[u] = list[u]
    BY <1>5, <2>1 DEF TypeOK, Spread, Holdings, Lists
  <2> QED
    BY <1>5, <2>2, EndTypes DEF TypeOK, Spread, webVars
<1>6. CASE Abandon(w)
  BY <1>6, EndTypes DEF TypeOK, Abandon, mongoVars, webVars, historyVars
<1> QED
  BY <1>1, <1>2, <1>3, <1>4, <1>5, <1>6

\* Every step keeps the types.
LEMMA NextTypes ==
    ASSUME TypeOK, UnderWay, InHand, [Next]_vars
    PROVE  TypeOK'
<1>1. ASSUME NEW u \in Users, Login(u)
      PROVE  TypeOK'
  BY <1>1 DEF TypeOK, Login, webVars, workerVars, historyVars
<1>2. ASSUME NEW d \in Devices, Seen(d)
      PROVE  TypeOK'
  BY <1>2 DEF TypeOK, Seen, webVars, workerVars, historyVars
<1>3. CASE UNCHANGED vars
  BY <1>3 DEF TypeOK, vars, mongoVars, webVars, workerVars, historyVars
<1> QED
  BY <1>1, <1>2, <1>3, AskTypes, ClaimTypes, ChangeTypes DEF Next, Work

-----------------------------------------------------------------------------
(* What a step leaves alone, and what no step takes back                   *)

\* A step of one worker is not one of another, or of a request.
LEMMA WorkLocal ==
    ASSUME TypeOK, NEW w \in Workers, Work(w)
    PROVE  /\ \A x \in Workers \ {w} : pc'[x] = pc[x] /\ job'[x] = job[x] /\ held'[x] = held[x]
           /\ stage' = stage /\ webRead' = webRead
           /\ pc[w] # "idle" => pc'[w] = "idle" \/ job'[w] = job[w]
           /\ pc'[w] = "idle" => held'[w] = Nothing
           /\ ~Pop(w) => jobs' = jobs /\ pc[w] # "idle"
<1> USE DEF To, webVars
<1>1. ASSUME EndJob(w)
      PROVE  /\ \A x \in Workers \ {w} : pc'[x] = pc[x] /\ job'[x] = job[x] /\ held'[x] = held[x]
             /\ pc'[w] = "idle" /\ held'[w] = Nothing
  BY <1>1 DEF TypeOK, EndJob
<1>2. CASE Pop(w)
  BY <1>2 DEF TypeOK, Pop, Start
<1>3. CASE ReadUser(w)
  BY <1>3 DEF TypeOK, ReadUser
<1>4. CASE ReadDevice(w)
  BY <1>1, <1>4 DEF TypeOK, ReadDevice
<1>5. CASE ClaimAccess(w)
  BY <1>1, <1>5 DEF TypeOK, ClaimAccess
<1>6. CASE WriteUser(w)
  BY <1>6 DEF TypeOK, WriteUser
<1>7. CASE Own(w)
  BY <1>1, <1>7 DEF TypeOK, Own
<1>8. CASE ReadModel(w)
  BY <1>1, <1>8 DEF TypeOK, ReadModel
<1>9. CASE Replace(w)
  BY <1>1, <1>9 DEF TypeOK, Replace
<1>10. CASE Rename(w)
  BY <1>1, <1>10 DEF TypeOK, Rename
<1>11. CASE Spread(w)
  BY <1>1, <1>11 DEF TypeOK, Spread
<1>12. CASE Abandon(w)
  BY <1>1, <1>12 DEF TypeOK, Abandon
<1> QED
  BY <1>2, <1>3, <1>4, <1>5, <1>6, <1>7, <1>8, <1>9, <1>10, <1>11, <1>12 DEF Work

\* A step of a request is not one of another, or of a worker.
LEMMA AskLocal ==
    ASSUME TypeOK, NEW r \in Requests, Ask(r)
    PROVE  /\ \A q \in Requests \ {r} : stage'[q] = stage[q] /\ webRead'[q] = webRead[q]
           /\ UNCHANGED <<workerVars, account, nickname, claimant, missed>>
           /\ stage[r] # "done"
<1> USE DEF Stage, mongoVars, workerVars, historyVars
<1>1. CASE Register(r)
  BY <1>1 DEF TypeOK, Register
<1>2. CASE Check(r)
  BY <1>2 DEF TypeOK, Check
<1>3. CASE Enqueue(r)
  BY <1>3 DEF TypeOK, Enqueue
<1>4. CASE ReadToUnregister(r)
  BY <1>4 DEF TypeOK, ReadToUnregister
<1>5. CASE Unregister(r)
  BY <1>5 DEF TypeOK, Unregister
<1>6. CASE RequestFails(r)
  BY <1>6 DEF TypeOK, RequestFails
<1> QED
  BY <1>1, <1>2, <1>3, <1>4, <1>5, <1>6 DEF Ask

\* Whichever step is taken, a record keeps its owner, and is never removed.
LEMMA OwnerStep ==
    ASSUME TypeOK, InHand, [Next]_vars, NEW d \in Devices, authority[d] # NoRecord
    PROVE  authority'[d] # NoRecord /\ authority'[d].owner = authority[d].owner
<1> USE RequestFields DEF mongoVars, webVars, workerVars, historyVars
<1>1. CASE \E r \in Requests : Ask(r)
  <2>1. PICK r \in Requests : Ask(r)
    BY <1>1
  <2>2. CASE Check(r)
    <3>1. Asked(r.user, r.device)
      BY <2>2 DEF Check, Asked
    <3> QED
      BY <3>1, AccessCheck
  <2>3. CASE authority' = authority
    BY <2>3
  <2> QED
    BY <2>1, <2>2, <2>3 DEF Ask, Register, Enqueue, ReadToUnregister, Unregister, RequestFails
<1>2. CASE \E w \in Workers : Work(w)
  <2>1. PICK w \in Workers : Work(w)
    BY <1>2
  <2>2. CASE ClaimAccess(w)
    <3>0. job[w].user \in Users /\ job[w].device \in Devices
      BY <2>2 DEF TypeOK, ClaimAccess
    <3>1. Asked(job[w].user, job[w].device)
      BY <2>2 DEF ClaimAccess, Asked
    <3> QED
      BY <3>0, <3>1, AccessCheck
  <2>3. CASE Replace(w)
    <3>1. /\ authority' = [authority EXCEPT ![job[w].device] = held[w].record]
          /\ pc[w] = "replace"
      BY <2>3 DEF Replace
    <3>2. CASE d = job[w].device
      BY <3>1, <3>2, RecordFields DEF TypeOK, InHand
    <3>3. CASE d # job[w].device
      BY <3>1, <3>3 DEF TypeOK
    <3> QED
      BY <3>2, <3>3
  <2>4. CASE authority' = authority
    BY <2>4
  <2> QED
    BY <2>1, <2>2, <2>3, <2>4 DEF Work, Pop, ReadUser, ReadDevice, WriteUser, Own, ReadModel,
                                  Rename, Spread, Abandon
<1> QED
  BY <1>1, <1>2 DEF Next, Login, Seen, vars

\* No step takes back what was asked, let through or renamed.
LEMMA Kept ==
    ASSUME TypeOK, InHand, [Next]_vars
    PROVE  /\ \A r \in Requests : stage[r] = "done" => stage'[r] = "done"
           /\ access \subseteq access'
           /\ \A d \in Devices : nickname[d] \in Names => nickname'[d] \in Names
           /\ \A u \in Users : account[u] = "listing" => account'[u] = "listing"
<1> USE RequestFields DEF mongoVars, webVars, workerVars, historyVars
<1>1. ASSUME NEW r \in Requests, Ask(r)
      PROVE  /\ \A q \in Requests : stage[q] = "done" => stage'[q] = "done"
             /\ access \subseteq access'
             /\ nickname' = nickname /\ account' = account
  <2>1. access \subseteq access'
    <3>1. CASE Check(r)
      BY <3>1, AccessCheck DEF Check, Asked
    <3>2. CASE access' = access
      BY <3>2
    <3> QED
      BY <1>1, <3>1, <3>2 DEF Ask, Register, Enqueue, ReadToUnregister, Unregister, RequestFails
  <2> QED
    BY <1>1, <2>1, AskLocal
<1>2. ASSUME NEW w \in Workers, Work(w)
      PROVE  /\ stage' = stage
             /\ access \subseteq access'
             /\ \A d \in Devices : nickname[d] \in Names => nickname'[d] \in Names
             /\ \A u \in Users : account[u] = "listing" => account'[u] = "listing"
  <2>1. CASE ClaimAccess(w)
    <3>0. job[w].user \in Users /\ job[w].device \in Devices
      BY <2>1 DEF TypeOK, ClaimAccess
    <3> QED
      BY <2>1, <3>0, AccessCheck DEF ClaimAccess, Asked
  <2>2. CASE Rename(w)
    <3>1. job[w] \in Requests /\ job[w].what = "rename"
      BY <2>2 DEF TypeOK, InHand, Rename
    <3> QED
      BY <2>2, <3>1 DEF TypeOK, Rename
  <2>3. CASE WriteUser(w)
    BY <2>3 DEF TypeOK, WriteUser
  <2>4. CASE UNCHANGED <<stage, access, nickname, account>>
    BY <2>4
  <2> QED
    BY <1>2, <2>1, <2>2, <2>3, <2>4 DEF Work, Pop, ReadUser, ReadDevice, Own, ReadModel,
                                        Replace, Spread, Abandon
<1>3. ASSUME NEW u \in Users, Login(u)
      PROVE  /\ UNCHANGED <<stage, access, nickname>>
             /\ \A v \in Users : account[v] = "listing" => account'[v] = "listing"
  BY <1>3 DEF TypeOK, Login
<1>4. ASSUME NEW d \in Devices, Seen(d)
      PROVE  /\ UNCHANGED <<stage, access, account>>
             /\ \A e \in Devices : nickname[e] \in Names => nickname'[e] \in Names
  BY <1>4, OwnershipAssumption DEF TypeOK, Seen
<1>5. CASE UNCHANGED vars
  BY <1>5 DEF vars
<1> QED
  BY <1>1, <1>2, <1>3, <1>4, <1>5 DEF Next

\* ... and so what was opened stays open, and what may be listed may be.
LEMMA KeptOpen ==
    ASSUME TypeOK, InHand, [Next]_vars
    PROVE  Opened \subseteq Opened' /\ Listable \subseteq Listable'
<1>1. ASSUME NEW d \in Devices, d \in Opened
      PROVE  d \in Opened'
  <2>1. PICK r \in Requests : /\ r.what = "public" /\ r.device = d
                              /\ r.user = authority[d].owner /\ stage[r] = "done"
    BY <1>1 DEF Opened
  <2>2. authority[d] # NoRecord
    BY <2>1, RequestFields, OwnershipAssumption DEF NoRecord, Record
  <2>3. authority'[d].owner = authority[d].owner
    BY <2>2, OwnerStep
  <2>4. stage'[r] = "done"
    BY <2>1, Kept
  <2> QED
    BY <2>1, <2>3, <2>4 DEF Opened
<1>2. ASSUME NEW u \in Users, NEW d \in Devices, <<u, d>> \in Listable
      PROVE  <<u, d>> \in Listable'
  BY <1>2, Kept DEF Listable
<1>3. Opened \subseteq Devices /\ Listable \subseteq Users \X Devices
  BY DEF Opened, Listable
<1> QED
  BY <1>1, <1>2, <1>3

-----------------------------------------------------------------------------
(* Requests and jobs under way                                             *)

\* An unregister request that has read a list has read one, and a job is there
\* because its request is done.
LEMMA NextUnderWay ==
    ASSUME TypeOK, UnderWay, InHand, [Next]_vars
    PROVE  UnderWay'
<1> USE RequestFields DEF mongoVars, webVars, workerVars, historyVars
<1>1. ASSUME NEW r \in Requests, Ask(r)
      PROVE  UnderWay'
  <2>1. \A q \in Requests :
          stage'[q] = "read" => q.what = "unregister" /\ account'[q.user] = "listing"
    <3>1. ASSUME stage'[r] = "read"
          PROVE  r.what = "unregister" /\ account[r.user] = "listing"
      <4>1. CASE ReadToUnregister(r)
        <5>1. list[r.user][r.device] # Absent
          BY <4>1, <3>1 DEF TypeOK, ReadToUnregister, Stage
        <5> QED
          BY <4>1, <5>1 DEF TypeOK, EmptyList, ReadToUnregister
      <4>2. CASE ~ReadToUnregister(r)
        BY <1>1, <3>1, <4>2 DEF TypeOK, Ask, Stage, Register, Check, Enqueue, Unregister, RequestFails
      <4> QED
        BY <4>1, <4>2
    <3> QED
      BY <1>1, <3>1, AskLocal DEF UnderWay
  <2>2. \A k \in DOMAIN jobs' : stage'[jobs'[k]] = "done"
    <3>1. CASE jobs' = Append(jobs, r)
      <4>1. stage'[r] = "done"
        BY <1>1, <3>1 DEF TypeOK, Ask, Stage, Register, Check, Enqueue, ReadToUnregister,
                          Unregister, RequestFails
      <4>2. \A k \in DOMAIN jobs' : jobs'[k] = r \/ (k \in DOMAIN jobs /\ jobs'[k] = jobs[k])
        <5>1. jobs \in Seq(Requests)
          BY DEF TypeOK
        <5>2. \A k \in DOMAIN Append(jobs, r) :
                Append(jobs, r)[k] = r \/ (k \in DOMAIN jobs /\ Append(jobs, r)[k] = jobs[k])
          BY <5>1, JobList
        <5> QED
          BY <3>1, <5>2, Zenon
      <4>3. \A k \in DOMAIN jobs : jobs[k] \in Requests
        BY DEF TypeOK
      <4> QED
        BY <4>1, <4>2, <4>3, Kept DEF UnderWay
    <3>2. CASE jobs' = jobs
      <4>1. \A k \in DOMAIN jobs : jobs[k] \in Requests
        BY DEF TypeOK
      <4> QED
        BY <3>2, <4>1, Kept DEF UnderWay
    <3> QED
      BY <1>1, <3>1, <3>2 DEF Ask, Register, Check, Enqueue, ReadToUnregister, Unregister, RequestFails
  <2>3. \A w \in Workers : pc'[w] # "idle" => stage'[job'[w]] = "done"
    BY <1>1, AskLocal, Kept DEF TypeOK, UnderWay
  <2> QED
    BY <2>1, <2>2, <2>3 DEF UnderWay
<1>2. ASSUME NEW w \in Workers, Work(w)
      PROVE  UnderWay'
  <2>1. \A q \in Requests :
          stage'[q] = "read" => q.what = "unregister" /\ account'[q.user] = "listing"
    BY <1>2, WorkLocal, Kept DEF UnderWay
  <2>2. CASE Pop(w)
    <3>1. /\ Head(jobs) \in Requests /\ stage[Head(jobs)] = "done"
          /\ \A k \in DOMAIN Tail(jobs) : stage[Tail(jobs)[k]] = "done"
      BY <2>2, JobList DEF TypeOK, UnderWay, Pop
    <3>2. /\ jobs' = Tail(jobs) /\ job'[w] = Head(jobs)
      BY <2>2 DEF TypeOK, Pop
    <3> QED
      BY <1>2, <2>1, <3>1, <3>2, WorkLocal DEF UnderWay
  <2>3. CASE ~Pop(w)
    BY <1>2, <2>1, <2>3, WorkLocal DEF UnderWay
  <2> QED
    BY <2>2, <2>3
<1>3. ASSUME NEW u \in Users, Login(u)
      PROVE  UnderWay'
  BY <1>3, Kept DEF UnderWay, Login
<1>4. ASSUME NEW d \in Devices, Seen(d)
      PROVE  UnderWay'
  BY <1>4 DEF UnderWay, Seen
<1>5. CASE UNCHANGED vars
  BY <1>5 DEF UnderWay, vars
<1> QED
  BY <1>1, <1>2, <1>3, <1>4, <1>5 DEF Next

\* What holds of the hands of one worker.
Held(w) ==
    /\ pc[w] = "idle" => held[w] = Nothing
    /\ pc[w] \in {"access", "write"} => held[w].name # Absent
    /\ pc[w] \in {"rename", "spread"} => job[w].what = "rename"
    /\ pc[w] = "spread" =>
         held[w].name = job[w].name /\ nickname[job[w].device] \in Names
    /\ pc[w] = "replace" =>
         /\ authority[job[w].device] # NoRecord
         /\ held[w].record \in Records
         /\ held[w].record.owner = authority[job[w].device].owner

\* The hands of a worker whose own job and reads stay as they are.
LEMMA HeldStays ==
    ASSUME TypeOK, InHand, [Next]_vars, NEW w \in Workers,
           pc'[w] = pc[w], job'[w] = job[w], held'[w] = held[w]
    PROVE  Held(w)'
<1>1. pc[w] # "idle" => job[w] \in Requests /\ job[w].device \in Devices
  BY RequestFields DEF TypeOK
<1>2. pc[w] = "spread" => nickname'[job[w].device] \in Names
  BY <1>1, Kept DEF InHand
<1>3. pc[w] = "replace" =>
        /\ authority'[job[w].device] # NoRecord
        /\ held[w].record.owner = authority'[job[w].device].owner
  BY <1>1, OwnerStep DEF InHand
<1> QED
  BY <1>2, <1>3 DEF InHand, Held

\* What the changed model keeps.
LEMMA ChangedKeeps ==
    ASSUME NEW a \in Records, NEW what
    PROVE  /\ Changed(a, what) \in Records
           /\ Changed(a, what).owner = a.owner
           /\ Changed(a, what).model \in {"public", "shared"} =>
                a.model \in {"public", "shared"} \/ what = "public"
  BY RecordFields DEF Changed

\* Every step leaves every worker with what it may rely on.
LEMMA NextInHand ==
    ASSUME TypeOK, InHand, [Next]_vars
    PROVE  InHand'
<1> USE DEF To
<1>1. SUFFICES ASSUME NEW w \in Workers
               PROVE  Held(w)'
  BY DEF InHand, Held
<1>2. ASSUME NEW x \in Workers, Work(x)
      PROVE  Held(w)'
  <2>1. CASE x # w
    BY <1>2, <2>1, WorkLocal, HeldStays
  <2>2. CASE x = w
    <3>0. pc[w] # "idle" => job[w] \in Requests /\ job[w].device \in Devices
      BY RequestFields DEF TypeOK
    <3>1. CASE pc'[w] = "idle"
      BY <1>2, <2>2, <3>1, WorkLocal DEF Held
    <3>2. CASE Pop(w)
      BY <3>2 DEF TypeOK, Pop, Start, Held
    <3>3. CASE ReadDevice(w) /\ pc'[w] # "idle"
      <4>1. /\ nickname[job[w].device] # Absent /\ pc'[w] = "access"
            /\ held'[w].name = nickname[job[w].device]
        BY <3>3 DEF TypeOK, ReadDevice, EndJob, Holdings
      <4> QED
        BY <4>1 DEF Held
    <3>4. CASE ClaimAccess(w) /\ pc'[w] # "idle"
      <4>1. pc[w] = "access" /\ pc'[w] = "write" /\ held'[w] = held[w]
        BY <3>4 DEF TypeOK, ClaimAccess, EndJob
      <4> QED
        BY <4>1 DEF InHand, Held
    <3>5. CASE ReadModel(w) /\ pc'[w] # "idle"
      <4> DEFINE a == authority[job[w].device]
      <4>1. /\ a # NoRecord /\ pc[w] = "model" /\ pc'[w] = "replace" /\ job'[w] = job[w]
            /\ held'[w].record = Changed(a, job[w].what)
            /\ authority' = authority
        BY <3>5 DEF TypeOK, ReadModel, EndJob, Holdings, mongoVars
      <4>2. a \in Records
        BY <3>0, <4>1 DEF TypeOK
      <4>3. Changed(a, job[w].what) \in Records /\ Changed(a, job[w].what).owner = a.owner
        BY <4>2, ChangedKeeps
      <4> QED
        BY <4>1, <4>3 DEF Held
    <3>6. CASE Rename(w) /\ pc'[w] # "idle"
      <4>1. /\ pc[w] = "rename" /\ pc'[w] = "spread" /\ job'[w] = job[w]
            /\ nickname' = [nickname EXCEPT ![job[w].device] = job[w].name]
            /\ held' = [held EXCEPT ![w].name = job[w].name]
        BY <3>6 DEF TypeOK, Rename, EndJob
      <4>2. job[w].name \in Names /\ job[w].what = "rename"
        BY <3>0, <4>1, RequestFields DEF InHand
      <4>3. nickname'[job[w].device] = job[w].name /\ held'[w].name = job[w].name
        BY <3>0, <4>1 DEF TypeOK, Holdings
      <4> QED
        BY <4>1, <4>2, <4>3 DEF Held
    <3>7. CASE ReadUser(w) \/ WriteUser(w)
      BY <3>7 DEF TypeOK, ReadUser, WriteUser, Held
    <3> QED
      BY <1>2, <2>2, <3>1, <3>2, <3>3, <3>4, <3>5, <3>6, <3>7
         DEF TypeOK, Work, Own, Replace, Spread, Abandon, EndJob
  <2> QED
    BY <2>1, <2>2
<1>3. ASSUME NEW r \in Requests, Ask(r)
      PROVE  Held(w)'
  BY <1>3, AskLocal, HeldStays DEF workerVars
<1>4. CASE UNCHANGED workerVars
  BY <1>4, HeldStays DEF workerVars
<1> QED
  BY <1>2, <1>3, <1>4 DEF Next, Login, Seen, vars

-----------------------------------------------------------------------------
(* Access                                                                  *)

\* What a check leaves behind is as guarded as before.
LEMMA CheckGuards ==
    ASSUME TypeOK, InHand, Guarded, [Next]_vars,
           NEW u \in Users, NEW d \in Devices, Asked(u, d)
    PROVE  /\ \A e \in Devices : authority'[e].model \in {"public", "shared"} => e \in Opened'
           /\ \A v \in Users : \A e \in Devices :
                <<v, e>> \in access' =>
                    /\ authority'[e] # NoRecord
                    /\ authority'[e].owner = v \/ e \in Opened'
<1>1. ASSUME NEW e \in Devices, authority'[e].model \in {"public", "shared"}
      PROVE  e \in Opened'
  <2>1. authority'[e] = authority[e]
    BY <1>1, AccessCheck
  <2> QED
    BY <1>1, <2>1, KeptOpen DEF Guarded
<1>2. access' = access \/ authority'[d].owner = u \/ d \in Opened'
  BY <1>1, AccessCheck
<1>3. ASSUME NEW v \in Users, NEW e \in Devices, <<v, e>> \in access'
      PROVE  /\ authority'[e] # NoRecord
             /\ authority'[e].owner = v \/ e \in Opened'
  <2>1. CASE <<v, e>> \in access
    BY <2>1, OwnerStep, KeptOpen DEF Guarded
  <2>2. CASE <<v, e>> \notin access
    <3>1. access' # access /\ v = u /\ e = d
      BY <1>3, <2>2, AccessCheck
    <3> QED
      BY <1>2, <3>1, AccessCheck
  <2> QED
    BY <2>1, <2>2
<1> QED
  BY <1>1, <1>2, <1>3

\* The part of Guarded about requests, if only steps of others are taken.
LEMMA RequestsGuarded ==
    ASSUME TypeOK, InHand, Guarded, [Next]_vars,
           NEW r \in Requests, stage'[r] = stage[r],
           r.what = "public", stage[r] \in {"granted", "done"}
    PROVE  /\ authority'[r.device] # NoRecord
           /\ authority'[r.device].owner = r.user \/ r.device \in Opened'
<1>1. /\ authority[r.device] # NoRecord /\ r.device \in Devices
      /\ authority[r.device].owner = r.user \/ r.device \in Opened
  BY RequestFields DEF Guarded
<1> QED
  BY <1>1, OwnerStep, KeptOpen

\* A step leaves the devices of others as guarded as before.
LEMMA NextGuarded ==
    ASSUME TypeOK, UnderWay, InHand, Guarded, [Next]_vars
    PROVE  Guarded'
<1> USE RequestFields DEF mongoVars, webVars, workerVars, historyVars
<1>0. /\ authority' = authority =>
            \A d \in Devices : authority'[d].model \in {"public", "shared"} => d \in Opened'
      /\ access' = access =>
            \A u \in Users : \A d \in Devices :
                <<u, d>> \in access' =>
                    /\ authority'[d] # NoRecord
                    /\ authority'[d].owner = u \/ d \in Opened'
  BY KeptOpen, OwnerStep DEF Guarded
<1>1. ASSUME NEW r \in Requests, Ask(r)
      PROVE  Guarded'
  <2>1. \A w \in Workers :
          pc'[w] = "replace" /\ held'[w].record.model \in {"public", "shared"} =>
              job'[w].device \in Opened'
    BY <1>1, AskLocal, KeptOpen DEF TypeOK, Guarded
  <2>2. \A q \in Requests \ {r} :
          q.what = "public" /\ stage'[q] \in {"granted", "done"} =>
              /\ authority'[q.device] # NoRecord
              /\ authority'[q.device].owner = q.user \/ q.device \in Opened'
    BY <1>1, AskLocal, RequestsGuarded
  <2>3. CASE Check(r)
    <3>1. /\ Asked(r.user, r.device)
          /\ stage'[r] \in {"granted", "done"} => <<r.user, r.device>> \in access'
      BY <2>3 DEF TypeOK, Check, Stage, Asked, UserAccess
    <3>2. stage'[r] \in {"granted", "done"} =>
            /\ authority'[r.device] # NoRecord
            /\ authority'[r.device].owner = r.user \/ r.device \in Opened'
      BY <3>1, CheckGuards
    <3> QED
      BY <2>1, <2>2, <3>1, <3>2, CheckGuards DEF Guarded
  <2>4. CASE ~Check(r)
    <3>1. /\ authority' = authority /\ access' = access
          /\ r.what = "public" /\ stage'[r] \in {"granted", "done"} =>
                stage[r] = "granted"
      BY <1>1, <2>4 DEF TypeOK, UnderWay, Ask, Stage, Register, Enqueue, ReadToUnregister,
                        Unregister, RequestFails
    <3>2. r.what = "public" /\ stage'[r] \in {"granted", "done"} =>
            /\ authority'[r.device] # NoRecord
            /\ authority'[r.device].owner = r.user \/ r.device \in Opened'
      BY <3>1, OwnerStep, KeptOpen DEF Guarded
    <3> QED
      BY <1>0, <2>1, <2>2, <3>1, <3>2 DEF Guarded
  <2> QED
    BY <2>3, <2>4
<1>2. ASSUME NEW w \in Workers, Work(w)
      PROVE  Guarded'
  <2>1. \A r \in Requests :
          r.what = "public" /\ stage'[r] \in {"granted", "done"} =>
              /\ authority'[r.device] # NoRecord
              /\ authority'[r.device].owner = r.user \/ r.device \in Opened'
    BY <1>2, WorkLocal, RequestsGuarded
  <2>2. ASSUME NEW x \in Workers, pc'[x] = "replace",
               held'[x].record.model \in {"public", "shared"}
        PROVE  job'[x].device \in Opened'
    <3>1. CASE pc[x] = "replace" /\ job'[x] = job[x] /\ held'[x] = held[x]
      BY <2>2, <3>1, KeptOpen DEF TypeOK, Guarded
    <3>2. CASE x = w /\ ReadModel(w)
      <4> DEFINE a == authority[job[w].device]
      <4>1. /\ a # NoRecord /\ pc[w] = "model" /\ job'[w] = job[w]
            /\ held'[w].record = Changed(a, job[w].what)
        BY <2>2, <3>2 DEF TypeOK, ReadModel, EndJob, To, Holdings
      <4>2. /\ job[w] \in Requests /\ job[w].device \in Devices /\ stage[job[w]] = "done"
            /\ a \in Records
        BY <4>1 DEF TypeOK, UnderWay
      <4>3. a.model \in {"public", "shared"} \/ job[w].what = "public"
        BY <2>2, <3>2, <4>1, <4>2, ChangedKeeps
      <4>4. job[w].device \in Opened
        BY <4>2, <4>3 DEF Guarded, Opened
      <4> QED
        BY <3>2, <4>1, <4>2, <4>4, KeptOpen
    <3>3. CASE x # w
      BY <1>2, <2>2, <3>1, <3>3, WorkLocal
    <3>4. CASE x = w /\ ~ReadModel(w)
      BY <1>2, <2>2, <3>4 DEF TypeOK, Work, Pop, Start, ReadUser, ReadDevice, ClaimAccess, WriteUser,
                              Own, Replace, Rename, Spread, Abandon, EndJob, To
    <3> QED
      BY <3>2, <3>3, <3>4
  <2>3. CASE ClaimAccess(w)
    <3>0. job[w].user \in Users /\ job[w].device \in Devices
      BY <2>3 DEF TypeOK, ClaimAccess
    <3>1. Asked(job[w].user, job[w].device)
      BY <2>3 DEF ClaimAccess, Asked
    <3> QED
      BY <2>1, <2>2, <3>0, <3>1, CheckGuards DEF Guarded
  <2>4. CASE Replace(w)
    <3>1. /\ authority' = [authority EXCEPT ![job[w].device] = held[w].record]
          /\ access' = access /\ pc[w] = "replace"
      BY <2>4 DEF Replace
    <3>2. ASSUME NEW d \in Devices, authority'[d].model \in {"public", "shared"}
          PROVE  d \in Opened'
      <4>1. CASE d = job[w].device
        BY <3>1, <3>2, <4>1, KeptOpen DEF TypeOK, Guarded
      <4>2. CASE d # job[w].device
        BY <3>1, <3>2, <4>2, KeptOpen DEF TypeOK, Guarded
      <4> QED
        BY <4>1, <4>2
    <3> QED
      BY <1>0, <2>1, <2>2, <3>1, <3>2 DEF Guarded
  <2>5. CASE authority' = authority /\ access' = access
    BY <1>0, <2>1, <2>2, <2>5 DEF Guarded
  <2> QED
    BY <1>2, <2>3, <2>4, <2>5 DEF Work, Pop, ReadUser, ReadDevice, WriteUser, Own, ReadModel,
                                  Rename, Spread, Abandon
<1>3. CASE UNCHANGED <<authority, access, stage, pc, job, held>>
  <2>1. \A r \in Requests :
          r.what = "public" /\ stage'[r] \in {"granted", "done"} =>
              /\ authority'[r.device] # NoRecord
              /\ authority'[r.device].owner = r.user \/ r.device \in Opened'
    BY <1>3, RequestsGuarded
  <2> QED
    BY <1>0, <1>3, <2>1, KeptOpen DEF TypeOK, Guarded
<1> QED
  BY <1>1, <1>2, <1>3 DEF Next, Login, Seen, vars

-----------------------------------------------------------------------------
(* Lists                                                                   *)

\* A pair of a user and a device is listable for either reason.
LEMMA ListableIf ==
    ASSUME NEW u \in Users, NEW d \in Devices
    PROVE  <<u, d>> \in access \/ nickname[d] \in Names => <<u, d>> \in Listable
  BY DEF Listable

\* The parts of Vouched that are about lists and requests.
ListsVouched ==
    /\ \A u \in Users : \A d \in Devices :
         /\ list[u][d] # Absent => <<u, d>> \in Listable
         /\ claimant[d] = u => <<u, d>> \in access
    /\ \A r \in Requests : \A d \in Devices : webRead[r][d] # Absent => <<r.user, d>> \in Listable

\* The parts of it that are about one worker.
HandsVouched(w) ==
    /\ pc[w] # "idle" =>
         \A d \in Devices : held[w].list[d] # Absent => <<job[w].user, d>> \in Listable
    /\ pc[w] \in {"write", "own"} => <<job[w].user, job[w].device>> \in access

\* What a request lists was listed before.
LEMMA AskVouched ==
    ASSUME TypeOK, UnderWay, InHand, Vouched, [Next]_vars, NEW r \in Requests, Ask(r)
    PROVE  ListsVouched'
<1> USE RequestFields DEF mongoVars, webVars, workerVars, historyVars
<1>1. \A u \in Users : \A d \in Devices : claimant'[d] = u => <<u, d>> \in access'
  BY AskLocal, Kept DEF Vouched
<1>2. CASE ReadToUnregister(r)
  <2>1. /\ \A q \in Requests : webRead'[q] \in {webRead[q], list[q.user]}
        /\ list' = list
    BY <1>2 DEF TypeOK, ReadToUnregister
  <2> QED
    BY <1>1, <2>1, KeptOpen DEF Vouched, ListsVouched
<1>3. CASE Unregister(r)
  <2>1. /\ \A q \in Requests : webRead'[q] \in {webRead[q], EmptyList}
        /\ \A u \in Users : \A d \in Devices :
             list'[u][d] \in {list[u][d], Absent} \/ (u = r.user /\ list'[u][d] = webRead[r][d])
    BY <1>3 DEF TypeOK, Unregister, Lists
  <2> QED
    BY <1>1, <2>1, KeptOpen DEF Vouched, ListsVouched, EmptyList
<1>4. CASE /\ list' = list
           /\ \A q \in Requests : webRead'[q] \in {webRead[q], EmptyList}
  BY <1>1, <1>4, KeptOpen DEF Vouched, ListsVouched, EmptyList
<1>5. CASE RequestFails(r)
  <2>1. \A q \in Requests : webRead'[q] \in {webRead[q], EmptyList}
    BY <1>5 DEF TypeOK, RequestFails
  <2> QED
    BY <1>4, <1>5, <2>1 DEF RequestFails
<1> QED
  BY <1>2, <1>3, <1>4, <1>5 DEF Ask, Register, Check, Enqueue

\* What a worker lists it may list.
LEMMA WorkVouched ==
    ASSUME TypeOK, UnderWay, InHand, Vouched, [Next]_vars, NEW w \in Workers, Work(w)
    PROVE  ListsVouched'
<1> USE RequestFields DEF mongoVars, webVars, workerVars, historyVars
<1>1. \A r \in Requests : \A d \in Devices : webRead'[r][d] # Absent => <<r.user, d>> \in Listable'
  BY WorkLocal, KeptOpen DEF Vouched
<1>2. CASE WriteUser(w)
  <2>1. /\ \A u \in Users : \A d \in Devices :
             \/ list'[u][d] = list[u][d]
             \/ u = job[w].user /\ (list'[u][d] = held[w].list[d] \/ d = job[w].device)
        /\ claimant' = claimant /\ pc[w] = "write"
    BY <1>2 DEF TypeOK, WriteUser, Holdings, Lists
  <2>2. <<job[w].user, job[w].device>> \in Listable
    BY <2>1, ListableIf DEF TypeOK, Vouched
  <2> QED
    BY <1>1, <2>1, <2>2, KeptOpen, Kept DEF Vouched, ListsVouched
<1>3. CASE Own(w)
  <2>1. /\ list' = list /\ access' = access /\ pc[w] = "own"
        /\ \A d \in Devices : claimant'[d] = claimant[d] \/
                               (d = job[w].device /\ claimant'[d] = job[w].user)
    BY <1>3 DEF TypeOK, Own
  <2> QED
    BY <1>1, <2>1, KeptOpen DEF Vouched, ListsVouched
<1>4. CASE Spread(w)
  <2>1. /\ \A u \in Users : \A d \in Devices : list'[u][d] = list[u][d] \/ d = job[w].device
        /\ claimant' = claimant /\ access' = access /\ pc[w] = "spread"
    BY <1>4 DEF TypeOK, Spread, Lists
  <2>2. \A u \in Users : <<u, job[w].device>> \in Listable
    BY <2>1, ListableIf DEF TypeOK, InHand
  <2> QED
    BY <1>1, <2>1, <2>2, KeptOpen DEF Vouched, ListsVouched
<1>5. CASE list' = list /\ claimant' = claimant
  BY <1>1, <1>5, KeptOpen, Kept DEF Vouched, ListsVouched
<1> QED
  BY <1>2, <1>3, <1>4, <1>5 DEF Work, Pop, ReadUser, ReadDevice, ClaimAccess, ReadModel,
                                Replace, Rename, Abandon

\* A copy that a worker has read may be written back.
LEMMA HandsStayVouched ==
    ASSUME TypeOK, InHand, Vouched, [Next]_vars, NEW w \in Workers,
           pc'[w] = "idle" \/ job'[w] = job[w],
           pc[w] # "idle",
           pc'[w] # "idle" => held'[w].list = held[w].list,
           pc'[w] \in {"write", "own"} => pc[w] \in {"write", "own"}
    PROVE  HandsVouched(w)'
  BY KeptOpen, Kept DEF Vouched, HandsVouched

\* The same, for a step of the worker itself.
LEMMA WorkHandsVouched ==
    ASSUME TypeOK, InHand, Vouched, [Next]_vars, NEW w \in Workers, Work(w)
    PROVE  HandsVouched(w)'
<1> USE RequestFields DEF To, mongoVars, webVars, historyVars
<1>1. CASE Pop(w)
  <2>1. /\ held'[w] = Nothing /\ pc'[w] \notin {"write", "own"}
    BY <1>1 DEF TypeOK, InHand, Pop, Start
  <2> QED
    BY <2>1 DEF HandsVouched, Nothing, EmptyList
<1>2. CASE ReadUser(w)
  <2>1. /\ pc[w] = "user" /\ pc'[w] = "device" /\ job'[w] = job[w]
        /\ held'[w].list = list[job[w].user] /\ job[w].user \in Users
    BY <1>2 DEF TypeOK, ReadUser, Holdings
  <2> QED
    BY <2>1, KeptOpen DEF Vouched, HandsVouched
<1>3. CASE ClaimAccess(w)
  <2>1. /\ pc[w] = "access"
        /\ \/ pc'[w] = "idle"
           \/ /\ pc'[w] = "write" /\ job'[w] = job[w] /\ held'[w] = held[w]
              /\ <<job[w].user, job[w].device>> \in access'
    BY <1>3 DEF TypeOK, ClaimAccess, UserAccess, EndJob
  <2> QED
    BY <2>1, KeptOpen DEF Vouched, HandsVouched
<1>4. CASE ReadDevice(w)
  <2>1. /\ pc[w] = "device"
        /\ \/ pc'[w] = "idle"
           \/ /\ pc'[w] = "access" /\ job'[w] = job[w]
              /\ held' = [held EXCEPT ![w].name = nickname[job[w].device]]
    BY <1>4 DEF TypeOK, ReadDevice, EndJob
  <2>2. held[w] \in Holdings /\ held \in [Workers -> Holdings]
    BY DEF TypeOK
  <2>3. pc'[w] # "idle" => held'[w].list = held[w].list
    BY <2>1, <2>2 DEF Holdings
  <2> QED
    BY <2>1, <2>3, HandsStayVouched
<1>5. CASE ReadModel(w)
  <2>1. /\ pc[w] = "model"
        /\ \/ pc'[w] = "idle"
           \/ /\ pc'[w] = "replace" /\ job'[w] = job[w]
              /\ \E b : held' = [held EXCEPT ![w].record = b]
    BY <1>5 DEF TypeOK, ReadModel, EndJob
  <2>2. held[w] \in Holdings /\ held \in [Workers -> Holdings]
    BY DEF TypeOK
  <2>3. pc'[w] # "idle" => held'[w].list = held[w].list
    BY <2>1, <2>2 DEF Holdings
  <2> QED
    BY <2>1, <2>3, HandsStayVouched
<1>6. CASE Rename(w)
  <2>1. /\ pc[w] = "rename" /\ (pc'[w] = "idle" \/ (pc'[w] = "spread" /\ job'[w] = job[w]))
        /\ pc'[w] = "spread" => held' = [held EXCEPT ![w].name = job[w].name]
    BY <1>6 DEF TypeOK, Rename, EndJob
  <2>2. held[w] \in Holdings /\ held \in [Workers -> Holdings]
    BY DEF TypeOK
  <2>3. pc'[w] # "idle" => held'[w].list = held[w].list
    BY <2>1, <2>2 DEF Holdings
  <2> QED
    BY <2>1, <2>3, HandsStayVouched
<1>7. CASE WriteUser(w)
  BY <1>7, HandsStayVouched DEF TypeOK, WriteUser
<1>8. CASE EndJob(w)
  BY <1>8 DEF TypeOK, EndJob, HandsVouched
<1> QED
  BY <1>1, <1>2, <1>3, <1>4, <1>5, <1>6, <1>7, <1>8 DEF Work, Own, Replace, Spread, Abandon

\* Every step leaves lists and copies of lists vouched for.
LEMMA NextVouched ==
    ASSUME TypeOK, UnderWay, InHand, Vouched, [Next]_vars
    PROVE  Vouched'
<1>1. SUFFICES ListsVouched' /\ \A w \in Workers : HandsVouched(w)'
  BY DEF Vouched, ListsVouched, HandsVouched
<1>2. ASSUME NEW w \in Workers, UNCHANGED <<pc, job, held>>
      PROVE  HandsVouched(w)'
  BY <1>2, KeptOpen, Kept DEF Vouched, HandsVouched
<1>3. ASSUME NEW r \in Requests, Ask(r)
      PROVE  Vouched'
  <2>1. UNCHANGED <<pc, job, held>>
    BY <1>3, AskLocal DEF workerVars
  <2> QED
    BY <1>2, <1>3, <2>1, AskVouched DEF Vouched, ListsVouched, HandsVouched
<1>4. ASSUME NEW x \in Workers, Work(x)
      PROVE  ListsVouched' /\ \A w \in Workers : HandsVouched(w)'
  <2>1. ASSUME NEW w \in Workers \ {x}
        PROVE  HandsVouched(w)'
    <3>1. pc'[w] = pc[w] /\ job'[w] = job[w] /\ held'[w] = held[w]
      BY <1>4, WorkLocal
    <3> QED
      BY <3>1, KeptOpen, Kept DEF Vouched, HandsVouched
  <2> QED
    BY <1>4, <2>1, WorkVouched, WorkHandsVouched
<1>5. CASE UNCHANGED <<list, claimant, webRead, pc, job, held>>
  <2>1. ListsVouched'
    BY <1>5, KeptOpen, Kept DEF Vouched, ListsVouched
  <2> QED
    BY <1>2, <1>5, <2>1
<1> QED
  BY <1>3, <1>4, <1>5 DEF Next, Login, Seen, vars, mongoVars, webVars, workerVars, Vouched,
                          ListsVouched, HandsVouched

\* The list of u, if it may be relied upon.
Current(u) ==
    /\ {d \in Devices : list[u][d] # Absent} = expected[u]
    /\ \A d \in expected[u] : <<u, d>> \notin missed => list[u][d] = nickname[d]

\* A list that stays the same stays current, unless a name in it changes.
LEMMA CurrentStays ==
    ASSUME TypeOK, ListIsCurrent, NEW u \in Users \ overtaken,
           list'[u] = list[u], expected'[u] = expected[u],
           \A d \in expected[u] : <<u, d>> \notin missed' =>
               <<u, d>> \notin missed /\ nickname'[d] = nickname[d]
    PROVE  Current(u)'
  BY DEF ListIsCurrent, Current

\* Every step that changes a list from an outdated read says so, and any other
\* leaves the list current.
LEMMA NextCurrent ==
    ASSUME TypeOK, InHand, ListIsCurrent, [Next]_vars
    PROVE  ListIsCurrent'
<1> USE RequestFields DEF mongoVars, webVars, workerVars, historyVars
<1>1. SUFFICES ASSUME NEW u \in Users \ overtaken'
               PROVE  Current(u)'
  BY DEF ListIsCurrent, Current
<1>2. ASSUME NEW r \in Requests, Unregister(r)
      PROVE  Current(u)'
  <2>1. /\ nickname' = nickname /\ missed' = missed /\ u \notin overtaken
        /\ u # r.user => list'[u] = list[u] /\ expected'[u] = expected[u]
    BY <1>2 DEF TypeOK, Unregister
  <2>2. CASE u = r.user
    <3>1. /\ list[u] = webRead[r]
          /\ \A d \in Devices : list'[u][d] = IF d = r.device THEN Absent ELSE list[u][d]
          /\ expected'[u] = expected[u] \ {r.device}
      BY <1>2, <2>2 DEF TypeOK, Unregister, Lists
    <3> QED
      BY <2>1, <3>1 DEF TypeOK, ListIsCurrent, Current
  <2> QED
    BY <2>1, <2>2, CurrentStays
<1>3. ASSUME NEW d \in Devices, Seen(d)
      PROVE  Current(u)'
  <2>1. d \in expected[u] /\ <<u, d>> \notin missed => FALSE
    BY <1>3 DEF Seen, ListIsCurrent
  <2> QED
    BY <1>3, <2>1, CurrentStays DEF TypeOK, Seen
<1>4. ASSUME NEW w \in Workers, WriteUser(w)
      PROVE  Current(u)'
  <2>1. /\ nickname' = nickname /\ u \notin overtaken
        /\ missed' = missed \ {<<job[w].user, job[w].device>>}
        /\ u # job[w].user => list'[u] = list[u] /\ expected'[u] = expected[u]
        /\ job[w] \in Requests
    BY <1>4 DEF TypeOK, WriteUser
  <2>2. CASE u = job[w].user
    <3>1. /\ list[u] = held[w].list /\ nickname[job[w].device] = held[w].name
          /\ held[w].name # Absent
          /\ \A d \in Devices :
               list'[u][d] = IF d = job[w].device THEN held[w].name ELSE list[u][d]
          /\ expected'[u] = expected[u] \cup {job[w].device}
      BY <1>4, <2>2 DEF TypeOK, InHand, WriteUser, Lists
    <3>2. /\ \A d \in Devices : d \in expected[u] <=> list[u][d] # Absent
          /\ \A d \in expected[u] : <<u, d>> \notin missed => list[u][d] = nickname[d]
          /\ expected[u] \subseteq Devices /\ job[w].device \in Devices
      BY <2>1 DEF TypeOK, ListIsCurrent
    <3>3. \A d \in Devices : d \in expected'[u] <=> list'[u][d] # Absent
      BY <3>1, <3>2
    <3>4. \A d \in expected'[u] : <<u, d>> \notin missed' => list'[u][d] = nickname'[d]
      BY <2>1, <2>2, <3>1, <3>2
    <3>5. expected'[u] \subseteq Devices
      BY <3>1, <3>2
    <3> QED
      BY <3>3, <3>4, <3>5 DEF Current
  <2> QED
    BY <2>1, <2>2, CurrentStays DEF TypeOK
<1>5. ASSUME NEW w \in Workers, Rename(w)
      PROVE  Current(u)'
  <2>1. CASE nickname' = nickname /\ missed' = missed
    BY <1>5, <2>1, CurrentStays DEF Rename
  <2>2. CASE /\ nickname' = [nickname EXCEPT ![job[w].device] = job[w].name]
             /\ missed' = missed \cup {<<v, job[w].device>> :
                                      v \in {v \in Users : list[v][job[w].device] # Absent}}
    <3>1. /\ \A d \in Devices : nickname'[d] = nickname[d] \/ d = job[w].device
          /\ list' = list /\ expected' = expected /\ overtaken' = overtaken
      BY <1>5, <2>2 DEF TypeOK, Rename
    <3>2. \A d \in expected[u] : d \in Devices /\ list[u][d] # Absent
      BY <3>1 DEF ListIsCurrent
    <3> QED
      BY <2>2, <3>1, <3>2, CurrentStays
  <2> QED
    BY <1>5, <2>1, <2>2 DEF Rename
<1>6. ASSUME NEW w \in Workers, Spread(w)
      PROVE  Current(u)'
  <2> DEFINE d == job[w].device
  <2>1. PICK us \in SUBSET {v \in Users : account[v] = "listing"} :
          /\ list' = [v \in Users |->
                       IF v \in us THEN [list[v] EXCEPT ![d] = held[w].name] ELSE list[v]]
          /\ expected' = [v \in Users |-> IF v \in us THEN expected[v] \cup {d} ELSE expected[v]]
          /\ missed' = missed \ {<<v, d>> : v \in us}
          /\ overtaken' = IF nickname[d] = job[w].name THEN overtaken ELSE overtaken \cup us
    BY <1>6 DEF Spread
  <2>2. /\ nickname' = nickname /\ job[w] \in Requests /\ job[w].what = "rename"
        /\ held[w].name = job[w].name
    BY <1>6 DEF TypeOK, InHand, Spread
  <2>3. CASE u \in us
    <3>1. /\ u \notin overtaken /\ nickname[d] = job[w].name
          /\ \A e \in Devices : list'[u][e] = IF e = d THEN held[w].name ELSE list[u][e]
          /\ expected'[u] = expected[u] \cup {d}
          /\ \A e \in Devices \ {d} : <<u, e>> \in missed' <=> <<u, e>> \in missed
      BY <2>1, <2>3 DEF TypeOK, Lists
    <3>2. held[w].name # Absent
      BY <2>2, OwnershipAssumption
    <3>3. d \in Devices
      BY <2>2
    <3> HIDE DEF d
    <3>4. /\ \A e \in Devices : e \in expected[u] <=> list[u][e] # Absent
          /\ \A e \in expected[u] : <<u, e>> \notin missed => list[u][e] = nickname[e]
          /\ expected[u] \subseteq Devices
      BY <3>1 DEF TypeOK, ListIsCurrent
    <3>5. \A e \in Devices : e \in expected'[u] <=> list'[u][e] # Absent
      BY <3>1, <3>2, <3>3, <3>4
    <3>6. \A e \in expected'[u] : <<u, e>> \notin missed' => list'[u][e] = nickname'[e]
      BY <2>2, <3>1, <3>3, <3>4
    <3>7. expected'[u] \subseteq Devices
      BY <3>1, <3>3, <3>4
    <3> QED
      BY <3>5, <3>6, <3>7 DEF Current
  <2>4. CASE u \notin us
    <3>1. /\ u \notin overtaken /\ list'[u] = list[u] /\ expected'[u] = expected[u]
          /\ \A e : <<u, e>> \notin missed' => <<u, e>> \notin missed
      BY <2>1, <2>4
    <3> QED
      BY <2>2, <3>1, CurrentStays
  <2> QED
    BY <2>3, <2>4
<1>7. CASE UNCHANGED <<list, nickname, expected, overtaken, missed>>
  BY <1>7, CurrentStays
<1> QED
  BY <1>2, <1>3, <1>4, <1>5, <1>6, <1>7
     DEF Next, Ask, Work, vars, Login, Register, Check, Enqueue, ReadToUnregister, RequestFails,
         Pop, ReadUser, ReadDevice, ClaimAccess, Own, ReadModel, Replace, Abandon

-----------------------------------------------------------------------------
(* The theorems                                                            *)

\* At first nobody has a document and no device a record.
LEMMA InitInvariant == Init => IInv
<1>1. Init => TypeOK
  <2>1. EmptyList \in Lists /\ Nothing \in Holdings
    BY DEF EmptyList, Lists, Nothing, Holdings
  <2> QED
    BY <2>1 DEF Init, TypeOK
<1>2. Init => UnderWay /\ InHand
  BY DEF Init, UnderWay, InHand
<1>3. Init => Guarded /\ Vouched /\ ListIsCurrent
  BY OwnershipAssumption, RecordFields
     DEF Init, Guarded, Vouched, ListIsCurrent, Nothing, EmptyList
<1> QED
  BY <1>1, <1>2, <1>3 DEF IInv

\* The invariant of what requests and workers rely on holds throughout.
THEOREM Reliance == Spec => []IInv
<1>1. IInv /\ [Next]_vars => IInv'
  BY NextTypes, NextUnderWay, NextInHand, NextGuarded, NextVouched, NextCurrent DEF IInv
<1> QED
  BY InitInvariant, <1>1, PTL DEF Spec

\* The types of documents, records, requests and workers hold whatever jobs
\* and requests come.
THEOREM Types == Spec => []TypeOK
<1>1. IInv => TypeOK
  BY DEF IInv
<1> QED
  BY Reliance, <1>1, PTL

\* No check, claim or change of the model of a device ever gives it another
\* owner than its first record named.
THEOREM OwnersStay == Spec => OwnerIsForever
<1>1. IInv /\ [Next]_vars =>
        [\A d \in Devices :
            authority[d] # NoRecord => authority'[d].owner = authority[d].owner]_vars
  BY OwnerStep DEF IInv
<1> QED
  BY Reliance, <1>1, PTL DEF Spec, OwnerIsForever

\* Nobody but the owner is let through to a device before the owner has asked
\* for it to be public, although the jobs do not say who asked.
THEOREM OnlyOwnersOpen == Spec => []OpenedByOwner
<1>1. IInv => OpenedByOwner
  BY DEF IInv, Guarded, Opened, OpenedByOwner
<1> QED
  BY Reliance, <1>1, PTL

\* A device is on the list of those only who were let through to it, or after
\* a rename, and names nobody else its original owner.
THEOREM ListsAreGranted == Spec => []ListedOnlyIfGranted
<1>1. IInv => ListedOnlyIfGranted
  BY DEF IInv, Vouched, Listable, ListedOnlyIfGranted
<1> QED
  BY Reliance, <1>1, PTL

\* Lists are what the requests made of them, unless a document was written
\* back from an outdated read or a rename did not reach it.
THEOREM ListsAreCurrent == Spec => []ListIsCurrent
<1>1. IInv => ListIsCurrent
  BY DEF IInv
<1> QED
  BY Reliance, <1>1, PTL
=============================================================================
